------------------------ MODULE DatabaseQueueProofs ------------------------
(***************************************************************************)
(* The durable task queue for every set of messages and workers, every     *)
(* attempt limit and every kind of deployment.                             *)
(*                                                                         *)
(* The argument: attempts only grows, and the lease of a process inside a  *)
(* handler is an attempts value its row has already reached, so the lease  *)
(* a claim issues is one nobody holds.  Where rows are fenced, the row a   *)
(* failing process will write back is locked: it is still the row it read, *)
(* leased to that process, when the unconditional write happens.           *)
(***************************************************************************)
EXTENDS DatabaseQueue, TLAPS

----------------------------------------------------------------------------
(* The inductive invariant.                                                *)

\* The lease of a delivery is an attempts value of its message.
LeaseIsPast ==
    \A w \in Workers :
        Doing(w, "running") => job[w].lease <= msg[job[w].id].attempts

\* A claim goes on only from a row that was offered and had an attempt left.
CandidateWasOffered ==
    \A w \in Workers : Doing(w, "claiming") =>
        /\ job[w].seen.status \in {"pending", "leased"}
        /\ job[w].seen.attempts < MaxAttempts

\* No row has more attempts than allowed, and an unpublished one has none.
AttemptsBounded ==
    \A m \in Messages :
        /\ msg[m].attempts <= MaxAttempts
        /\ msg[m].status = "absent" => msg[m].attempts = 0

\* The row that a failing process read is unchanged and leased to it.
FailingHolds ==
    \A w \in Workers : Doing(w, "failing") =>
        /\ msg[job[w].id] = job[w].seen
        /\ Holds(w, job[w].id, job[w].lease)

\* What row locks give when nobody sweeps the table by primary key.
FencedRows ==
    RowsAreFenced =>
        /\ requeue = {}
        /\ FailingHolds
        /\ \A m \in Messages : msg[m].status = "pending" => msg[m].attempts < MaxAttempts

IInv ==
    /\ TypeOK
    /\ LeaseIsPast
    /\ OneClaimant
    /\ CandidateWasOffered
    /\ AttemptsBounded
    /\ FencedRows

----------------------------------------------------------------------------
(* What one step does to one row and to one process.                       *)

\* Where rows are fenced nobody has read rows to sweep.
LEMMA NoSweep == ASSUME IInv, RowsAreFenced PROVE requeue = {}
  BY DEF IInv, FencedRows

\* Every way in which a step can change a row.
RowMayBecome(m) ==
    \/ msg'[m] = msg[m]
    \/ /\ msg[m].status = "absent"
       /\ msg'[m] = [msg[m] EXCEPT !.status = "pending"]
    \/ \E w \in Workers :
         /\ ClaimCommit(w) /\ job[w].id = m
         /\ msg'[m] = Leased(msg[m], w, job[w].seen.attempts + 1)
    \/ Exhausted(m) /\ msg'[m] = DeadLetter(msg[m])
    \/ \E w \in Workers :
         /\ Ack(w) /\ job[w].id = m
         /\ msg'[m] = [msg[m] EXCEPT !.status = "completed", !.lease = 0]
    \/ \E w \in Workers :
         /\ FailWrite(w) /\ job[w].id = m
         /\ msg'[m] = Failed(msg[m], job[w])
    \/ /\ requeue # {}
       /\ \E s \in {"pending", "dead_letter"} :
            msg'[m] = [msg[m] EXCEPT !.status = s, !.worker = None, !.lease = 0]

\* The steps that write rows are the seven above.
LEMMA RowStep ==
  ASSUME TypeOK, Next, NEW m \in Messages PROVE RowMayBecome(m)
<1>0. msg \in [Messages -> Row]
  BY DEF TypeOK
<1>1. ASSUME NEW x \in Messages, Publish(x) PROVE RowMayBecome(m)
  <2>1. /\ msg[x].status = "absent"
        /\ msg' = [msg EXCEPT ![x] = [msg[x] EXCEPT !.status = "pending"]]
    BY <1>1 DEF Publish
  <2> QED
    BY <1>0, <2>1 DEF RowMayBecome
<1>2. ASSUME NEW w \in Workers, ClaimCommit(w) PROVE RowMayBecome(m)
  <2>1. msg' = [x \in Messages |->
                  IF x = job[w].id
                  THEN Leased(msg[x], w, job[w].seen.attempts + 1)
                  ELSE IF Exhausted(x) THEN DeadLetter(msg[x]) ELSE msg[x]]
    BY <1>2 DEF ClaimCommit
  <2>2. msg'[m] = IF m = job[w].id
                  THEN Leased(msg[m], w, job[w].seen.attempts + 1)
                  ELSE IF Exhausted(m) THEN DeadLetter(msg[m]) ELSE msg[m]
    BY <2>1
  <2> QED
    BY <1>2, <2>2 DEF RowMayBecome
<1>3. ASSUME NEW w \in Workers, ClaimNone(w) PROVE RowMayBecome(m)
  <2>1. msg' = [x \in Messages |->
                  IF Exhausted(x) THEN DeadLetter(msg[x]) ELSE msg[x]]
    BY <1>3 DEF ClaimNone
  <2>2. msg'[m] = IF Exhausted(m) THEN DeadLetter(msg[m]) ELSE msg[m]
    BY <2>1
  <2> QED
    BY <2>2 DEF RowMayBecome
<1>4. ASSUME NEW w \in Workers, Ack(w) PROVE RowMayBecome(m)
  <2>1. msg' = [msg EXCEPT ![job[w].id] =
                  [msg[job[w].id] EXCEPT !.status = "completed", !.lease = 0]]
    <3>1. job[w] \in Job /\ job[w].id \in Messages
      BY <1>4 DEF Ack, Doing, TypeOK, Job
    <3> QED
      BY <1>0, <1>4, <3>1 DEF Ack, Row
  <2> QED
    BY <1>0, <1>4, <2>1 DEF RowMayBecome
<1>5. ASSUME NEW w \in Workers, FailWrite(w) PROVE RowMayBecome(m)
  <2>1. msg' = [msg EXCEPT ![job[w].id] = Failed(msg[job[w].id], job[w])]
    BY <1>5 DEF FailWrite
  <2> QED
    BY <1>0, <1>5, <2>1 DEF RowMayBecome
<1>6. CASE RequeueWrite
  <2>1. msg' = [x \in Messages |->
                  IF ~Requeued(x) THEN msg[x]
                  ELSE [msg[x] EXCEPT
                          !.status = IF <<x, MaxAttempts>> \in requeue
                                     THEN "dead_letter" ELSE "pending",
                          !.worker = None, !.lease = 0]]
    BY <1>6 DEF RequeueWrite
  <2>2. msg'[m] = IF ~Requeued(m) THEN msg[m]
                  ELSE [msg[m] EXCEPT
                          !.status = IF <<m, MaxAttempts>> \in requeue
                                     THEN "dead_letter" ELSE "pending",
                          !.worker = None, !.lease = 0]
    BY <2>1
  <2> QED
    BY <1>6, <2>2 DEF RequeueWrite, RowMayBecome
<1>7. ASSUME msg' = msg PROVE RowMayBecome(m)
  BY <1>7 DEF RowMayBecome
<1>8. ASSUME NEW w \in Workers,
             \/ \E x \in Messages : ClaimRead(w, x)
             \/ ClaimLost(w) \/ BeatBegin(w) \/ BeatEnd(w) \/ Fenced(w)
             \/ \E r \in BOOLEAN : FailRead(w, r)
             \/ Crash(w)
      PROVE  msg' = msg
  BY <1>8 DEF ClaimRead, ClaimLost, BeatBegin, BeatEnd, Fenced, FailRead, Crash
<1>9. RequeueRead \/ Time => msg' = msg
  BY DEF RequeueRead, Time, Expire, RetryDelayEnds
<1> QED
  BY <1>1, <1>2, <1>3, <1>4, <1>5, <1>6, <1>7, <1>8, <1>9
     DEF Next, WorkerStep, Finish

\* Every way in which a step can change what a process is doing.
JobMayBecome(w) ==
    \/ job'[w] = job[w]
    \/ job'[w] = None
    \/ \E m \in Messages :
         /\ Claimable(m)
         /\ job'[w] = [pc |-> "claiming", id |-> m, lease |-> 0,
                       seen |-> msg[m], retry |-> TRUE]
    \/ /\ ClaimCommit(w)
       /\ job'[w] = [pc |-> "running", id |-> job[w].id,
                     lease |-> job[w].seen.attempts + 1,
                     seen |-> job[w].seen, retry |-> TRUE]
    \/ \E r \in BOOLEAN :
         /\ FailRead(w, r)
         /\ job'[w] = [job[w] EXCEPT !.pc = "failing",
                         !.seen = msg[job[w].id], !.retry = r]

\* The steps that move a process are the four above.
LEMMA JobStep ==
  ASSUME TypeOK, Next, NEW w \in Workers PROVE JobMayBecome(w)
<1>0. job \in [Workers -> Job \cup {None}]
  BY DEF TypeOK
<1>1. ASSUME NEW x \in Workers, NEW m \in Messages, ClaimRead(x, m) PROVE JobMayBecome(w)
  BY <1>0, <1>1 DEF ClaimRead, JobMayBecome
<1>2. ASSUME NEW x \in Workers, ClaimCommit(x) PROVE JobMayBecome(w)
  <2>1. job' = [job EXCEPT ![x] = [pc |-> "running", id |-> job[x].id,
                          lease |-> job[x].seen.attempts + 1,
                          seen |-> job[x].seen, retry |-> TRUE]]
    BY <1>2 DEF ClaimCommit
  <2> QED
    BY <1>0, <1>2, <2>1 DEF JobMayBecome
<1>3. ASSUME NEW x \in Workers, NEW r \in BOOLEAN, FailRead(x, r) PROVE JobMayBecome(w)
  <2>1. job[x] \in Job
    BY <1>0, <1>3 DEF FailRead, Doing
  <2>2. job' = [job EXCEPT ![x] = [job[x] EXCEPT !.pc = "failing",
                              !.seen = msg[job[x].id], !.retry = r]]
    BY <1>0, <1>3, <2>1 DEF FailRead, Job
  <2> QED
    BY <1>0, <1>3, <2>2 DEF JobMayBecome
<1>4. ASSUME NEW x \in Workers,
             ClaimLost(x) \/ Ack(x) \/ FailWrite(x) \/ Fenced(x) \/ Crash(x)
      PROVE  JobMayBecome(w)
  <2>1. job' = [job EXCEPT ![x] = None]
    BY <1>4 DEF ClaimLost, Ack, FailWrite, Fenced, Crash
  <2> QED
    BY <1>0, <2>1 DEF JobMayBecome
<1>5. ASSUME job' = job PROVE JobMayBecome(w)
  BY <1>5 DEF JobMayBecome
<1>6. ASSUME NEW x \in Workers, ClaimNone(x) \/ BeatBegin(x) \/ BeatEnd(x)
      PROVE  job' = job
  BY <1>6 DEF ClaimNone, BeatBegin, BeatEnd
<1>7. RequeueRead \/ RequeueWrite \/ Time \/ (\E m \in Messages : Publish(m))
        => job' = job
  BY DEF RequeueRead, RequeueWrite, Time, Expire, RetryDelayEnds, Publish
<1> QED
  BY <1>1, <1>2, <1>3, <1>4, <1>5, <1>6, <1>7 DEF Next, WorkerStep, Finish

\* A claim that commits does so on the row it read, which was offered, had an
\* attempt left and is locked by nobody.
LEMMA ClaimFacts ==
  ASSUME IInv, NEW w \in Workers, ClaimCommit(w)
  PROVE  /\ job[w] \in Job /\ job[w].id \in Messages
         /\ msg[job[w].id] \in Row
         /\ job[w].seen.attempts = msg[job[w].id].attempts
         /\ msg[job[w].id].status \in {"pending", "leased"}
         /\ msg[job[w].id].attempts < MaxAttempts
         /\ ~Locked(job[w].id)
<1>1. Doing(w, "claiming") /\ CasMatches(job[w]) /\ ~Locked(job[w].id)
  BY DEF ClaimCommit
<1>2. job[w] \in Job /\ job[w].id \in Messages
  BY <1>1 DEF Doing, IInv, TypeOK, Job
<1> QED
  BY <1>1, <1>2 DEF CasMatches, IInv, TypeOK, CandidateWasOffered

\* Rows stay well-formed, attempts never decreases and never exceeds the
\* limit, and no step takes a row away.
LEMMA RowGrows ==
  ASSUME IInv, Next, NEW m \in Messages
  PROVE  /\ msg'[m] \in Row
         /\ msg[m].attempts <= msg'[m].attempts
         /\ msg'[m].attempts <= MaxAttempts
         /\ msg'[m].status = "absent" => msg'[m] = msg[m]
<1>0. /\ msg[m] \in Row /\ msg[m].attempts \in Nat
      /\ msg[m].attempts <= MaxAttempts
  BY DEF IInv, TypeOK, Row, AttemptsBounded
<1>1. CASE msg'[m] = msg[m]
  BY <1>0, <1>1
<1>2. CASE \E s \in Status \ {"absent"}, x \in Workers \cup {None} :
             \/ msg'[m] = [msg[m] EXCEPT !.status = s]
             \/ msg'[m] = [msg[m] EXCEPT !.status = s, !.lease = 0]
             \/ msg'[m] = [msg[m] EXCEPT !.status = s, !.worker = x, !.lease = 0]
  <2>1. PICK s \in Status \ {"absent"}, x \in Workers \cup {None} :
             \/ msg'[m] = [msg[m] EXCEPT !.status = s]
             \/ msg'[m] = [msg[m] EXCEPT !.status = s, !.lease = 0]
             \/ msg'[m] = [msg[m] EXCEPT !.status = s, !.worker = x, !.lease = 0]
    BY <1>2
  <2>2. /\ msg'[m] \in Row
        /\ msg'[m].attempts = msg[m].attempts
        /\ msg'[m].status = s
    <3> DEFINE A == [msg[m] EXCEPT !.status = s]
    <3> DEFINE B == [msg[m] EXCEPT !.status = s, !.lease = 0]
    <3> DEFINE C == [msg[m] EXCEPT !.status = s, !.worker = x, !.lease = 0]
    <3>1. A \in Row /\ A.attempts = msg[m].attempts /\ A.status = s
      BY <1>0 DEF Row
    <3>2. B \in Row /\ B.attempts = msg[m].attempts /\ B.status = s
      BY <1>0 DEF Row
    <3>3. C \in Row /\ C.attempts = msg[m].attempts /\ C.status = s
      BY <1>0 DEF Row
    <3>4. msg'[m] \in {A, B, C}
      BY <2>1
    <3> HIDE DEF A, B, C
    <3> QED
      BY <3>1, <3>2, <3>3, <3>4
  <2> QED
    BY <1>0, <2>2
<1>3. CASE \E w \in Workers :
             /\ ClaimCommit(w) /\ job[w].id = m
             /\ msg'[m] = Leased(msg[m], w, job[w].seen.attempts + 1)
  <2>1. PICK w \in Workers :
          /\ ClaimCommit(w) /\ job[w].id = m
          /\ msg'[m] = Leased(msg[m], w, job[w].seen.attempts + 1)
    BY <1>3
  <2>2. /\ msg'[m] = Leased(msg[m], w, msg[m].attempts + 1)
        /\ msg[m].attempts < MaxAttempts
    BY <2>1, ClaimFacts
  <2>3. msg[m].attempts + 1 \in Nat
    BY <1>0
  <2>4. /\ msg'[m] \in Row
        /\ msg'[m].attempts = msg[m].attempts + 1
        /\ msg'[m].status = "leased"
    BY <1>0, <2>2, <2>3 DEF Leased, Row, Status
  <2> QED
    BY <1>0, <2>2, <2>4, QueueAssumption
<1>4. RowMayBecome(m)
  BY RowStep DEF IInv
<1>5. CASE Exhausted(m) /\ msg'[m] = DeadLetter(msg[m])
  BY <1>2, <1>5 DEF DeadLetter, Status
<1>6. CASE \E w \in Workers : msg'[m] = Failed(msg[m], job[w])
  <2>1. PICK w \in Workers : msg'[m] = Failed(msg[m], job[w])
    BY <1>6
  <2> QED
    BY <1>2, <2>1 DEF Failed, Status
<1> QED
  BY <1>1, <1>2, <1>3, <1>4, <1>5, <1>6 DEF RowMayBecome, Status

\* Every table and every process stays well-formed.
LEMMA TypeStep == ASSUME IInv, Next PROVE TypeOK'
<1>0. TypeOK
  BY DEF IInv
<1>1. msg' \in [Messages -> Row]
  <2>1. msg' = [m \in Messages |-> msg'[m]]
    BY <1>0 DEF Next, WorkerStep, Finish, Time, Publish, ClaimRead, ClaimCommit,
       ClaimLost, ClaimNone, BeatBegin, BeatEnd, Ack, FailRead, FailWrite,
       Fenced, RequeueRead, RequeueWrite, Crash, Expire, RetryDelayEnds, TypeOK
  <2> QED
    BY <2>1, RowGrows
<1>2. job' \in [Workers -> Job \cup {None}]
  <2>1. job' = [w \in Workers |-> job'[w]]
    BY <1>0 DEF Next, WorkerStep, Finish, Time, Publish, ClaimRead, ClaimCommit,
       ClaimLost, ClaimNone, BeatBegin, BeatEnd, Ack, FailRead, FailWrite,
       Fenced, RequeueRead, RequeueWrite, Crash, Expire, RetryDelayEnds, TypeOK
  <2>2. ASSUME NEW w \in Workers PROVE job'[w] \in Job \cup {None}
    <3>1. JobMayBecome(w)
      BY <1>0, JobStep
    <3>2. job[w] \in Job \cup {None}
      BY <1>0 DEF TypeOK
    <3>3. ASSUME NEW m \in Messages,
                 job'[w] = [pc |-> "claiming", id |-> m, lease |-> 0,
                            seen |-> msg[m], retry |-> TRUE]
          PROVE  job'[w] \in Job
      BY <1>0, <3>3 DEF TypeOK, Job
    <3>4. ASSUME ClaimCommit(w),
                 job'[w] = [pc |-> "running", id |-> job[w].id,
                            lease |-> job[w].seen.attempts + 1,
                            seen |-> job[w].seen, retry |-> TRUE]
          PROVE  job'[w] \in Job
      <4>1. /\ job[w] \in Job /\ msg[job[w].id] \in Row
            /\ job[w].seen.attempts = msg[job[w].id].attempts
        BY <3>4, ClaimFacts
      <4>2. job[w].seen.attempts + 1 \in Nat
        BY <4>1 DEF Row
      <4> QED
        BY <3>4, <4>1, <4>2 DEF Job
    <3>5. ASSUME NEW r \in BOOLEAN, FailRead(w, r),
                 job'[w] = [job[w] EXCEPT !.pc = "failing",
                              !.seen = msg[job[w].id], !.retry = r]
          PROVE  job'[w] \in Job
      <4>1. job[w] \in Job /\ msg[job[w].id] \in Row
        BY <1>0, <3>2, <3>5 DEF FailRead, Doing, TypeOK, Job
      <4> QED
        BY <3>5, <4>1 DEF Job
    <3> QED
      BY <3>1, <3>2, <3>3, <3>4, <3>5 DEF JobMayBecome
  <2> QED
    BY <2>1, <2>2
<1>3. expired' \subseteq Messages /\ delayed' \subseteq Messages
  <2>1. ASSUME NEW w \in Workers, FailWrite(w) PROVE job[w].id \in Messages
    BY <1>0, <2>1 DEF FailWrite, Doing, TypeOK, Job
  <2>2. ASSUME NEW w \in Workers, WorkerStep(w)
        PROVE  expired' \subseteq expired /\ delayed' \subseteq Messages
    BY <1>0, <2>1, <2>2 DEF WorkerStep, Finish, ClaimRead, ClaimCommit,
       ClaimLost, ClaimNone, BeatBegin, BeatEnd, Ack, FailRead, FailWrite,
       Fenced, Crash, TypeOK
  <2>3. ASSUME RequeueRead \/ RequeueWrite \/ Time \/ \E m \in Messages : Publish(m)
        PROVE  expired' \subseteq Messages /\ delayed' \subseteq Messages
    BY <1>0, <2>3 DEF RequeueRead, RequeueWrite, Time, Expire, RetryDelayEnds,
       Publish, TypeOK
  <2> QED
    BY <1>0, <2>2, <2>3 DEF Next, TypeOK
<1>4. beat' \in [Workers -> (Messages \X Nat) \cup {None}]
  <2>1. ASSUME NEW w \in Workers, BeatBegin(w)
        PROVE  <<job[w].id, job[w].lease>> \in Messages \X Nat
    BY <1>0, <2>1 DEF BeatBegin, Doing, TypeOK, Job
  <2>2. ASSUME NEW w \in Workers, WorkerStep(w)
        PROVE  beat' \in [Workers -> (Messages \X Nat) \cup {None}]
    <3>1. CASE BeatBegin(w)
      <4>1. beat' = [beat EXCEPT ![w] = <<job[w].id, job[w].lease>>]
        BY <3>1 DEF BeatBegin
      <4> QED
        BY <1>0, <2>1, <3>1, <4>1 DEF TypeOK
    <3>2. CASE BeatEnd(w) \/ Crash(w)
      <4>1. beat' = [beat EXCEPT ![w] = None]
        BY <3>2 DEF BeatEnd, Crash
      <4> QED
        BY <1>0, <4>1 DEF TypeOK
    <3>3. CASE beat' = beat
      BY <1>0, <3>3 DEF TypeOK
    <3> QED
      BY <2>2, <3>1, <3>2, <3>3 DEF WorkerStep, Finish, ClaimRead, ClaimCommit,
         ClaimLost, ClaimNone, Ack, FailRead, FailWrite, Fenced
  <2>3. RequeueRead \/ RequeueWrite \/ Time \/ (\E m \in Messages : Publish(m))
          => beat' = beat
    BY DEF RequeueRead, RequeueWrite, Time, Expire, RetryDelayEnds, Publish
  <2> QED
    BY <1>0, <2>2, <2>3 DEF Next, TypeOK
<1>5. requeue' \subseteq Messages \X Nat
  <2>1. RequeueRead => requeue' \subseteq Messages \X Nat
    <3> SUFFICES ASSUME RequeueRead PROVE requeue' \subseteq Messages \X Nat
      OBVIOUS
    <3>1. PICK found \in SUBSET Messages :
            requeue' = {<<m, msg[m].attempts>> : m \in found}
      BY DEF RequeueRead
    <3>2. \A m \in found : <<m, msg[m].attempts>> \in Messages \X Nat
      BY <1>0 DEF TypeOK, Row
    <3> QED
      BY <3>1, <3>2
  <2> QED
    BY <1>0, <2>1 DEF Next, WorkerStep, Finish, Time, Publish, ClaimRead,
       ClaimCommit, ClaimLost, ClaimNone, BeatBegin, BeatEnd, Ack, FailRead,
       FailWrite, Fenced, RequeueWrite, Crash, Expire, RetryDelayEnds, TypeOK
<1>6. deployment' \in Deployments
  BY <1>0 DEF Next, TypeOK
<1> QED
  BY <1>1, <1>2, <1>3, <1>4, <1>5, <1>6 DEF TypeOK

\* No message, no process, nothing read: the invariant holds.
LEMMA InitIInv == Init => IInv
<1> SUFFICES ASSUME Init PROVE IInv
  OBVIOUS
<1>1. AbsentRow \in Row /\ AbsentRow.attempts = 0 /\ AbsentRow.status = "absent"
  BY DEF AbsentRow, Row, Status
<1>2. /\ \A m \in Messages : msg[m] = AbsentRow
      /\ \A w \in Workers : job[w] = None
      /\ requeue = {}
  BY DEF Init
<1>3. TypeOK
  BY <1>1 DEF Init, TypeOK
<1>4. LeaseIsPast /\ OneClaimant /\ CandidateWasOffered /\ FailingHolds
  BY <1>2 DEF LeaseIsPast, OneClaimant, CandidateWasOffered, FailingHolds, Doing
<1>5. AttemptsBounded
  BY <1>1, <1>2, QueueAssumption DEF AttemptsBounded
<1>6. FencedRows
  BY <1>1, <1>2, <1>4 DEF FencedRows
<1> QED
  BY <1>3, <1>4, <1>5, <1>6 DEF IInv

\* A process is inside the handler after a step because it was there before,
\* or because its claim has just committed with the row's next attempt.
LEMMA RunningFrom ==
  ASSUME IInv, Next, NEW w \in Workers, Doing(w, "running")'
  PROVE  \/ Doing(w, "running") /\ job'[w] = job[w]
         \/ /\ ClaimCommit(w)
            /\ job[w].id \in Messages /\ job'[w].id = job[w].id
            /\ job'[w].lease = msg[job[w].id].attempts + 1
            /\ msg'[job[w].id].attempts = msg[job[w].id].attempts + 1
            /\ \A x \in Workers : x # w => job'[x] = job[x]
<1>1. JobMayBecome(w) /\ job'[w] # None /\ job'[w].pc = "running"
  BY JobStep DEF IInv, Doing
<1>2. CASE job'[w] = job[w]
  BY <1>1, <1>2 DEF Doing
<1>3. CASE /\ ClaimCommit(w)
           /\ job'[w] = [pc |-> "running", id |-> job[w].id,
                         lease |-> job[w].seen.attempts + 1,
                         seen |-> job[w].seen, retry |-> TRUE]
  <2> DEFINE m == job[w].id
  <2>1. /\ m \in Messages /\ msg[m] \in Row
        /\ job[w].seen.attempts = msg[m].attempts
    BY <1>3, ClaimFacts
  <2>2. msg'[m] = Leased(msg[m], w, job[w].seen.attempts + 1)
    BY <1>3, <2>1 DEF ClaimCommit
  <2>3. msg'[m].attempts = msg[m].attempts + 1
    BY <2>1, <2>2 DEF Leased, Row
  <2>4. \A x \in Workers : x # w => job'[x] = job[x]
    BY <1>3 DEF ClaimCommit, IInv, TypeOK
  <2> QED
    BY <1>3, <2>1, <2>3, <2>4
<1>4. CASE \E r \in BOOLEAN :
             job'[w] = [job[w] EXCEPT !.pc = "failing",
                         !.seen = msg[job[w].id], !.retry = r] /\ FailRead(w, r)
  <2>1. job[w] \in Job
    BY <1>4 DEF FailRead, Doing, IInv, TypeOK
  <2> QED
    BY <1>1, <1>4, <2>1 DEF Job
<1>5. \A m \in Messages :
        job'[w] # [pc |-> "claiming", id |-> m, lease |-> 0,
                   seen |-> msg[m], retry |-> TRUE]
  BY <1>1
<1> QED
  BY <1>1, <1>2, <1>3, <1>4, <1>5 DEF JobMayBecome

\* Attempts only grow, so a lease stays one its message has reached, and the
\* lease of a new delivery is larger than any other process holds.
LEMMA LeaseStep == ASSUME IInv, Next PROVE LeaseIsPast' /\ OneClaimant'
<1>0. ASSUME NEW w \in Workers, Doing(w, "running")
      PROVE  /\ job[w].id \in Messages /\ job[w].lease \in Nat
             /\ msg[job[w].id].attempts \in Nat
             /\ job[w].lease <= msg[job[w].id].attempts
  BY <1>0 DEF IInv, TypeOK, Doing, Job, Row, LeaseIsPast
<1>1. ASSUME NEW w \in Workers, Doing(w, "running")'
      PROVE  job'[w].lease <= msg'[job'[w].id].attempts
  <2>1. CASE Doing(w, "running") /\ job'[w] = job[w]
    <3>1. /\ job[w].id \in Messages /\ job[w].lease \in Nat
          /\ msg[job[w].id].attempts \in Nat
          /\ job[w].lease <= msg[job[w].id].attempts
      BY <1>0, <2>1
    <3>2. /\ msg[job[w].id].attempts <= msg'[job[w].id].attempts
          /\ msg'[job[w].id].attempts \in Nat
      BY <3>1, RowGrows DEF Row
    <3> QED
      BY <2>1, <3>1, <3>2
  <2>2. CASE /\ job[w].id \in Messages /\ job'[w].id = job[w].id
             /\ job'[w].lease = msg[job[w].id].attempts + 1
             /\ msg'[job[w].id].attempts = msg[job[w].id].attempts + 1
    <3>1. msg[job[w].id].attempts \in Nat
      BY <2>2 DEF IInv, TypeOK, Row
    <3> QED
      BY <2>2, <3>1
  <2> QED
    BY <1>1, <2>1, <2>2, RunningFrom
<1>2. ASSUME NEW w \in Workers, NEW x \in Workers, w # x,
             Doing(w, "running")', Doing(x, "running")', ClaimCommit(w)
      PROVE  <<job'[w].id, job'[w].lease>> # <<job'[x].id, job'[x].lease>>
  <2>1. ~(Doing(w, "running"))
    BY <1>2 DEF ClaimCommit, Doing
  <2>2. /\ job'[w].id = job[w].id /\ job[w].id \in Messages
        /\ job'[w].lease = msg[job[w].id].attempts + 1
        /\ job'[x] = job[x]
    BY <1>2, <2>1, RunningFrom
  <2>3. Doing(x, "running")
    BY <1>2, <2>2 DEF Doing
  <2>4. /\ job[x].lease \in Nat /\ job[x].lease <= msg[job[x].id].attempts
        /\ msg[job[x].id].attempts \in Nat
    BY <1>0, <2>3
  <2> QED
    BY <2>2, <2>4
<1>3. ASSUME NEW w \in Workers, NEW x \in Workers, w # x,
             Doing(w, "running")', Doing(x, "running")'
      PROVE  <<job'[w].id, job'[w].lease>> # <<job'[x].id, job'[x].lease>>
  <2>1. CASE ClaimCommit(w)
    BY <1>2, <1>3, <2>1
  <2>2. CASE ClaimCommit(x)
    BY <1>2, <1>3, <2>2
  <2>3. CASE ~ClaimCommit(w) /\ ~ClaimCommit(x)
    <3>1. /\ Doing(w, "running") /\ job'[w] = job[w]
          /\ Doing(x, "running") /\ job'[x] = job[x]
      BY <1>3, <2>3, RunningFrom
    <3> QED
      BY <1>3, <3>1 DEF IInv, OneClaimant
  <2> QED
    BY <2>1, <2>2, <2>3
<1>4. LeaseIsPast'
  BY <1>1 DEF LeaseIsPast
<1>5. OneClaimant'
  BY <1>3 DEF OneClaimant
<1> QED
  BY <1>4, <1>5

\* The candidate of a claim is read from the rows that are offered.
LEMMA CandidateStep == ASSUME IInv, Next PROVE CandidateWasOffered'
<1> SUFFICES ASSUME NEW w \in Workers, Doing(w, "claiming")'
             PROVE  /\ job'[w].seen.status \in {"pending", "leased"}
                    /\ job'[w].seen.attempts < MaxAttempts
  BY DEF CandidateWasOffered
<1>1. JobMayBecome(w) /\ job'[w] # None /\ job'[w].pc = "claiming"
  BY JobStep DEF IInv, Doing
<1>2. CASE job'[w] = job[w]
  BY <1>1, <1>2 DEF IInv, CandidateWasOffered, Doing
<1>3. ASSUME NEW m \in Messages, Claimable(m),
             job'[w] = [pc |-> "claiming", id |-> m, lease |-> 0,
                        seen |-> msg[m], retry |-> TRUE]
      PROVE  /\ job'[w].seen.status \in {"pending", "leased"}
             /\ job'[w].seen.attempts < MaxAttempts
  BY <1>3 DEF Claimable, Waiting
<1>4. ASSUME NEW r \in BOOLEAN, FailRead(w, r),
             job'[w] = [job[w] EXCEPT !.pc = "failing",
                         !.seen = msg[job[w].id], !.retry = r]
      PROVE  FALSE
  <2>1. job[w] \in Job
    BY <1>4 DEF FailRead, Doing, IInv, TypeOK
  <2> QED
    BY <1>1, <1>4, <2>1 DEF Job
<1>5. job'[w] # [pc |-> "running", id |-> job[w].id,
                 lease |-> job[w].seen.attempts + 1,
                 seen |-> job[w].seen, retry |-> TRUE]
  BY <1>1
<1> QED
  BY <1>1, <1>2, <1>3, <1>4, <1>5 DEF JobMayBecome

\* Where rows are fenced, nobody writes the row a failing process has locked.
LEMMA LockedRow ==
  ASSUME IInv, Next, RowsAreFenced, NEW w \in Workers, Doing(w, "failing"),
         job'[w] = job[w]
  PROVE  msg'[job[w].id] = msg[job[w].id]
<1> DEFINE m == job[w].id
<1>1. /\ m \in Messages /\ job[w] \in Job
      /\ Holds(w, m, job[w].lease)
      /\ requeue = {}
  BY DEF Doing, IInv, TypeOK, Job, FencedRows, FailingHolds
<1>2. Locked(m)
  BY DEF Locked, RowsAreFenced
<1>3. RowMayBecome(m)
  BY <1>1, RowStep DEF IInv
<1>4. msg[m].status # "absent"
  BY <1>1 DEF Holds
<1>5. ASSUME NEW x \in Workers, ClaimCommit(x), job[x].id = m PROVE FALSE
  BY <1>2, <1>5, ClaimFacts
<1>6. ASSUME NEW x \in Workers, Ack(x), job[x].id = m PROVE FALSE
  BY <1>2, <1>6 DEF Ack
<1>7. ASSUME NEW x \in Workers, FailWrite(x), job[x].id = m PROVE FALSE
  <2>1. Doing(x, "failing") /\ job' = [job EXCEPT ![x] = None]
    BY <1>7 DEF FailWrite
  <2>2. Holds(x, m, job[x].lease)
    BY <1>7, <2>1 DEF IInv, FencedRows, FailingHolds
  <2>3. x = w
    BY <1>1, <2>2 DEF Holds
  <2> QED
    BY <2>1, <2>3 DEF Doing, IInv, TypeOK
<1>8. ~Exhausted(m)
  BY <1>2 DEF Exhausted
<1> QED
  BY <1>1, <1>3, <1>4, <1>5, <1>6, <1>7, <1>8 DEF RowMayBecome

\* Row locks keep what a failing process read true until it writes, so a
\* message it offers again has an attempt left.
LEMMA FencedStep == ASSUME IInv, Next PROVE FencedRows'
<1>0. RowsAreFenced' <=> RowsAreFenced
  BY DEF RowsAreFenced, Next
<1> SUFFICES ASSUME RowsAreFenced
             PROVE  /\ requeue' = {}
                    /\ FailingHolds'
                    /\ \A m \in Messages :
                         msg'[m].status = "pending" => msg'[m].attempts < MaxAttempts
  BY <1>0 DEF FencedRows
<1>1. requeue = {} /\ FailingHolds
  BY DEF IInv, FencedRows
<1>2. requeue' = {}
  <2>1. ~RequeueRead /\ ~RequeueWrite
    BY <1>1 DEF RequeueRead, RequeueWrite, RowsAreFenced
  <2> QED
    BY <1>1, <2>1 DEF Next, WorkerStep, Finish, Time, Publish, ClaimRead,
       ClaimCommit, ClaimLost, ClaimNone, BeatBegin, BeatEnd, Ack, FailRead,
       FailWrite, Fenced, Crash, Expire, RetryDelayEnds
<1>3. ASSUME NEW w \in Workers, Doing(w, "failing")'
      PROVE  /\ msg'[job'[w].id] = job'[w].seen
             /\ Holds(w, job[w].id, job[w].lease)'
  <2>1. JobMayBecome(w) /\ job'[w] # None /\ job'[w].pc = "failing"
    BY <1>3, JobStep DEF IInv, Doing
  <2>2. CASE job'[w] = job[w]
    <3>1. Doing(w, "failing")
      BY <2>1, <2>2 DEF Doing
    <3>2. msg'[job[w].id] = msg[job[w].id]
      BY <2>2, <3>1, LockedRow
    <3> QED
      BY <1>1, <2>2, <3>1, <3>2 DEF FailingHolds, Holds
  <2>3. ASSUME NEW r \in BOOLEAN, FailRead(w, r),
               job'[w] = [job[w] EXCEPT !.pc = "failing",
                           !.seen = msg[job[w].id], !.retry = r]
        PROVE  /\ msg'[job'[w].id] = job'[w].seen
               /\ Holds(w, job[w].id, job[w].lease)'
    <3>1. job[w] \in Job /\ Holds(w, job[w].id, job[w].lease) /\ msg' = msg
      BY <2>3 DEF FailRead, Doing, IInv, TypeOK
    <3>2. /\ job'[w].id = job[w].id /\ job'[w].lease = job[w].lease
          /\ job'[w].seen = msg[job[w].id]
      BY <2>3, <3>1 DEF Job
    <3> QED
      BY <3>1, <3>2 DEF Holds
  <2>4. \A m \in Messages :
          job'[w] # [pc |-> "claiming", id |-> m, lease |-> 0,
                     seen |-> msg[m], retry |-> TRUE]
    BY <2>1
  <2>5. job'[w] # [pc |-> "running", id |-> job[w].id,
                   lease |-> job[w].seen.attempts + 1,
                   seen |-> job[w].seen, retry |-> TRUE]
    BY <2>1
  <2> QED
    BY <2>1, <2>2, <2>3, <2>4, <2>5 DEF JobMayBecome
<1>4. ASSUME NEW m \in Messages, msg'[m].status = "pending"
      PROVE  msg'[m].attempts < MaxAttempts
  <2>0. msg[m] \in Row /\ RowMayBecome(m)
    BY RowStep DEF IInv, TypeOK
  <2>1. CASE msg'[m] = msg[m]
    BY <1>4, <2>1 DEF IInv, FencedRows
  <2>2. CASE /\ msg[m].status = "absent"
             /\ msg'[m] = [msg[m] EXCEPT !.status = "pending"]
    <3>1. msg'[m].attempts = 0
      BY <2>0, <2>2 DEF Row, IInv, AttemptsBounded
    <3> QED
      BY <3>1, QueueAssumption
  <2>3. ASSUME NEW w \in Workers,
               msg'[m] = Leased(msg[m], w, job[w].seen.attempts + 1)
        PROVE  FALSE
    BY <1>4, <2>0, <2>3 DEF Leased, Row
  <2>4. msg'[m] # DeadLetter(msg[m])
    BY <1>4, <2>0 DEF DeadLetter, Row
  <2>5. msg'[m] # [msg[m] EXCEPT !.status = "completed", !.lease = 0]
    BY <1>4, <2>0 DEF Row
  <2>6. ASSUME NEW w \in Workers, FailWrite(w), job[w].id = m,
               msg'[m] = Failed(msg[m], job[w])
        PROVE  msg'[m].attempts < MaxAttempts
    <3>1. Doing(w, "failing") /\ msg[m] = job[w].seen
      BY <1>1, <2>6 DEF FailWrite, FailingHolds
    <3>2. /\ msg'[m].attempts = msg[m].attempts
          /\ ~(msg[m].attempts >= MaxAttempts)
      BY <1>4, <2>0, <2>6, <3>1 DEF Failed, Row
    <3> QED
      BY <2>0, <3>2, QueueAssumption DEF Row
  <2> QED
    BY <1>1, <2>0, <2>1, <2>2, <2>3, <2>4, <2>5, <2>6 DEF RowMayBecome
<1>5. FailingHolds'
  BY <1>3 DEF FailingHolds
<1> QED
  BY <1>2, <1>4, <1>5

\* The inductive step: every step of every deployment preserves IInv.
LEMMA NextPreserves == IInv /\ [Next]_<<vars, deployment>> => IInv'
<1> SUFFICES ASSUME IInv, [Next]_<<vars, deployment>> PROVE IInv'
  OBVIOUS
<1>1. CASE Next
  <2>1. AttemptsBounded'
    BY <1>1, RowGrows DEF AttemptsBounded, IInv
  <2> QED
    BY <1>1, <2>1, TypeStep, LeaseStep, CandidateStep, FencedStep DEF IInv
<1>2. CASE UNCHANGED <<vars, deployment>>
  <2>1. TypeOK' /\ AttemptsBounded'
    BY <1>2 DEF vars, IInv, TypeOK, AttemptsBounded
  <2>2. LeaseIsPast' /\ OneClaimant' /\ CandidateWasOffered'
    BY <1>2 DEF vars, IInv, LeaseIsPast, OneClaimant, CandidateWasOffered, Doing
  <2>3. FencedRows'
    BY <1>2 DEF vars, IInv, FencedRows, FailingHolds, RowsAreFenced, Doing, Holds
  <2> QED
    BY <2>1, <2>2, <2>3 DEF IInv
<1> QED
  BY <1>1, <1>2

----------------------------------------------------------------------------
(* The theorems.                                                           *)

\* The inductive invariant holds in every reachable state of every deployment.
THEOREM InductiveInvariant == Spec => []IInv
  BY InitIInv, NextPreserves, PTL DEF Spec

\* No two processes are inside the handler with the same lease, on either
\* database, with or without an operator that sweeps the table.
THEOREM ClaimantSafety == Spec => []OneClaimant
<1>1. IInv => OneClaimant
  BY DEF IInv
<1> QED
  BY InductiveInvariant, <1>1, PTL

\* No message is delivered more than max_attempts times, and where rows are
\* fenced a message that is offered has an attempt left.
THEOREM DeliverySafety == Spec => []DeliveriesBounded
<1>1. IInv => DeliveriesBounded
  BY DEF IInv, DeliveriesBounded, AttemptsBounded, FencedRows
<1> QED
  BY InductiveInvariant, <1>1, PTL

\* Where rows are fenced, a completed or dead-lettered message is never
\* written again.
THEOREM TerminalFinality == Spec => TerminalIsFinal
<1> DEFINE Step ==
      \A m \in Messages :
         RowsAreFenced /\ msg[m].status \in {"completed", "dead_letter"}
            => msg'[m] = msg[m]
<1>1. IInv /\ [Next]_<<vars, deployment>> => [Step]_vars
  <2> SUFFICES ASSUME IInv, Next, NEW m \in Messages, RowsAreFenced,
                      msg[m].status \in {"completed", "dead_letter"}
               PROVE  msg'[m] = msg[m]
    BY DEF vars
  <2>1. RowMayBecome(m) /\ requeue = {}
    BY RowStep, NoSweep DEF IInv
  <2>2. ASSUME NEW w \in Workers, ClaimCommit(w), job[w].id = m PROVE FALSE
    BY <2>2, ClaimFacts
  <2>3. ~Exhausted(m)
    BY DEF Exhausted, Waiting
  <2>4. ASSUME NEW w \in Workers, Ack(w), job[w].id = m PROVE FALSE
    BY <2>4 DEF Ack, Holds
  <2>5. ASSUME NEW w \in Workers, FailWrite(w), job[w].id = m PROVE FALSE
    BY <2>5 DEF FailWrite, Holds, IInv, FencedRows, FailingHolds
  <2> QED
    BY <2>1, <2>2, <2>3, <2>4, <2>5 DEF RowMayBecome
<1> QED
  BY InductiveInvariant, <1>1, PTL DEF Spec, TerminalIsFinal

\* Where rows are fenced, only the process that holds a lease ends it, unless
\* it was the last one allowed and has expired.
THEOREM LeaseHolderEnds == Spec => LeaseEndsByHolder
<1> DEFINE ByHolder(m) ==
      \/ /\ msg'[m].status = "dead_letter"
         /\ m \in expired /\ msg[m].attempts = MaxAttempts
      \/ \E w \in Workers : /\ job[w] # None /\ job'[w] = None
                            /\ job[w].id = m
                            /\ job[w].lease = msg[m].lease
                            /\ msg[m].worker = w
<1> DEFINE Step ==
      \A m \in Messages :
         RowsAreFenced /\ msg[m].status = "leased" /\ msg'[m].status # "leased"
            => ByHolder(m)
<1>1. IInv /\ [Next]_<<vars, deployment>> => [Step]_vars
  <2> SUFFICES ASSUME IInv, Next, NEW m \in Messages, RowsAreFenced,
                      msg[m].status = "leased", msg'[m].status # "leased"
               PROVE  ByHolder(m)
    BY DEF vars
  <2>1. RowMayBecome(m) /\ requeue = {} /\ msg[m] \in Row
    BY RowStep, NoSweep DEF IInv, TypeOK
  <2>2. ASSUME NEW w \in Workers,
               msg'[m] = Leased(msg[m], w, job[w].seen.attempts + 1)
        PROVE  FALSE
    BY <2>1, <2>2 DEF Leased, Row
  <2>3. ASSUME Exhausted(m), msg'[m] = DeadLetter(msg[m]) PROVE ByHolder(m)
    <3>1. m \in expired /\ msg[m].attempts >= MaxAttempts
      BY <2>3 DEF Exhausted, Waiting
    <3>2. msg[m].attempts = MaxAttempts
      BY <2>1, <3>1, QueueAssumption DEF IInv, AttemptsBounded, Row
    <3>3. msg'[m].status = "dead_letter"
      BY <2>1, <2>3 DEF DeadLetter, Row
    <3> QED
      BY <3>1, <3>2, <3>3
  <2>4. ASSUME NEW w \in Workers, Ack(w), job[w].id = m PROVE ByHolder(m)
    BY <2>4 DEF Ack, Doing, Holds, IInv, TypeOK
  <2>5. ASSUME NEW w \in Workers, FailWrite(w), job[w].id = m PROVE ByHolder(m)
    <3>1. Doing(w, "failing") /\ job' = [job EXCEPT ![w] = None]
      BY <2>5 DEF FailWrite
    <3>2. Holds(w, m, job[w].lease)
      BY <2>5, <3>1 DEF IInv, FencedRows, FailingHolds
    <3> QED
      BY <2>5, <3>1, <3>2 DEF Doing, Holds, IInv, TypeOK
  <2> HIDE DEF ByHolder
  <2> QED
    BY <2>1, <2>2, <2>3, <2>4, <2>5 DEF RowMayBecome
<1> QED
  BY InductiveInvariant, <1>1, PTL DEF Spec, LeaseEndsByHolder

----------------------------------------------------------------------------
(* The refinement: a fenced table is an at-least-once queue.               *)

\* The phase of each status.
LEMMA Phases ==
  /\ Phase["absent"] = "absent" /\ Phase["pending"] = "offered"
  /\ Phase["leased"] = "held" /\ Phase["completed"] = "completed"
  /\ Phase["dead_letter"] = "dead"
  BY DEF Phase

\* Where rows are fenced, the tasks shown are those of the rows, before and
\* after the step.
LEMMA TasksShown ==
  ASSUME Next, RowsAreFenced
  PROVE  /\ Tasks = [m \in Messages |-> TaskOf(msg[m])]
         /\ Tasks' = [m \in Messages |-> TaskOf(msg'[m])]
<1>1. RowsAreFenced'
  BY DEF RowsAreFenced, Next
<1> QED
  BY <1>1 DEF Tasks

\* The task of a row that is leased for the n-th time.
LEMMA LeasedTask ==
  ASSUME NEW r \in Row, NEW w, NEW n
  PROVE  TaskOf(Leased(r, w, n))
           = [phase |-> "held", deliveries |-> n, holder |-> w]
<1>1. /\ Leased(r, w, n).status = "leased" /\ Leased(r, w, n).attempts = n
      /\ Leased(r, w, n).worker = w
  BY DEF Leased, Row
<1> QED
  BY <1>1, Phases DEF TaskOf

\* What the other operations of the table make of the task of a row.
LEMMA TasksWritten ==
  ASSUME NEW r \in Row
  PROVE  /\ r.status = "absent" /\ r.attempts = 0 =>
              TaskOf([r EXCEPT !.status = "pending"])
                = [phase |-> "offered", deliveries |-> 0, holder |-> None]
         /\ TaskOf(DeadLetter(r))
              = [phase |-> "dead", deliveries |-> r.attempts, holder |-> None]
         /\ TaskOf([r EXCEPT !.status = "completed", !.lease = 0])
              = [phase |-> "completed", deliveries |-> r.attempts, holder |-> None]
         /\ \A j : TaskOf(Failed(r, j))
              = [phase |-> IF ~j.retry \/ j.seen.attempts >= MaxAttempts
                           THEN "dead" ELSE "offered",
                 deliveries |-> r.attempts, holder |-> None]
<1> USE Phases
<1>1. r.status = "absent" /\ r.attempts = 0 =>
        TaskOf([r EXCEPT !.status = "pending"])
          = [phase |-> "offered", deliveries |-> 0, holder |-> None]
  BY DEF TaskOf, Row
<1>2. TaskOf(DeadLetter(r))
        = [phase |-> "dead", deliveries |-> r.attempts, holder |-> None]
  <2>1. /\ DeadLetter(r).status = "dead_letter"
        /\ DeadLetter(r).attempts = r.attempts
    BY DEF DeadLetter, Row
  <2> QED
    BY <2>1 DEF TaskOf
<1>3. TaskOf([r EXCEPT !.status = "completed", !.lease = 0])
        = [phase |-> "completed", deliveries |-> r.attempts, holder |-> None]
  BY DEF TaskOf, Row
<1>4. ASSUME NEW j
      PROVE  TaskOf(Failed(r, j))
              = [phase |-> IF ~j.retry \/ j.seen.attempts >= MaxAttempts
                           THEN "dead" ELSE "offered",
                 deliveries |-> r.attempts, holder |-> None]
  <2>1. /\ Failed(r, j).status = IF ~j.retry \/ j.seen.attempts >= MaxAttempts
                                 THEN "dead_letter" ELSE "pending"
        /\ Failed(r, j).attempts = r.attempts
    BY DEF Failed, Row
  <2> QED
    BY <2>1 DEF TaskOf
<1> QED
  BY <1>1, <1>2, <1>3, <1>4

\* What a row shows of itself.
LEMMA TaskFacts ==
  ASSUME NEW r \in Row
  PROVE  /\ TaskOf(r).phase = "absent" <=> r.status = "absent"
         /\ TaskOf(r).phase = "held" <=> r.status = "leased"
         /\ TaskOf(r).phase \in {"offered", "held"}
              <=> r.status \in {"pending", "leased"}
         /\ TaskOf(r).deliveries = r.attempts
  BY Phases DEF TaskOf, Row, Status

\* A row that the claim's first statement dead-letters is an exhausted task.
LEMMA ExhaustedTask ==
  ASSUME IInv, Next, RowsAreFenced, NEW m \in Messages, Exhausted(m)
  PROVE  Queue!Exhausted(m)
<1>1. msg[m] \in Row /\ msg[m].attempts \in Nat
  BY DEF IInv, TypeOK, Row
<1>2. /\ msg[m].status \in {"pending", "leased"}
      /\ msg[m].attempts = MaxAttempts
  BY <1>1, QueueAssumption DEF Exhausted, Waiting, IInv, AttemptsBounded
<1>3. Tasks[m] = TaskOf(msg[m])
  BY TasksShown
<1> QED
  BY <1>1, <1>2, <1>3, TaskFacts DEF Queue!Exhausted, Queue!Live

\* A step that writes the table of a fenced deployment is one operation of the
\* at-least-once queue.
LEMMA TableStep ==
  ASSUME IInv, Next, RowsAreFenced
  PROVE  Queue!Next \/ Tasks' = Tasks
<1>0. /\ \A m \in Messages : msg[m] \in Row /\ msg[m].attempts \in Nat
      /\ msg \in [Messages -> Row] /\ requeue = {}
  BY NoSweep DEF IInv, TypeOK, Row
<1>1. /\ Tasks = [m \in Messages |-> TaskOf(msg[m])]
      /\ Tasks' = [m \in Messages |-> TaskOf(msg'[m])]
  BY TasksShown
<1>2. ASSUME NEW x \in Messages, Publish(x) PROVE Queue!Publish
  <2>1. /\ msg[x].status = "absent" /\ msg[x].attempts = 0
        /\ msg' = [msg EXCEPT ![x] = [msg[x] EXCEPT !.status = "pending"]]
    BY <1>0, <1>2 DEF Publish, IInv, AttemptsBounded
  <2>2. TaskOf(msg'[x]) = Queue!Offered
    BY <1>0, <2>1, TasksWritten DEF Queue!Offered
  <2>3. Tasks' = [m \in Messages |-> IF m \in {x} THEN Queue!Offered ELSE Tasks[m]]
    BY <1>0, <1>1, <2>1, <2>2
  <2>4. {x} \in SUBSET {m \in Messages : Tasks[m].phase = "absent"}
    BY <1>0, <1>1, <2>1, TaskFacts
  <2> QED
    BY <2>3, <2>4 DEF Queue!Publish
<1>3. ASSUME NEW w \in Workers, ClaimCommit(w)
      PROVE  \E d \in Messages : Queue!Deliver(w, d)
  <2>1. PICK d \in Messages : d = job[w].id
    BY <1>3, ClaimFacts
  <2>2. /\ msg[d].status \in {"pending", "leased"} /\ msg[d].attempts < MaxAttempts
        /\ job[w].seen.attempts = msg[d].attempts
    BY <1>3, <2>1, ClaimFacts
  <2>3. msg' = [m \in Messages |->
                  IF m = d THEN Leased(msg[m], w, msg[d].attempts + 1)
                  ELSE IF Exhausted(m) THEN DeadLetter(msg[m]) ELSE msg[m]]
    BY <1>3, <2>1, <2>2 DEF ClaimCommit
  <2> DEFINE dead == {m \in Messages : Exhausted(m)}
  <2>4. dead \in SUBSET {m \in Messages : Queue!Exhausted(m)}
    BY ExhaustedTask
  <2>5. Queue!Live(d) /\ Tasks[d].deliveries < MaxAttempts
    BY <1>0, <1>1, <2>2, TaskFacts DEF Queue!Live
  <2>6. ASSUME NEW m \in Messages
        PROVE  TaskOf(msg'[m]) =
                 IF m = d THEN Queue!Delivered(m, w)
                 ELSE IF m \in dead THEN Queue!Released(m, "dead") ELSE Tasks[m]
    <3>1. Tasks[m] = TaskOf(msg[m]) /\ Tasks[m].deliveries = msg[m].attempts
      BY <1>0, <1>1, TaskFacts
    <3>2. CASE m = d
      <4>1. PICK n : n = msg[d].attempts + 1
        OBVIOUS
      <4>2. msg'[m] = Leased(msg[m], w, n)
        BY <2>3, <3>2, <4>1
      <4>3. TaskOf(msg'[m]) = [phase |-> "held", deliveries |-> n, holder |-> w]
        BY <1>0, <4>2, LeasedTask
      <4>4. n = Tasks[m].deliveries + 1
        BY <3>1, <3>2, <4>1
      <4> QED
        BY <3>2, <4>3, <4>4 DEF Queue!Delivered
    <3>3. CASE m # d /\ Exhausted(m)
      BY <1>0, <2>3, <3>1, <3>3, TasksWritten DEF Queue!Released
    <3>4. CASE m # d /\ ~Exhausted(m)
      BY <2>3, <3>1, <3>4
    <3> QED
      BY <3>2, <3>3, <3>4
  <2> HIDE DEF dead
  <2>7. Tasks' = [m \in Messages |->
                    IF m = d THEN Queue!Delivered(m, w)
                    ELSE IF m \in dead THEN Queue!Released(m, "dead") ELSE Tasks[m]]
    BY <1>1, <2>6
  <2>8. Queue!Deliver(w, d)
    BY <2>4, <2>5, <2>7 DEF Queue!Deliver
  <2> QED
    BY <2>8
<1>4. ASSUME NEW w \in Workers, ClaimNone(w) PROVE Queue!Sweep
  <2>1. msg' = [m \in Messages |->
                  IF Exhausted(m) THEN DeadLetter(msg[m]) ELSE msg[m]]
    BY <1>4 DEF ClaimNone
  <2> DEFINE dead == {m \in Messages : Exhausted(m)}
  <2>2. dead \in SUBSET {m \in Messages : Queue!Exhausted(m)}
    BY ExhaustedTask
  <2>3. ASSUME NEW m \in Messages
        PROVE  TaskOf(msg'[m]) =
                 IF m \in dead THEN Queue!Released(m, "dead") ELSE Tasks[m]
    <3>1. Tasks[m] = TaskOf(msg[m]) /\ Tasks[m].deliveries = msg[m].attempts
      BY <1>0, <1>1, TaskFacts
    <3>2. CASE Exhausted(m)
      BY <1>0, <2>1, <3>1, <3>2, TasksWritten DEF Queue!Released
    <3>3. CASE ~Exhausted(m)
      BY <2>1, <3>1, <3>3
    <3> QED
      BY <3>2, <3>3
  <2> HIDE DEF dead
  <2>4. Tasks' = [m \in Messages |->
                    IF m \in dead THEN Queue!Released(m, "dead") ELSE Tasks[m]]
    BY <1>1, <2>3
  <2> QED
    BY <2>2, <2>4 DEF Queue!Sweep
<1>5. ASSUME NEW d \in Messages, NEW R, NEW phase \in {"completed", "dead", "offered"},
             msg' = [msg EXCEPT ![d] = R], msg[d].status = "leased",
             TaskOf(R) = [phase |-> phase, deliveries |-> msg[d].attempts,
                          holder |-> None],
             phase = "offered" => msg[d].attempts < MaxAttempts
      PROVE  Queue!Settle(d, phase)
  <2>1. Tasks[d].phase = "held" /\ Tasks[d].deliveries = msg[d].attempts
    BY <1>0, <1>1, <1>5, TaskFacts
  <2>2. TaskOf(R) = Queue!Released(d, phase)
    BY <1>5, <2>1 DEF Queue!Released
  <2>3. Tasks' = [Tasks EXCEPT ![d] = Queue!Released(d, phase)]
    BY <1>0, <1>1, <1>5, <2>2
  <2> QED
    BY <1>5, <2>1, <2>3 DEF Queue!Settle
<1>6. ASSUME NEW w \in Workers, Ack(w)
      PROVE  \E d \in Messages : Queue!Settle(d, "completed")
  <2>1. PICK d \in Messages : d = job[w].id
    BY <1>6 DEF Ack, Doing, IInv, TypeOK, Job
  <2>2. msg[d].status = "leased"
    BY <1>6, <2>1 DEF Ack, Holds
  <2>3. PICK R : R = [msg[d] EXCEPT !.status = "completed", !.lease = 0]
    OBVIOUS
  <2>4. msg' = [msg EXCEPT ![d] = R]
    BY <1>0, <1>6, <2>1, <2>3 DEF Ack, Row
  <2>5. PICK phase \in {"completed", "dead", "offered"} : phase = "completed"
    OBVIOUS
  <2>6. TaskOf(R) = [phase |-> phase, deliveries |-> msg[d].attempts,
                     holder |-> None]
    BY <1>0, <2>3, <2>5, TasksWritten
  <2>7. Queue!Settle(d, phase)
    BY <1>5, <2>2, <2>4, <2>5, <2>6
  <2> QED
    BY <2>5, <2>7
<1>7. ASSUME NEW w \in Workers, FailWrite(w)
      PROVE  \E d \in Messages, phase \in {"completed", "dead", "offered"} :
               Queue!Settle(d, phase)
  <2>1. Doing(w, "failing")
    BY <1>7 DEF FailWrite
  <2>2. PICK d \in Messages : d = job[w].id
    BY <2>1 DEF Doing, IInv, TypeOK, Job
  <2>3. msg[d].status = "leased" /\ job[w].seen = msg[d]
    BY <2>1, <2>2 DEF IInv, FencedRows, FailingHolds, Holds
  <2>4. PICK R : R = Failed(msg[d], job[w])
    OBVIOUS
  <2>5. msg' = [msg EXCEPT ![d] = R]
    BY <1>7, <2>2, <2>4 DEF FailWrite
  <2>6. PICK phase \in {"completed", "dead", "offered"} :
          phase = IF ~job[w].retry \/ job[w].seen.attempts >= MaxAttempts
                  THEN "dead" ELSE "offered"
    OBVIOUS
  <2>7. TaskOf(R) = [phase |-> phase, deliveries |-> msg[d].attempts,
                     holder |-> None]
    BY <1>0, <2>4, <2>6, TasksWritten
  <2>8. phase = "offered" => msg[d].attempts < MaxAttempts
    BY <1>0, <2>3, <2>6, QueueAssumption
  <2>9. Queue!Settle(d, phase)
    BY <1>5, <2>3, <2>5, <2>7, <2>8
  <2> QED
    BY <2>9
<1>8. ASSUME msg' = msg PROVE Tasks' = Tasks
  BY <1>1, <1>8
<1>9. ASSUME NEW w \in Workers,
             \/ \E x \in Messages : ClaimRead(w, x)
             \/ ClaimLost(w) \/ BeatBegin(w) \/ BeatEnd(w) \/ Fenced(w)
             \/ \E r \in BOOLEAN : FailRead(w, r)
             \/ Crash(w)
      PROVE  msg' = msg
  BY <1>9 DEF ClaimRead, ClaimLost, BeatBegin, BeatEnd, Fenced, FailRead, Crash
<1>10. RequeueRead \/ Time => msg' = msg
  BY DEF RequeueRead, Time, Expire, RetryDelayEnds
<1>11. ~RequeueWrite
  BY <1>0 DEF RequeueWrite
<1> QED
  BY <1>2, <1>3, <1>4, <1>6, <1>7, <1>8, <1>9, <1>10, <1>11
     DEF Next, WorkerStep, Finish, Queue!Next

\* Where rows are fenced, the table of messages implements the at-least-once
\* queue for every set of messages and workers: each committed write of a
\* worker is one of its operations, every other step changes nothing in it.
THEOREM TableImplementsQueue == Spec => TableIsTaskQueue
<1>1. Init => Queue!Init
  <2>1. TaskOf(AbsentRow) = Queue!Unpublished
    BY Phases DEF TaskOf, AbsentRow, Queue!Unpublished
  <2> QED
    BY <2>1 DEF Init, Queue!Init, Tasks
<1>2. IInv /\ [Next]_<<vars, deployment>> => [Queue!Next]_Tasks
  <2> SUFFICES ASSUME IInv, [Next]_<<vars, deployment>>
               PROVE  Queue!Next \/ Tasks' = Tasks
    OBVIOUS
  <2>1. CASE Next /\ RowsAreFenced
    BY <2>1, TableStep
  <2>2. CASE Next /\ ~RowsAreFenced
    BY <2>2 DEF Next, RowsAreFenced, Tasks
  <2>3. CASE UNCHANGED <<vars, deployment>>
    BY <2>3 DEF vars, RowsAreFenced, Tasks
  <2> QED
    BY <2>1, <2>2, <2>3
<1> QED
  BY InductiveInvariant, <1>1, <1>2, PTL DEF Spec, TableIsTaskQueue, Queue!Spec

=============================================================================
