--------------------------- MODULE DatabaseQueue ---------------------------
(***************************************************************************)
(* The durable at-least-once queue (runtime_queue_messages) and the        *)
(* workers that run its messages: publish, claim, heartbeat, ack, fail,    *)
(* requeue_expired, with crashes, expiring leases and delayed retries.     *)
(*                                                                         *)
(* claim reads a candidate and compare-and-sets it; fail and               *)
(* requeue_expired read rows and write them back by primary key alone.     *)
(* fail asks for FOR UPDATE, which PostgreSQL honours and SQLite ignores.  *)
(* heartbeat and ack are one fenced UPDATE, but heartbeat compares the     *)
(* lease with a clock it read earlier.                                     *)
(*                                                                         *)
(* A claim increments attempts and nothing resets it, so the fresh uuid4   *)
(* of a lease is modelled by the attempts value of the claim that made it. *)
(***************************************************************************)
EXTENDS Naturals, FiniteSets

CONSTANTS
    Messages,       \* message ids of one organization and topic
    Workers,        \* worker_id values, one process each
    None,           \* SQL NULL, and "this process holds nothing"
    MaxAttempts,    \* max_attempts
    Deployments     \* the kinds of deployment considered

ASSUME QueueAssumption ==
    /\ None \notin Workers
    /\ MaxAttempts \in Nat \ {0}
    /\ Deployments \subseteq [rowLocks : BOOLEAN, operator : BOOLEAN]

VARIABLES
    msg,        \* runtime_queue_messages
    expired,    \* messages whose lease_until < now
    delayed,    \* messages whose available_at > now
    job,        \* what each worker process is doing with a message
    beat,       \* lease of the heartbeat each worker's timer has begun
    requeue,    \* rows a requeue_expired call has read and will write
    deployment  \* fixed: FOR UPDATE locks rows (PostgreSQL) or not (SQLite),
                \* and an operator calls requeue_expired or nobody does

vars == <<msg, expired, delayed, job, beat, requeue>>

----------------------------------------------------------------------------
Status == {"absent", "pending", "leased", "completed", "dead_letter"}

Row ==
    [status   : Status,
     attempts : Nat,
     lease    : Nat,                   \* 0: lease_id is NULL
     worker   : Workers \cup {None}]

AbsentRow == [status |-> "absent", attempts |-> 0, lease |-> 0, worker |-> None]

\* claiming: the candidate was read.  running: claimed, in the handler.
\* failing: fail has read the row it will write back.
Job ==
    [pc    : {"claiming", "running", "failing"},
     id    : Messages,
     lease : Nat,
     seen  : Row,
     retry : BOOLEAN]

TypeOK ==
    /\ msg \in [Messages -> Row]
    /\ expired \subseteq Messages
    /\ delayed \subseteq Messages
    /\ job \in [Workers -> Job \cup {None}]
    /\ beat \in [Workers -> (Messages \X Nat) \cup {None}]
    /\ requeue \subseteq (Messages \X Nat)
    /\ deployment \in Deployments

Init ==
    /\ msg = [m \in Messages |-> AbsentRow]
    /\ expired = {}
    /\ delayed = {}
    /\ job = [w \in Workers |-> None]
    /\ beat = [w \in Workers |-> None]
    /\ requeue = {}
    /\ deployment \in Deployments

Doing(w, pc) == job[w] # None /\ job[w].pc = pc

\* A row read FOR UPDATE stays locked until its session ends.
Locked(m) ==
    deployment.rowLocks /\ \E w \in Workers : Doing(w, "failing") /\ job[w].id = m

----------------------------------------------------------------------------
(* publish: a second publication of the same id and payload is a no-op.    *)

Publish(m) ==
    /\ msg[m].status = "absent"
    /\ msg' = [msg EXCEPT ![m].status = "pending"]
    /\ UNCHANGED <<expired, delayed, job, beat, requeue>>

----------------------------------------------------------------------------
(* claim *)

Waiting(m) ==
    \/ msg[m].status = "pending"
    \/ msg[m].status = "leased" /\ m \in expired

Claimable(m) ==
    /\ Waiting(m)
    /\ msg[m].attempts < MaxAttempts
    /\ m \notin delayed

ClaimRead(w, m) ==
    /\ job[w] = None
    /\ Claimable(m)
    /\ job' = [job EXCEPT ![w] = [pc |-> "claiming", id |-> m, lease |-> 0,
                                  seen |-> msg[m], retry |-> TRUE]]
    /\ UNCHANGED <<msg, expired, delayed, beat, requeue>>

\* Mutated form: the UPDATE tests the status only.
CasStatusOnly(j) == msg[j.id].status = j.seen.status

\* WHERE status, attempts and lease_id are the ones that were read.
CasMatches(j) ==
    /\ msg[j.id].status = j.seen.status
    /\ msg[j.id].attempts = j.seen.attempts
    /\ msg[j.id].lease = j.seen.lease

\* Mutated form: the UPDATE forgets to look at the status.
ExhaustedAnyStatus(m) ==
    /\ msg[m].status # "absent"
    /\ msg[m].attempts >= MaxAttempts /\ ~Locked(m)

\* Mutated form: an expired lease is not looked at.
ExhaustedPending(m) ==
    msg[m].status = "pending" /\ msg[m].attempts >= MaxAttempts /\ ~Locked(m)

Exhausted(m) == Waiting(m) /\ msg[m].attempts >= MaxAttempts /\ ~Locked(m)

DeadLetter(r) ==
    [r EXCEPT !.status = "dead_letter", !.worker = None, !.lease = 0]

Leased(r, w, attempts) ==
    [r EXCEPT !.status = "leased", !.worker = w, !.attempts = attempts,
              !.lease = attempts]

\* The statement before the candidate query dead-letters exhausted rows, in
\* the transaction that the claim commits.
ClaimCommit(w) ==
    LET j == job[w]
        attempts == j.seen.attempts + 1
    IN
    /\ Doing(w, "claiming")
    /\ CasMatches(j)
    /\ ~Locked(j.id)
    /\ msg' = [m \in Messages |->
                 IF m = j.id THEN Leased(msg[m], w, attempts)
                 ELSE IF Exhausted(m) THEN DeadLetter(msg[m])
                 ELSE msg[m]]
    /\ expired' = {m \in expired : m # j.id /\ ~Exhausted(m)}
    /\ job' = [job EXCEPT ![w] = [pc |-> "running", id |-> j.id,
                                  lease |-> attempts, seen |-> j.seen,
                                  retry |-> TRUE]]
    /\ UNCHANGED <<delayed, beat, requeue>>

\* rowcount # 1: rollback, and the claim loop reads again.
ClaimLost(w) ==
    /\ Doing(w, "claiming")
    /\ ~CasMatches(job[w])
    /\ job' = [job EXCEPT ![w] = None]
    /\ UNCHANGED <<msg, expired, delayed, beat, requeue>>

\* No candidate: the claim commits what it dead-lettered and returns None.
ClaimNone(w) ==
    /\ job[w] = None
    /\ \E m \in Messages : Exhausted(m)
    /\ msg' = [m \in Messages |->
                 IF Exhausted(m) THEN DeadLetter(msg[m]) ELSE msg[m]]
    /\ expired' = {m \in expired : ~Exhausted(m)}
    /\ UNCHANGED <<delayed, job, beat, requeue>>

----------------------------------------------------------------------------
(* The fence of heartbeat, ack and fail: status, worker_id and lease_id.   *)

Holds(w, m, lease) ==
    /\ msg[m].status = "leased"
    /\ msg[m].worker = w
    /\ msg[m].lease = lease

\* heartbeat reads its clock while the lease is live ...
BeatBegin(w) ==
    /\ Doing(w, "running")
    /\ beat[w] = None
    /\ Holds(w, job[w].id, job[w].lease) /\ job[w].id \notin expired
    /\ beat' = [beat EXCEPT ![w] = <<job[w].id, job[w].lease>>]
    /\ UNCHANGED <<msg, expired, delayed, job, requeue>>

\* ... and its UPDATE renews the lease if the fence still matches; if not, it
\* raises and the timer gives up.
BeatEnd(w) ==
    /\ beat[w] # None
    /\ LET m == beat[w][1] IN
       /\ ~Locked(m)
       /\ expired' = IF Holds(w, m, beat[w][2]) THEN expired \ {m} ELSE expired
    /\ beat' = [beat EXCEPT ![w] = None]
    /\ UNCHANGED <<msg, delayed, job, requeue>>

\* Mutated form: the UPDATE forgets the lease_id condition.
AckAnyLease(w) ==
    LET m == job[w].id IN
    /\ Doing(w, "running")
    /\ ~Locked(m)
    /\ msg[m].status = "leased"
    /\ msg' = [msg EXCEPT ![m].status = "completed", ![m].lease = 0]
    /\ expired' = expired \ {m}
    /\ job' = [job EXCEPT ![w] = None]
    /\ UNCHANGED <<delayed, beat, requeue>>

\* The handler returned: one fenced UPDATE completes the message (expiry is
\* not part of the fence, and worker_id stays).
Ack(w) ==
    LET m == job[w].id IN
    /\ Doing(w, "running")
    /\ ~Locked(m)
    /\ Holds(w, m, job[w].lease)
    /\ msg' = [msg EXCEPT ![m].status = "completed", ![m].lease = 0]
    /\ expired' = expired \ {m}
    /\ job' = [job EXCEPT ![w] = None]
    /\ UNCHANGED <<delayed, beat, requeue>>

\* The handler raised: fail reads the row and checks the fence.
FailRead(w, retry) ==
    /\ Doing(w, "running")
    /\ ~Locked(job[w].id)
    /\ Holds(w, job[w].id, job[w].lease)
    /\ job' = [job EXCEPT ![w].pc = "failing", ![w].seen = msg[job[w].id],
                          ![w].retry = retry]
    /\ UNCHANGED <<msg, expired, delayed, beat, requeue>>

\* Mutated form: an exhausted message is offered once more.
FailedAgain(r, j) ==
    [r EXCEPT !.status = IF ~j.retry \/ j.seen.attempts > MaxAttempts
                         THEN "dead_letter" ELSE "pending",
              !.worker = None, !.lease = 0]

Failed(r, j) ==
    [r EXCEPT !.status = IF ~j.retry \/ j.seen.attempts >= MaxAttempts
                         THEN "dead_letter" ELSE "pending",
              !.worker = None, !.lease = 0]

\* fail writes the changed columns back: UPDATE ... WHERE primary key.
FailWrite(w) ==
    LET j == job[w]
        r == Failed(msg[j.id], j)
    IN
    /\ Doing(w, "failing")
    /\ msg' = [msg EXCEPT ![j.id] = r]
    /\ expired' = expired \ {j.id}
    /\ delayed' = IF r.status = "pending" THEN delayed \cup {j.id} ELSE delayed
    /\ job' = [job EXCEPT ![w] = None]
    /\ UNCHANGED <<beat, requeue>>

\* ack or fail finds another lease and raises: run_once ends with nothing
\* written (a stale ack falls into fail, which raises too).
Fenced(w) ==
    /\ Doing(w, "running")
    /\ ~Holds(w, job[w].id, job[w].lease)
    /\ job' = [job EXCEPT ![w] = None]
    /\ UNCHANGED <<msg, expired, delayed, beat, requeue>>

----------------------------------------------------------------------------
(* requeue_expired: reads the expired rows, then writes them back.         *)

RequeueRead ==
    /\ deployment.operator
    /\ requeue = {}
    /\ \E found \in SUBSET {m \in Messages : msg[m].status = "leased" /\ m \in expired} :
         /\ found # {}
         /\ requeue' = {<<m, msg[m].attempts>> : m \in found}
    /\ UNCHANGED <<msg, expired, delayed, job, beat>>

Requeued(m) == \E a \in 0..MaxAttempts : <<m, a>> \in requeue

RequeueWrite ==
    /\ requeue # {}
    /\ \A m \in Messages : Requeued(m) => ~Locked(m)
    /\ msg' = [m \in Messages |->
                 IF ~Requeued(m) THEN msg[m]
                 ELSE [msg[m] EXCEPT
                         !.status = IF <<m, MaxAttempts>> \in requeue
                                    THEN "dead_letter" ELSE "pending",
                         !.worker = None, !.lease = 0]]
    /\ expired' = {m \in expired : ~Requeued(m)}
    /\ delayed' = {m \in delayed : ~Requeued(m)}
    /\ requeue' = {}
    /\ UNCHANGED <<job, beat>>

----------------------------------------------------------------------------
(* Faults and time.                                                        *)

\* The process dies anywhere; its open session is rolled back.
Crash(w) ==
    /\ job[w] # None
    /\ job' = [job EXCEPT ![w] = None]
    /\ beat' = [beat EXCEPT ![w] = None]
    /\ UNCHANGED <<msg, expired, delayed, requeue>>

Expire(m) ==
    /\ msg[m].status = "leased" /\ m \notin expired
    /\ expired' = expired \cup {m}
    /\ UNCHANGED <<msg, delayed, job, beat, requeue>>

RetryDelayEnds(m) ==
    /\ m \in delayed
    /\ delayed' = delayed \ {m}
    /\ UNCHANGED <<msg, expired, job, beat, requeue>>

----------------------------------------------------------------------------
Finish(w) == Ack(w) \/ FailWrite(w) \/ Fenced(w) \/ \E r \in BOOLEAN : FailRead(w, r)

WorkerStep(w) ==
    \/ \E m \in Messages : ClaimRead(w, m)
    \/ ClaimCommit(w) \/ ClaimLost(w) \/ ClaimNone(w)
    \/ BeatBegin(w) \/ BeatEnd(w)
    \/ Finish(w)
    \/ Crash(w)

Time == \E m \in Messages : Expire(m) \/ RetryDelayEnds(m)

Next ==
    /\ \/ \E m \in Messages : Publish(m)
       \/ \E w \in Workers : WorkerStep(w)
       \/ RequeueRead \/ RequeueWrite
       \/ Time
    /\ UNCHANGED deployment

Spec == Init /\ [][Next]_<<vars, deployment>>

----------------------------------------------------------------------------
(* Safety.                                                                 *)

\* "every supported database elects exactly one claimant": two processes are
\* never inside the handler with the same lease.
OneClaimant ==
    \A w, x \in Workers :
        w # x /\ Doing(w, "running") /\ Doing(x, "running")
            => <<job[w].id, job[w].lease>> # <<job[x].id, job[x].lease>>

\* PostgreSQL, and nobody calls requeue_expired.
RowsAreFenced == deployment.rowLocks /\ ~deployment.operator

\* A message is never delivered more than max_attempts times, whatever the
\* deployment; where rows are fenced, one that is still offered for a claim has
\* an attempt left.  (The types hold.)
DeliveriesBounded ==
    /\ TypeOK
    /\ \A m \in Messages :
        /\ msg[m].attempts <= MaxAttempts
        /\ RowsAreFenced /\ msg[m].status = "pending" => msg[m].attempts < MaxAttempts

\* Where rows are fenced, a completed or dead-lettered message stays so,
\* whatever stale workers do.
TerminalIsFinal ==
    [][\A m \in Messages :
         RowsAreFenced /\ msg[m].status \in {"completed", "dead_letter"}
            => msg'[m] = msg[m]]_vars

\* The task a row stands for.
Phase == [absent |-> "absent", pending |-> "offered", leased |-> "held",
          completed |-> "completed", dead_letter |-> "dead"]

TaskOf(r) ==
    [phase |-> Phase[r.status], deliveries |-> r.attempts,
     holder |-> IF r.status = "leased" THEN r.worker ELSE None]

\* Where rows are not fenced, nothing is shown.
Tasks == [m \in Messages |-> TaskOf(IF RowsAreFenced THEN msg[m] ELSE AbsentRow)]

Queue == INSTANCE TaskQueue WITH task <- Tasks

\* Where rows are fenced the table is an at-least-once queue: however sessions
\* interleave, stall and die, each of their writes is one legal operation on
\* the message as it is at that moment (a delivery counts one attempt, a
\* completed or dead message is out of reach, an exhausted one is not offered).
TableIsTaskQueue == Queue!Spec

\* "stale workers cannot acknowledge reassigned work": where rows are fenced, a
\* lease that ends without a new one is completed or given back by the process
\* that holds it at that moment, or was the last one allowed and has expired.
LeaseEndsByHolder ==
    [][\A m \in Messages :
         RowsAreFenced /\ msg[m].status = "leased" /\ msg'[m].status # "leased" =>
           \/ /\ msg'[m].status = "dead_letter"
              /\ m \in expired /\ msg[m].attempts = MaxAttempts
           \/ \E w \in Workers : /\ job[w] # None /\ job'[w] = None
                                 /\ job[w].id = m
                                 /\ job[w].lease = msg[m].lease
                                 /\ msg[m].worker = w]_vars

----------------------------------------------------------------------------
(* Liveness: workers poll, clocks advance, and a worker process that keeps *)
(* being restarted does not die before every commit: handlers return, and  *)
(* sessions end.                                                           *)

Fairness ==
    /\ \A w \in Workers :
         /\ SF_vars(ClaimCommit(w) \/ ClaimLost(w))
         /\ WF_vars(ClaimNone(w))
         /\ WF_vars(BeatEnd(w))
         /\ SF_vars(Finish(w))
    /\ \A m \in Messages :
         /\ SF_vars(\E w \in Workers : ClaimRead(w, m))
         /\ WF_vars(Expire(m))
         /\ WF_vars(RetryDelayEnds(m))

LiveSpec == Spec /\ Fairness

\* Every published message ends: it is completed or dead-lettered, also when
\* its workers crash, stall or fail.
EveryMessageEnds ==
    \A m \in Messages :
        msg[m].status # "absent" ~> msg[m].status \in {"completed", "dead_letter"}

=============================================================================
