----------------------- MODULE ScopedWorkQueueProofs -----------------------
(***************************************************************************)
(* Project scope over the Work Queue for every set of units, projects,     *)
(* plans, sessions and managers, and every binding of units to scopes.     *)
(*                                                                         *)
(* The argument: the cancellation writes by primary key, so the rows a     *)
(* call read may have been failed beneath it; what is left of the queue's  *)
(* invariant is that a call commits only on a row in the state its         *)
(* operation starts from, and no operation starts from a terminal state.   *)
(* A claim, besides, is committed by the call that was admitted to the     *)
(* scope of the unit, and that call ends with it.                          *)
(***************************************************************************)
EXTENDS ScopedWorkQueue, TLAPS

----------------------------------------------------------------------------
(* The queue.                                                              *)

\* Whatever an operation makes of a well-formed row is well-formed.
LEMMA WrittenRows ==
  ASSUME NEW t \in Call, NEW r \in WorkUnit, Now(t) \in Nat
  PROVE  /\ Claimed(r, t) \in WorkUnit
         /\ Renewed(r, t) \in WorkUnit
         /\ Recovered(r, t) \in WorkUnit
         /\ Submitted(r, t) \in WorkUnit
         /\ Reviewed(r, t) \in WorkUnit
         /\ Reworked(r, t) \in WorkUnit
<1>1. /\ t.actor \in Actors /\ t.version \in Versions \cup {None}
      /\ t.snapshot \in [Units -> Versions \cup {None}]
      /\ t.seen \in WorkUnit
  BY DEF Call
<1>2. t.seen.claimed_by \in Actors \cup {None} /\ t.seen.rework_attempts + 1 \in Nat
  BY <1>1 DEF WorkUnit
<1>3. Claimed(r, t) \in WorkUnit /\ Renewed(r, t) \in WorkUnit
  BY <1>1 DEF Claimed, Renewed, WorkUnit, RowState, WorkUnitState
<1>4. Recovered(r, t) \in WorkUnit /\ Submitted(r, t) \in WorkUnit
  BY <1>1, <1>2 DEF Recovered, Submitted, WorkUnit, RowState, WorkUnitState
<1>5. Reviewed(r, t) \in WorkUnit
  BY DEF Reviewed, WorkUnit, RowState, WorkUnitState
<1>6. Reworked(r, t) \in WorkUnit
  BY <1>1, <1>2 DEF Reworked, WorkUnit, RowState, WorkUnitState
<1> QED
  BY <1>3, <1>4, <1>5, <1>6

\* A commit writes one unit, which is in the state its operation starts from,
\* and ends the session's call.
LEMMA CommitShape ==
  ASSUME ScopedInv, NEW s \in Sessions, Commit(s)
  PROVE  /\ tx[s] # NoTx /\ tx[s] \in Call /\ tx[s].unit \in Units
         /\ row[tx[s].unit].state = SeenState(tx[s].op)
         /\ TypeOK'
         /\ tx' = [tx EXCEPT ![s] = NoTx]
         /\ \A x \in Units : x # tx[s].unit => row'[x] = row[x]
<1> DEFINE t == tx[s]
<1> DEFINE u == tx[s].unit
<1> DEFINE r == row[tx[s].unit]
<1>1. t # NoTx /\ CasMatches(t)
  BY DEF Commit, ClaimCommit, HeartbeatCommit, RecoverCommit, SubmitCommit,
         ReviewCommit, ReworkCommit
<1>2. t \in Call /\ u \in Units /\ t.seen \in WorkUnit
  BY <1>1 DEF ScopedInv, ScopedTypeOK, TypeOK, Call
<1>3. r.state = SeenState(t.op)
  <2>1. t.seen.state = SeenState(t.op)
    BY <1>1 DEF ScopedInv, CallsStarted
  <2> QED
    BY <1>1, <2>1 DEF CasMatches, CasClaim, CasProjection, SeenState
<1>4. r \in WorkUnit
  BY <1>2 DEF ScopedInv, ScopedTypeOK, TypeOK
<1>5. Now(t) \in Nat
  BY <1>4 DEF Now, WorkUnit
<1>6. \E R \in WorkUnit, P \in WorkUnit :
        /\ row' = [row EXCEPT ![u] = R]
        /\ revision' = [revision EXCEPT ![u] = P]
        /\ tx' = [tx EXCEPT ![s] = NoTx]
  <2> HIDE DEF t, r
  <2>1. /\ Claimed(r, t) \in WorkUnit /\ Claimed(t.seen, t) \in WorkUnit
        /\ Renewed(r, t) \in WorkUnit /\ Renewed(t.seen, t) \in WorkUnit
        /\ Recovered(r, t) \in WorkUnit /\ Recovered(t.seen, t) \in WorkUnit
        /\ Submitted(r, t) \in WorkUnit /\ Submitted(t.seen, t) \in WorkUnit
        /\ Reviewed(r, t) \in WorkUnit /\ Reviewed(t.seen, t) \in WorkUnit
        /\ Reworked(r, t) \in WorkUnit /\ Reworked(t.seen, t) \in WorkUnit
    BY <1>2, <1>4, <1>5, WrittenRows
  <2>2. \/ Persist(s, Claimed(r, t), Claimed(t.seen, t))
        \/ Persist(s, Renewed(r, t), Renewed(t.seen, t))
        \/ Persist(s, Recovered(r, t), Recovered(t.seen, t))
        \/ Persist(s, Submitted(r, t), Submitted(t.seen, t))
        \/ Persist(s, Reviewed(r, t), Reviewed(t.seen, t))
        \/ Persist(s, Reworked(r, t), Reworked(t.seen, t))
    BY DEF t, r, Commit, ClaimCommit, HeartbeatCommit, RecoverCommit,
           SubmitCommit, ReviewCommit, ReworkCommit
  <2> QED
    BY <2>1, <2>2 DEF Persist
<1>7. expired' \subseteq expired
  BY DEF Commit, ClaimCommit, HeartbeatCommit, RecoverCommit, SubmitCommit,
         ReviewCommit, ReworkCommit, LeaseGranted
<1>8. TypeOK'
  BY <1>2, <1>6, <1>7 DEF ScopedInv, ScopedTypeOK, TypeOK
<1> QED
  BY <1>1, <1>2, <1>3, <1>6, <1>8 DEF ScopedInv, ScopedTypeOK, TypeOK

\* A read opens one call, on a unit in the state the operation starts from,
\* and writes nothing.
LEMMA OpenShape ==
  ASSUME ScopedInv, NEW s \in Sessions, NEW op \in Operation, NEW u \in Units,
         NEW a \in Actors, NEW STATE snap,
         snap \in [Units -> Versions \cup {None}],
         NEW v \in Versions \cup {None}, NEW override \in BOOLEAN,
         Open(s, op, u, a, snap, v, override),
         row[u].state = SeenState(op)
  PROVE  /\ tx[s] = NoTx
         /\ row' = row /\ revision' = revision /\ expired' = expired
         /\ \E t \in Call : /\ tx' = [tx EXCEPT ![s] = t]
                            /\ t.op = op /\ t.unit = u
                            /\ t.seen.state = SeenState(op)
<1> DEFINE t == [op |-> op, unit |-> u, actor |-> a, seen |-> row[u],
                 snapshot |-> snap, version |-> v, override |-> override]
<1>1. t \in Call
  BY DEF ScopedInv, ScopedTypeOK, TypeOK, Call
<1>2. t.op = op /\ t.unit = u /\ t.seen.state = SeenState(op)
  OBVIOUS
<1>3. /\ tx[s] = NoTx /\ tx' = [tx EXCEPT ![s] = t]
      /\ row' = row /\ revision' = revision /\ expired' = expired
  BY DEF Open
<1> HIDE DEF t
<1> QED
  BY <1>1, <1>2, <1>3

\* The reads of both services; a claim is read with its scope admitted.
LEMMA ReadShape ==
  ASSUME ScopedInv, NEW s \in Sessions, ScopedRead(s) \/ UnscopedRead(s)
  PROVE  /\ tx[s] = NoTx
         /\ row' = row /\ revision' = revision /\ expired' = expired
         /\ project' = project /\ certified' = certified
         /\ admitted' = admitted /\ command' = command
         /\ \E t \in Call :
              /\ tx' = [tx EXCEPT ![s] = t]
              /\ t.seen.state = SeenState(t.op)
              /\ t.op = "claim" => admitted[s] # None /\ admitted[s] = Scope(t.unit)
<1> DEFINE Shape ==
      /\ tx[s] = NoTx
      /\ row' = row /\ revision' = revision /\ expired' = expired
      /\ \E t \in Call :
           /\ tx' = [tx EXCEPT ![s] = t]
           /\ t.seen.state = SeenState(t.op)
           /\ t.op = "claim" => admitted[s] # None /\ admitted[s] = Scope(t.unit)
<1>0. /\ project' = project /\ certified' = certified
      /\ admitted' = admitted /\ command' = command
  BY DEF ScopedRead, UnscopedRead
<1>1. NoSnapshot \in [Units -> Versions \cup {None}]
  BY DEF NoSnapshot
<1>2. ASSUME NEW u \in Units, NEW w \in Actors, admitted[s] # None,
             Scope(u) = admitted[s], ClaimRead(s, u, w)
      PROVE  Shape
  <2>1. \A d \in Units : row[d].delivered \in Versions \cup {None}
    BY DEF ScopedInv, ScopedTypeOK, TypeOK, WorkUnit
  <2>2. ApprovedSnapshot(u) \in [Units -> Versions \cup {None}]
    BY <2>1 DEF ApprovedSnapshot
  <2>3. /\ Open(s, "claim", u, w, ApprovedSnapshot(u), None, FALSE)
        /\ row[u].state = SeenState("claim")
    BY <1>2 DEF ClaimRead, IsReady, SeenState
  <2>4. "claim" \in Operation
    BY DEF Operation
  <2>5. /\ tx[s] = NoTx
        /\ row' = row /\ revision' = revision /\ expired' = expired
        /\ \E t \in Call : /\ tx' = [tx EXCEPT ![s] = t]
                           /\ t.op = "claim" /\ t.unit = u
                           /\ t.seen.state = SeenState("claim")
    <3>1. PICK snap \in [Units -> Versions \cup {None}] : snap = ApprovedSnapshot(u)
      BY <2>2
    <3>2. Open(s, "claim", u, w, snap, None, FALSE)
      BY <2>3, <3>1
    <3>3. PICK v \in Versions \cup {None}, o \in BOOLEAN, op \in Operation :
            op = "claim" /\ Open(s, op, u, w, snap, v, o)
      BY <2>4, <3>2
    <3> QED
      BY <2>3, <3>3, OpenShape
  <2> QED
    BY <1>2, <2>5
<1>3. ASSUME NEW u \in Units, NEW w \in Actors, NEW op \in Operation,
             NEW v \in Versions \cup {None}, NEW override \in BOOLEAN,
             op # "claim", row[u].state = SeenState(op),
             Open(s, op, u, w, NoSnapshot, v, override)
      PROVE  Shape
  <2>1. /\ tx[s] = NoTx
        /\ row' = row /\ revision' = revision /\ expired' = expired
        /\ \E t \in Call : /\ tx' = [tx EXCEPT ![s] = t]
                           /\ t.op = op /\ t.unit = u
                           /\ t.seen.state = SeenState(op)
    BY <1>1, <1>3, OpenShape
  <2> QED
    BY <1>3, <2>1
<1> HIDE DEF Shape
<1>4. ASSUME NEW u \in Units, NEW w \in Actors, RecoverRead(s, u, w) PROVE Shape
  BY <1>3, <1>4 DEF RecoverRead, SeenState, Operation
<1>5. ASSUME NEW u \in Units, NEW w \in Actors, NEW lease \in LeaseIds(u),
             HeartbeatRead(s, u, w, lease)
      PROVE  Shape
  BY <1>3, <1>5 DEF HeartbeatRead, HoldsLease, SeenState, Operation
<1>6. ASSUME NEW u \in Units, NEW w \in Actors, NEW lease \in LeaseIds(u),
             NEW v \in Versions, SubmitRead(s, u, w, lease, v)
      PROVE  Shape
  BY <1>3, <1>6 DEF SubmitRead, HoldsLease, SeenState, Operation
<1>7. ASSUME NEW u \in Units, NEW w \in Actors, NEW v \in Versions,
             NEW decision \in {"approve", "reject"},
             ReviewRead(s, u, w, v, decision)
      PROVE  Shape
  BY <1>3, <1>7 DEF ReviewRead, SeenState, Operation
<1>8. ASSUME NEW u \in Units, NEW w \in Actors, NEW override \in BOOLEAN,
             ReworkRead(s, u, w, override)
      PROVE  Shape
  BY <1>3, <1>8 DEF ReworkRead, SeenState, Operation
<1>9. Shape
  <2>1. CASE ScopedRead(s)
    BY <1>2, <1>4, <1>5, <1>6, <2>1 DEF ScopedRead
  <2>2. CASE UnscopedRead(s)
    BY <1>7, <1>8, <2>2 DEF UnscopedRead
  <2> QED
    BY <2>1, <2>2
<1> QED
  BY <1>0, <1>9 DEF Shape

----------------------------------------------------------------------------
(* The project commands.                                                   *)

\* A command of the aggregate keeps the projects well-formed.
LEMMA CommandTypes ==
  ASSUME ScopedTypeOK, NEW p \in Projects, NEW plan \in Plans,
         NEW op \in {"create", "launch", "request_completion", "cancel",
                     "activate", "complete"},
         Agg!Command(p, op, plan, p)
  PROVE  /\ project' \in [Projects -> Agg!Project]
         /\ certified' = certified
<1> DEFINE r == project[p]
<1> DEFINE q == Agg!After(r, op, plan, p)
<1>1. /\ project' = [project EXCEPT ![p] = q] /\ certified' = certified
      /\ op = "complete" => plan = r.plan
  BY DEF Agg!Command, Agg!Allowed
<1>2. r \in Agg!Project /\ r.revision \in Nat /\ r.revision + 1 \in Nat
  BY DEF ScopedTypeOK, Agg!Project
<1>3. ASSUME op = "create" PROVE q \in Agg!Project
  <2>1. q = Agg!Created(r)
    BY <1>3 DEF Agg!After
  <2> QED
    BY <1>2, <2>1 DEF Agg!Created, Agg!Project, Agg!ProjectStatus
<1>4. ASSUME op = "launch" PROVE q \in Agg!Project
  <2>1. q = Agg!Launched(r)
    BY <1>4 DEF Agg!After
  <2> QED
    BY <1>2, <2>1 DEF Agg!Launched, Agg!Project, Agg!ProjectStatus
<1>5. ASSUME op = "request_completion" PROVE q \in Agg!Project
  <2>1. q = Agg!CompletionRequested(r)
    BY <1>5 DEF Agg!After
  <2> QED
    BY <1>2, <2>1 DEF Agg!CompletionRequested, Agg!Project, Agg!ProjectStatus
<1>6. ASSUME op = "cancel" PROVE q \in Agg!Project
  <2>1. q = Agg!Cancelled(r)
    BY <1>6 DEF Agg!After
  <2> QED
    BY <1>2, <2>1 DEF Agg!Cancelled, Agg!Project, Agg!ProjectStatus
<1>7. ASSUME op = "activate" PROVE q \in Agg!Project
  <2>1. q = Agg!Activated(r, plan)
    BY <1>7 DEF Agg!After
  <2> QED
    BY <1>2, <2>1 DEF Agg!Activated, Agg!Project, Agg!ProjectStatus
<1>8. ASSUME op = "complete" PROVE q \in Agg!Project
  <2>1. q = Agg!Completed(r)
    BY <1>8 DEF Agg!After
  <2>2. [plan |-> r.plan, revision |-> r.revision] \in Agg!CompletionRecord
    BY <1>1, <1>2, <1>8 DEF Agg!CompletionRecord
  <2> QED
    BY <1>2, <2>1, <2>2 DEF Agg!Completed, Agg!Project, Agg!ProjectStatus
<1>9. q \in Agg!Project
  BY <1>3, <1>4, <1>5, <1>6, <1>7, <1>8
<1> HIDE DEF q
<1> QED
  BY <1>1, <1>9 DEF ScopedTypeOK

\* The cancellation of superseded work writes well-formed rows and revisions,
\* and every row it changes is FAILED afterwards.
LEMMA CancelShape ==
  ASSUME ScopedTypeOK, NEW m \in Managers, CancelUnits(m)
  PROVE  /\ TypeOK'
         /\ \A u \in Units : row'[u] = row[u] \/ row'[u].state = "FAILED"
         /\ tx' = tx /\ admitted' = admitted
         /\ project' = project /\ certified' = certified
         /\ command' = [command EXCEPT ![m] = NoTx]
<1> DEFINE c == command[m]
<1>1. c \in ManagerCommand
  BY DEF CancelUnits, ScopedTypeOK
<1>2. c.seen \in [Units -> WorkUnit]
  BY <1>1 DEF ManagerCommand
<1>3. ASSUME NEW u \in Units
      PROVE  /\ CancelledUnit(row[u], c.seen[u]) \in WorkUnit
             /\ CancelledUnit(row[u], c.seen[u]).state = "FAILED"
             /\ [CancelledUnit(c.seen[u], c.seen[u])
                   EXCEPT !.previous_worker = c.seen[u].claimed_by,
                          !.updated_at = row[u].updated_at + 1] \in WorkUnit
  <2>1. PICK r \in WorkUnit, z \in WorkUnit : r = row[u] /\ z = c.seen[u]
    BY <1>2 DEF ScopedTypeOK, TypeOK
  <2>2. r.updated_at + 1 \in Nat /\ z.updated_at + 1 \in Nat
    BY DEF WorkUnit
  <2>3. z.claimed_by \in Actors \cup {None}
    BY DEF WorkUnit
  <2>4. ASSUME NEW y \in WorkUnit
        PROVE  CancelledUnit(y, z) \in WorkUnit /\ CancelledUnit(y, z).state = "FAILED"
    <3>1. y.updated_at + 1 \in Nat /\ y.previous_worker \in Actors \cup {None}
      BY DEF WorkUnit
    <3>2. CASE z.claimed_by # z.previous_worker
      BY <2>3, <3>1, <3>2 DEF CancelledUnit, WorkUnit, RowState, WorkUnitState
    <3>3. CASE z.claimed_by = z.previous_worker
      BY <2>3, <3>1, <3>3 DEF CancelledUnit, WorkUnit, RowState, WorkUnitState
    <3> QED
      BY <3>2, <3>3
  <2>5. ASSUME NEW y \in WorkUnit
        PROVE  [y EXCEPT !.previous_worker = z.claimed_by,
                         !.updated_at = r.updated_at + 1] \in WorkUnit
    BY <2>2, <2>3 DEF WorkUnit
  <2> QED
    BY <2>1, <2>4, <2>5
<1>4. /\ row' = [u \in Units |->
                 IF Stale(c, u) THEN CancelledUnit(row[u], c.seen[u]) ELSE row[u]]
      /\ revision' = [u \in Units |->
                 IF Stale(c, u)
                 THEN [CancelledUnit(c.seen[u], c.seen[u])
                         EXCEPT !.previous_worker = c.seen[u].claimed_by,
                                !.updated_at = row[u].updated_at + 1]
                 ELSE revision[u]]
      /\ expired' \subseteq expired
      /\ tx' = tx /\ admitted' = admitted
      /\ project' = project /\ certified' = certified
      /\ command' = [command EXCEPT ![m] = NoTx]
  BY DEF CancelUnits, ProjectUnchanged
<1> HIDE DEF c
<1>5. row' \in [Units -> WorkUnit] /\ revision' \in [Units -> WorkUnit]
  BY <1>3, <1>4 DEF ScopedTypeOK, TypeOK
<1>6. \A u \in Units : row'[u] = row[u] \/ row'[u].state = "FAILED"
  BY <1>3, <1>4
<1> QED
  BY <1>4, <1>5, <1>6 DEF ScopedTypeOK, TypeOK

----------------------------------------------------------------------------
(* What a step does, in the terms the properties need.                     *)

\* A call ends, goes on, or is opened with what its operation asks for.
SessionsKept ==
    \A z \in Sessions :
        \/ tx'[z] = NoTx
        \/ tx'[z] = tx[z] /\ admitted'[z] = admitted[z]
        \/ /\ admitted'[z] = admitted[z]
           /\ tx'[z].seen.state = SeenState(tx'[z].op)
           /\ tx'[z].op = "claim" =>
                admitted[z] # None /\ admitted[z] = Scope(tx'[z].unit)

\* What the units of its scope were when a completion verified them.
SawTerminal(c) ==
    \A u \in Units :
        Scope(u) = <<c.project, c.plan>> /\ c.seen[u].state # "ABSENT"
            => row[u].state \in Terminal

\* A command ends, goes on, is a cancellation, or has just been verified.
ManagersKept ==
    \A m \in Managers :
        \/ command'[m] = NoTx
        \/ command'[m] = command[m]
        \/ command'[m].pc \in {"cancel", "cancelling"}
        \/ SawTerminal(command'[m])

\* No unit leaves the terminal states.
TerminalKept == \A u \in Units : row[u].state \in Terminal => row'[u].state \in Terminal

\* A call is admitted to an active project only.
AdmissionsKept ==
    \A z \in Sessions :
        \/ admitted'[z] = admitted[z]
        \/ admitted'[z] = None
        \/ \E p \in Projects, plan \in Plans :
             admitted'[z] = <<p, plan>> /\ project[p].status = "active"

\* The call that claims a unit was admitted to its scope, and ends.
ClaimsEnd ==
    \A u \in Units : row[u].state = "PENDING" /\ row'[u].state = "CLAIMED" =>
        \E s \in Sessions : /\ admitted[s] # None /\ admitted[s] = Scope(u)
                            /\ admitted'[s] = None

StepOK ==
    /\ ScopedTypeOK'
    /\ SessionsKept
    /\ ManagersKept
    /\ TerminalKept
    /\ AdmissionsKept
    /\ ClaimsEnd

\* A session that changes no table and no command takes such a step.
LEMMA SessionStep ==
  ASSUME ScopedInv, row' = row, revision' = revision, expired' \subseteq Units,
         project' = project, certified' = certified, command' = command,
         tx' \in [Sessions -> Call \cup {NoTx}],
         admitted' \in [Sessions -> (Projects \X Plans) \cup {None}],
         SessionsKept, AdmissionsKept
  PROVE  StepOK
<1>1. ScopedTypeOK'
  BY DEF ScopedInv, ScopedTypeOK, TypeOK
<1>2. ManagersKept /\ TerminalKept /\ ClaimsEnd
  BY DEF ManagersKept, TerminalKept, ClaimsEnd
<1> QED
  BY <1>1, <1>2 DEF StepOK

\* The workers' calls take such a step.
LEMMA WorkerStep == ASSUME ScopedInv, NEW s \in Sessions, Worker(s) PROVE StepOK
<1>0. /\ tx \in [Sessions -> Call \cup {NoTx}]
      /\ admitted \in [Sessions -> (Projects \X Plans) \cup {None}]
      /\ expired \subseteq Units
  BY DEF ScopedInv, ScopedTypeOK, TypeOK
<1>1. ASSUME NEW p \in Projects, NEW plan \in Plans, Admit(s, p, plan) PROVE StepOK
  <2>1. /\ row' = row /\ revision' = revision /\ expired' = expired /\ tx' = tx
        /\ project' = project /\ certified' = certified /\ command' = command
        /\ admitted' = [admitted EXCEPT ![s] = <<p, plan>>]
        /\ tx[s] = NoTx /\ project[p].status = "active"
    BY <1>1 DEF Admit, ScopeIsCurrent
  <2>2. \A z \in Sessions : admitted'[z] = IF z = s THEN <<p, plan>> ELSE admitted[z]
    BY <1>0, <2>1
  <2>3. SessionsKept /\ AdmissionsKept
    BY <2>1, <2>2 DEF SessionsKept, AdmissionsKept
  <2>4. admitted' \in [Sessions -> (Projects \X Plans) \cup {None}]
    BY <1>0, <2>1
  <2> QED
    BY <1>0, <2>1, <2>3, <2>4, SessionStep
<1>2. CASE ScopedRead(s) \/ UnscopedRead(s)
  <2>1. /\ row' = row /\ revision' = revision /\ expired' = expired
        /\ project' = project /\ certified' = certified
        /\ admitted' = admitted /\ command' = command
    BY <1>2, ReadShape
  <2>2. PICK t \in Call :
          /\ tx' = [tx EXCEPT ![s] = t]
          /\ t.seen.state = SeenState(t.op)
          /\ t.op = "claim" => admitted[s] # None /\ admitted[s] = Scope(t.unit)
    BY <1>2, ReadShape
  <2>3. SessionsKept
    BY <1>0, <2>1, <2>2 DEF SessionsKept
  <2>4. AdmissionsKept
    BY <2>1 DEF AdmissionsKept
  <2> QED
    BY <1>0, <2>1, <2>2, <2>3, <2>4, SessionStep
<1>3. ASSUME row' = row, revision' = revision, expired' = expired,
             project' = project, certified' = certified, command' = command,
             tx' = [tx EXCEPT ![s] = NoTx],
             NEW a \in {admitted[s], None},
             admitted' = [admitted EXCEPT ![s] = a]
      PROVE  StepOK
  <2>1. SessionsKept /\ AdmissionsKept
    BY <1>0, <1>3 DEF SessionsKept, AdmissionsKept
  <2> QED
    BY <1>0, <1>3, <2>1, SessionStep
<1>4. CASE ScopedRetry(s)
  BY <1>3, <1>4 DEF ScopedRetry, LoseCas
<1>5. CASE ScopedEnd(s)
  <2>0. /\ admitted' = [admitted EXCEPT ![s] = None]
        /\ project' = project /\ certified' = certified /\ command' = command
    BY <1>5 DEF ScopedEnd
  <2>1. CASE Crash(s)
    BY <1>3, <2>0, <2>1 DEF Crash
  <2>2. CASE tx[s] = NoTx /\ UNCHANGED <<row, revision, expired, tx>>
    BY <1>0, <1>3, <2>0, <2>2
  <2>3. CASE Commit(s)
    <3>1. PICK t \in Call : t = tx[s]
      BY <2>3, CommitShape
    <3>2. /\ t.unit \in Units /\ row[t.unit].state = SeenState(t.op) /\ tx[s] # NoTx
          /\ tx' = [tx EXCEPT ![s] = NoTx]
          /\ \A x \in Units : x # t.unit => row'[x] = row[x]
      BY <2>3, <3>1, CommitShape
    <3>3. TypeOK'
      BY <2>3, CommitShape
    <3>4. ScopedTypeOK'
      BY <1>0, <2>0, <3>3 DEF ScopedInv, ScopedTypeOK
    <3>5. SessionsKept /\ AdmissionsKept
      BY <1>0, <2>0, <3>2 DEF SessionsKept, AdmissionsKept
    <3>6. ManagersKept
      BY <2>0 DEF ManagersKept
    <3>7. TerminalKept
      BY <3>2 DEF TerminalKept, Terminal, SeenState
    <3>8. ClaimsEnd
      <4> SUFFICES ASSUME NEW u \in Units, row[u].state = "PENDING",
                          row'[u].state = "CLAIMED"
                   PROVE  /\ admitted[s] # None /\ admitted[s] = Scope(u)
                          /\ admitted'[s] = None
        BY DEF ClaimsEnd
      <4>1. u = t.unit
        BY <3>2
      <4>2. t.op = "claim"
        BY <3>2, <4>1 DEF SeenState
      <4> QED
        BY <1>0, <2>0, <3>1, <3>2, <4>1, <4>2 DEF ScopedInv, ClaimsAdmitted
    <3> QED
      BY <3>4, <3>5, <3>6, <3>7, <3>8 DEF StepOK
  <2> QED
    BY <1>5, <2>1, <2>2, <2>3 DEF ScopedEnd
<1> QED
  BY <1>1, <1>2, <1>4, <1>5 DEF Worker

\* A manager that writes at most the aggregate takes such a step.
LEMMA CommandStep ==
  ASSUME ScopedInv, NEW m \in Managers, NEW c \in ManagerCommand \cup {NoTx},
         row' = row, revision' = revision, expired' = expired, tx' = tx,
         admitted' = admitted,
         project' \in [Projects -> Agg!Project],
         certified' \subseteq (Projects \X Plans),
         command' = [command EXCEPT ![m] = c] \/ command' = command,
         c = NoTx \/ c.pc \in {"cancel", "cancelling"} \/ SawTerminal(c)
  PROVE  StepOK
<1>0. command \in [Managers -> ManagerCommand \cup {NoTx}]
  BY DEF ScopedInv, ScopedTypeOK
<1>1. command' \in [Managers -> ManagerCommand \cup {NoTx}]
  BY <1>0
<1>2. ScopedTypeOK'
  BY <1>1 DEF ScopedInv, ScopedTypeOK, TypeOK
<1>3. ManagersKept
  <2> SUFFICES ASSUME NEW z \in Managers
               PROVE  \/ command'[z] = NoTx
                      \/ command'[z] = command[z]
                      \/ command'[z].pc \in {"cancel", "cancelling"}
                      \/ SawTerminal(command'[z])
    BY DEF ManagersKept
  <2>1. command'[z] = c \/ command'[z] = command[z]
    BY <1>0
  <2> QED
    BY <2>1
<1>4. SessionsKept /\ AdmissionsKept /\ TerminalKept /\ ClaimsEnd
  BY DEF SessionsKept, AdmissionsKept, TerminalKept, ClaimsEnd
<1> QED
  BY <1>2, <1>3, <1>4 DEF StepOK

\* The commands of a project take such a step.
LEMMA ManagerStep == ASSUME ScopedInv, NEW m \in Managers, Manager(m) PROVE StepOK
<1>0. /\ ScopedTypeOK
      /\ row \in [Units -> WorkUnit]
      /\ project \in [Projects -> Agg!Project]
      /\ certified \subseteq (Projects \X Plans)
      /\ command \in [Managers -> ManagerCommand \cup {NoTx}]
  BY DEF ScopedInv, ScopedTypeOK, TypeOK
<1>1. ASSUME NEW p \in Projects, NEW plan \in Plans, NEW n \in Nat,
             NEW pc \in {"cancel", "completing"}
      PROVE  LET c == [pc |-> pc, project |-> p, plan |-> plan, at |-> n, seen |-> row]
             IN c \in ManagerCommand /\ c.pc = pc /\ c.seen = row
                /\ c.project = p /\ c.plan = plan
  BY <1>0 DEF ManagerCommand
<1>2. ASSUME NEW p \in Projects, NEW plan \in Plans, ActivateScope(m, p, plan)
      PROVE  StepOK
  <2> DEFINE c == Pending("cancel", p, plan, row)
  <2>1. /\ Agg!Command(p, "activate", plan, p)
        /\ command' = [command EXCEPT ![m] = c] \/ command' = command
        /\ row' = row /\ revision' = revision /\ expired' = expired /\ tx' = tx
        /\ admitted' = admitted
    BY <1>2 DEF ActivateScope, QueueUnchanged
  <2>2. project' \in [Projects -> Agg!Project] /\ certified' = certified
    BY <1>0, <2>1, CommandTypes
  <2>3. project[p].revision \in Nat
    BY <1>0 DEF Agg!Project
  <2>4. c \in ManagerCommand /\ c.pc = "cancel"
    BY <1>1, <2>3 DEF Pending
  <2> HIDE DEF c
  <2> QED
    BY <1>0, <2>1, <2>2, <2>4, CommandStep
<1>3. CASE ListUnits(m)
  <2> DEFINE c == [command[m] EXCEPT !.pc = "cancelling", !.seen = row]
  <2>1. /\ command[m] # NoTx /\ command' = [command EXCEPT ![m] = c]
        /\ row' = row /\ revision' = revision /\ expired' = expired /\ tx' = tx
        /\ admitted' = admitted /\ project' = project /\ certified' = certified
    BY <1>0, <1>3 DEF ListUnits, QueueUnchanged, ProjectUnchanged
  <2>2. command[m] \in ManagerCommand
    BY <1>0, <2>1
  <2>3. c \in ManagerCommand /\ c.pc = "cancelling"
    BY <1>0, <2>2 DEF ManagerCommand
  <2> HIDE DEF c
  <2> QED
    BY <1>0, <2>1, <2>3, CommandStep
<1>4. CASE CancelUnits(m)
  <2>1. /\ TypeOK'
        /\ \A u \in Units : row'[u] = row[u] \/ row'[u].state = "FAILED"
        /\ tx' = tx /\ admitted' = admitted
        /\ project' = project /\ certified' = certified
        /\ command' = [command EXCEPT ![m] = NoTx]
    BY <1>0, <1>4, CancelShape
  <2>2. ScopedTypeOK'
    BY <1>0, <2>1 DEF ScopedTypeOK
  <2>3. SessionsKept /\ AdmissionsKept
    BY <2>1 DEF SessionsKept, AdmissionsKept
  <2>4. ManagersKept
    BY <1>0, <2>1 DEF ManagersKept
  <2>5. TerminalKept /\ ClaimsEnd
    BY <2>1 DEF TerminalKept, ClaimsEnd, Terminal
  <2> QED
    BY <2>2, <2>3, <2>4, <2>5 DEF StepOK
<1>5. ASSUME NEW p \in Projects, VerifyCompletion(m, p) PROVE StepOK
  <2> DEFINE c == Pending("completing", p, project[p].plan, row)
  <2>1. /\ <<p, project[p].plan>> \in certified /\ Quiescent(p)
        /\ command' = [command EXCEPT ![m] = c]
        /\ row' = row /\ revision' = revision /\ expired' = expired /\ tx' = tx
        /\ admitted' = admitted /\ project' = project /\ certified' = certified
    BY <1>5 DEF VerifyCompletion, QueueUnchanged, ProjectUnchanged
  <2>2. project[p].plan \in Plans /\ project[p].revision \in Nat
    BY <1>0, <2>1 DEF Agg!Project
  <2>3. /\ c \in ManagerCommand /\ c.seen = row
        /\ c.project = p /\ c.plan = project[p].plan
    BY <1>1, <2>2 DEF Pending
  <2> HIDE DEF c
  <2>4. SawTerminal(c)
    BY <2>1, <2>3 DEF SawTerminal, Quiescent, Terminal
  <2> QED
    BY <1>0, <2>1, <2>3, <2>4, CommandStep
<1>6. CASE CompleteProject(m)
  <2>1. /\ command[m] # NoTx
        /\ Agg!Command(command[m].project, "complete", command[m].plan,
                       command[m].project)
        /\ command' = [command EXCEPT ![m] = NoTx]
        /\ row' = row /\ revision' = revision /\ expired' = expired /\ tx' = tx
        /\ admitted' = admitted
    BY <1>6 DEF CompleteProject, QueueUnchanged
  <2>2. PICK p \in Projects, plan \in Plans :
          p = command[m].project /\ plan = command[m].plan
    BY <1>0, <2>1 DEF ManagerCommand
  <2>3. Agg!Command(p, "complete", plan, p)
    BY <2>1, <2>2
  <2>4. project' \in [Projects -> Agg!Project] /\ certified' = certified
    BY <1>0, <2>3, CommandTypes
  <2> QED
    BY <1>0, <2>1, <2>4, CommandStep
<1>7. CASE AbandonCommand(m)
  <2>1. /\ command' = [command EXCEPT ![m] = NoTx]
        /\ row' = row /\ revision' = revision /\ expired' = expired /\ tx' = tx
        /\ admitted' = admitted /\ project' = project /\ certified' = certified
    BY <1>7 DEF AbandonCommand, QueueUnchanged, ProjectUnchanged
  <2> QED
    BY <1>0, <2>1, CommandStep
<1> QED
  BY <1>2, <1>3, <1>4, <1>5, <1>6, <1>7 DEF Manager

\* Adding a unit, the end of a lease, a plain command and new evidence take
\* such a step.
LEMMA OtherStep ==
  ASSUME ScopedInv,
         \/ Environment
         \/ \E p \in Projects, plan \in Plans :
              \/ \E op \in Agg!Operation : PlainCommand(p, op, plan)
              \/ CertifyScope(p, plan)
  PROVE  StepOK
<1>0. ScopedTypeOK /\ TypeOK
  BY DEF ScopedInv, ScopedTypeOK
<1>1. ASSUME project' = project, certified' = certified, tx' = tx,
             admitted' = admitted, command' = command, TypeOK',
             TerminalKept, ClaimsEnd
      PROVE  StepOK
  BY <1>0, <1>1 DEF ScopedTypeOK, SessionsKept, AdmissionsKept, ManagersKept, StepOK
<1>2. ASSUME NEW u \in Units, Add(u), UNCHANGED <<project, certified, admitted, command>>
      PROVE  StepOK
  <2> DEFINE r == [AbsentRow EXCEPT !.state = "PENDING", !.updated_at = 1]
  <2>1. r \in WorkUnit /\ r.state = "PENDING"
    BY DEF AbsentRow, NoSnapshot, WorkUnit, RowState, WorkUnitState
  <2>2. /\ row[u].state = "ABSENT" /\ row' = [row EXCEPT ![u] = r]
        /\ revision' = [revision EXCEPT ![u] = r] /\ expired' = expired /\ tx' = tx
    BY <1>2 DEF Add
  <2> HIDE DEF r
  <2>3. TypeOK'
    BY <1>0, <2>1, <2>2 DEF TypeOK
  <2>4. TerminalKept /\ ClaimsEnd
    BY <1>0, <2>1, <2>2 DEF TypeOK, TerminalKept, ClaimsEnd, Terminal
  <2> QED
    BY <1>1, <1>2, <2>2, <2>3, <2>4
<1>3. ASSUME NEW u \in Units, Expire(u), UNCHANGED <<project, certified, admitted, command>>
      PROVE  StepOK
  <2>1. TypeOK' /\ TerminalKept /\ ClaimsEnd
    BY <1>0, <1>3 DEF Expire, TypeOK, TerminalKept, ClaimsEnd
  <2> QED
    BY <1>1, <1>3, <2>1 DEF Expire
<1>4. ASSUME project' \in [Projects -> Agg!Project],
             certified' \subseteq (Projects \X Plans),
             row' = row, revision' = revision, expired' = expired, tx' = tx,
             admitted' = admitted, command' = command
      PROVE  StepOK
  BY <1>0, <1>4 DEF ScopedTypeOK, TypeOK, SessionsKept, AdmissionsKept,
     ManagersKept, TerminalKept, ClaimsEnd, StepOK
<1>5. ASSUME NEW p \in Projects, NEW plan \in Plans, NEW op \in Agg!Operation,
             PlainCommand(p, op, plan)
      PROVE  StepOK
  <2>1. project' \in [Projects -> Agg!Project] /\ certified' = certified
    BY <1>0, <1>5, CommandTypes DEF PlainCommand
  <2> QED
    BY <1>0, <1>4, <1>5, <2>1 DEF PlainCommand, QueueUnchanged, ScopedTypeOK
<1>6. ASSUME NEW p \in Projects, NEW plan \in Plans, CertifyScope(p, plan)
      PROVE  StepOK
  <2>1. project' = project /\ certified' = certified \cup {<<p, plan>>}
    BY <1>6 DEF CertifyScope, Agg!Certify
  <2> QED
    BY <1>0, <1>4, <1>6, <2>1 DEF CertifyScope, QueueUnchanged, ScopedTypeOK
<1> QED
  BY <1>2, <1>3, <1>5, <1>6 DEF Environment

\* Every step takes this shape.
LEMMA ScopedStep == ScopedInv /\ [ScopedNext]_scopedVars => StepOK
<1> SUFFICES ASSUME ScopedInv, [ScopedNext]_scopedVars PROVE StepOK
  OBVIOUS
<1>1. ASSUME UNCHANGED scopedVars PROVE StepOK
  BY <1>1 DEF scopedVars, ScopedInv, ScopedTypeOK, TypeOK, SessionsKept,
     AdmissionsKept, ManagersKept, TerminalKept, ClaimsEnd, StepOK
<1> QED
  BY <1>1, WorkerStep, ManagerStep, OtherStep DEF ScopedNext

\* A step of this shape keeps the invariant.
LEMMA ScopedInvStep == ScopedInv /\ [ScopedNext]_scopedVars => ScopedInv'
<1> SUFFICES ASSUME ScopedInv, [ScopedNext]_scopedVars PROVE ScopedInv'
  OBVIOUS
<1>1. StepOK
  BY ScopedStep
<1>2. CallsStarted'
  BY <1>1 DEF StepOK, SessionsKept, ScopedInv, CallsStarted
<1>3. ClaimsAdmitted'
  BY <1>1 DEF StepOK, SessionsKept, ScopedInv, ClaimsAdmitted
<1>4. VerifiedStaysQuiescent'
  <2> SUFFICES ASSUME NEW m \in Managers, command'[m] # NoTx,
                      command'[m].pc = "completing", NEW u \in Units,
                      Scope(u) = <<command'[m].project, command'[m].plan>>,
                      command'[m].seen[u].state # "ABSENT"
               PROVE  row'[u].state \in Terminal
    BY DEF VerifiedStaysQuiescent, Scope
  <2>1. row[u].state \in Terminal
    BY <1>1 DEF StepOK, ManagersKept, SawTerminal, ScopedInv,
       VerifiedStaysQuiescent
  <2> QED
    BY <1>1, <2>1 DEF StepOK, TerminalKept
<1> QED
  BY <1>1, <1>2, <1>3, <1>4 DEF StepOK, ScopedInv

\* The empty tables satisfy the invariant.
LEMMA ScopedStart == ScopedInit => ScopedInv
<1> SUFFICES ASSUME ScopedInit PROVE ScopedInv
  OBVIOUS
<1>1. AbsentRow \in WorkUnit
  BY DEF AbsentRow, WorkUnit, RowState, WorkUnitState, NoSnapshot
<1>2. TypeOK
  BY <1>1 DEF ScopedInit, Init, TypeOK
<1>3. Agg!AbsentProject \in Agg!Project
  BY DEF Agg!AbsentProject, Agg!Project
<1>4. ScopedTypeOK
  BY <1>2, <1>3 DEF ScopedInit, Agg!AggregateInit, ScopedTypeOK
<1>5. /\ \A s \in Sessions : tx[s] = NoTx
      /\ \A m \in Managers : command[m] = NoTx
  BY DEF ScopedInit, Init
<1> QED
  BY <1>4, <1>5 DEF ScopedInv, CallsStarted, ClaimsAdmitted, VerifiedStaysQuiescent

\* The scoped queue keeps its invariant: types, calls, admissions, and the
\* quiescence a completion verified.
THEOREM ScopedSafety == ScopedSpec => []ScopedInv
  BY ScopedStart, ScopedInvStep, PTL DEF ScopedSpec

\* The tables stay well-formed although the cancellation writes rows by
\* primary key that other sessions have changed since it read them.
THEOREM ScopedTypes == ScopedSpec => []ScopedTypeOK
<1>1. ScopedInv => ScopedTypeOK
  BY DEF ScopedInv
<1> QED
  BY <1>1, ScopedSafety, PTL

\* The quiescence a completion verified still holds when it commits.
THEOREM CompletionQuiescence == ScopedSpec => []VerifiedStaysQuiescent
<1>1. ScopedInv => VerifiedStaysQuiescent
  BY DEF ScopedInv
<1> QED
  BY <1>1, ScopedSafety, PTL

\* No recovery, review, rework, heartbeat or submission that was under way
\* brings back a unit that was approved, failed or cancelled meanwhile.
THEOREM TerminalFinality == ScopedSpec => TerminalStays
<1>1. ScopedInv /\ [ScopedNext]_scopedVars =>
        [\A u \in Units :
           row[u].state \in Terminal => row'[u].state \in Terminal]_scopedVars
  BY ScopedStep DEF StepOK, TerminalKept
<1> QED
  BY <1>1, ScopedSafety, PTL DEF ScopedSpec, TerminalStays

\* Once closure is requested no call is let into the project, and each claim
\* still committed spends one of the calls that were inside.
THEOREM ClosureDrainsCalls == ScopedSpec => ClosureDrains
<1> DEFINE Drains ==
      \A p \in Projects :
         project[p].status \in {"completion_pending", "completed", "cancelled"} =>
           /\ Inside(p)' \subseteq Inside(p)
           /\ \A u \in Units :
                /\ ProjectOf[u] = p
                /\ row[u].state = "PENDING" /\ row'[u].state = "CLAIMED"
                => Inside(p)' # Inside(p)
<1>1. ASSUME StepOK PROVE Drains
  <2> SUFFICES ASSUME NEW p \in Projects,
                      project[p].status \in {"completion_pending", "completed", "cancelled"}
               PROVE  /\ Inside(p)' \subseteq Inside(p)
                      /\ \A u \in Units :
                           /\ ProjectOf[u] = p
                           /\ row[u].state = "PENDING" /\ row'[u].state = "CLAIMED"
                           => Inside(p)' # Inside(p)
    OBVIOUS
  <2>1. Inside(p)' \subseteq Inside(p)
    <3> SUFFICES ASSUME NEW s \in Sessions, admitted'[s] # None, admitted'[s][1] = p
                 PROVE  s \in Inside(p)
      BY DEF Inside
    <3>1. ~\E q \in Projects, plan \in Plans :
             admitted'[s] = <<q, plan>> /\ project[q].status = "active"
      OBVIOUS
    <3>2. admitted'[s] = admitted[s]
      BY <1>1, <3>1 DEF StepOK, AdmissionsKept
    <3> QED
      BY <3>2 DEF Inside
  <2>2. ASSUME NEW u \in Units, ProjectOf[u] = p,
               row[u].state = "PENDING", row'[u].state = "CLAIMED"
        PROVE  Inside(p)' # Inside(p)
    <3>1. PICK s \in Sessions : /\ admitted[s] # None /\ admitted[s] = Scope(u)
                                /\ admitted'[s] = None
      BY <1>1, <2>2 DEF StepOK, ClaimsEnd
    <3>2. s \in Inside(p) /\ s \notin Inside(p)'
      BY <2>2, <3>1 DEF Inside, Scope
    <3> QED
      BY <3>2
  <2> QED
    BY <2>1, <2>2
<1>2. ScopedInv /\ [ScopedNext]_scopedVars => [Drains]_scopedVars
  BY <1>1, ScopedStep
<1> QED
  BY <1>2, ScopedSafety, PTL DEF ScopedSpec, ClosureDrains

\* Composed with the queue, the projects are still the atomic aggregate that
\* the command transactions implement: everything proved of it holds here.
THEOREM ScopedAggregate == ScopedSpec => Agg!AggregateSpec
<1>1. ScopedInit => Agg!AggregateInit
  BY DEF ScopedInit
<1>2. ScopedInv /\ [ScopedNext]_scopedVars =>
        [Agg!AggregateNext]_<<project, certified>>
  <2> SUFFICES ASSUME ScopedInv, [ScopedNext]_scopedVars
               PROVE  Agg!AggregateNext \/ UNCHANGED <<project, certified>>
    OBVIOUS
  <2>1. ASSUME NEW p \in Projects, NEW plan \in Plans, NEW op \in Agg!Operation,
               Agg!Command(p, op, plan, p)
        PROVE  Agg!AggregateNext
    BY <2>1 DEF Agg!AggregateNext
  <2>2. ASSUME NEW s \in Sessions, Worker(s) PROVE UNCHANGED <<project, certified>>
    BY <2>2 DEF Worker, Admit, ScopedRead, UnscopedRead, ScopedEnd, ScopedRetry
  <2>3. ASSUME NEW m \in Managers, Manager(m)
        PROVE  Agg!AggregateNext \/ UNCHANGED <<project, certified>>
    <3>1. ASSUME NEW p \in Projects, NEW plan \in Plans, ActivateScope(m, p, plan)
          PROVE  Agg!AggregateNext
      BY <2>1, <3>1 DEF ActivateScope, Agg!Operation
    <3>2. CASE CompleteProject(m)
      <4>1. PICK p \in Projects, plan \in Plans :
              p = command[m].project /\ plan = command[m].plan
        BY <3>2 DEF CompleteProject, ScopedInv, ScopedTypeOK, ManagerCommand
      <4>2. Agg!Command(p, "complete", plan, p)
        BY <3>2, <4>1 DEF CompleteProject
      <4> QED
        BY <2>1, <4>2 DEF Agg!Operation
    <3>3. ListUnits(m) \/ CancelUnits(m) \/ AbandonCommand(m)
            \/ (\E p \in Projects : VerifyCompletion(m, p))
          => UNCHANGED <<project, certified>>
      BY DEF ListUnits, CancelUnits, AbandonCommand, VerifyCompletion,
         ProjectUnchanged
    <3> QED
      BY <2>3, <3>1, <3>2, <3>3 DEF Manager
  <2>4. ASSUME NEW p \in Projects, NEW plan \in Plans,
               \/ \E op \in Agg!Operation : PlainCommand(p, op, plan)
               \/ CertifyScope(p, plan)
        PROVE  Agg!AggregateNext
    <3>1. CASE \E op \in Agg!Operation : PlainCommand(p, op, plan)
      BY <2>1, <3>1 DEF PlainCommand
    <3>2. CASE CertifyScope(p, plan)
      BY <3>2 DEF CertifyScope, Agg!AggregateNext
    <3> QED
      BY <2>4, <3>1, <3>2
  <2>5. Environment \/ UNCHANGED scopedVars => UNCHANGED <<project, certified>>
    BY DEF Environment, scopedVars
  <2> QED
    BY <2>2, <2>3, <2>4, <2>5 DEF ScopedNext
<1> QED
  BY <1>1, <1>2, ScopedSafety, PTL DEF ScopedSpec, Agg!AggregateSpec

=============================================================================
