-------------------------- MODULE WorkQueueProofs --------------------------
(***************************************************************************)
(* Work Queue v0 for every set of units, actors, sessions and versions,    *)
(* every dependency relation and every bound on the history.               *)
(*                                                                         *)
(* The argument: a call whose compare-and-set succeeds still sees the row  *)
(* it read (CasSeesRow), so what its early returns established is true of  *)
(* the row it changes; and the row it changes was not APPROVED, so no      *)
(* snapshot anywhere depends on it (CommitPreserves).                      *)
(***************************************************************************)
EXTENDS WorkQueue, TLAPS

\* The initial empty tables satisfy the inductive invariant.
LEMMA InitIInv == Init => IInv
<1> SUFFICES ASSUME Init PROVE IInv
  OBVIOUS
<1> USE ConstantsAssumption
<1>1. AbsentRow \in WorkUnit
  BY DEF AbsentRow, WorkUnit, RowState, WorkUnitState, NoSnapshot
<1>2. TypeOK
  BY <1>1 DEF Init, TypeOK
<1>3. OwnershipConsistent
  BY DEF Init, OwnershipConsistent, AbsentRow
<1>4. SnapshotIsApproved /\ RevisionMirrorsRow /\ ReviewHasSubmission
  BY DEF Init, SnapshotIsApproved, RevisionMirrorsRow, ReviewHasSubmission,
         AbsentRow
<1>5. CallsOK
  BY DEF Init, CallsOK
<1> QED
  BY <1>2, <1>3, <1>4, <1>5 DEF IInv

\* A successful compare-and-set of any service finds the row the call read,
\* in the state its operation starts from.
LEMMA CasSeesRow ==
  ASSUME IInv, NEW s \in Sessions, tx[s] # NoTx, CasMatches(tx[s])
  PROVE  /\ tx[s] \in Call
         /\ tx[s].seen = row[tx[s].unit]
         /\ row[tx[s].unit].state = SeenState(tx[s].op)
<1>1. tx[s] \in Call /\ CallOK(tx[s])
  BY DEF IInv, TypeOK, CallsOK
<1>2. tx[s].seen = row[tx[s].unit]
  BY <1>1 DEF CasMatches, CasClaim, CasProjection, CallOK, SeenIsCurrent,
              ClaimIsCurrent
<1>3. tx[s].seen.state = SeenState(tx[s].op)
  BY <1>1 DEF CallOK, ArgumentsChecked
<1> QED
  BY <1>1, <1>2, <1>3

\* A read changes no table; a call that satisfies CallOK may join the others.
LEMMA OpenPreserves ==
  ASSUME IInv, NEW s \in Sessions, NEW op \in Operation, NEW u \in Units,
         NEW a \in Actors, NEW STATE snap,
         snap \in [Units -> Versions \cup {None}],
         NEW v \in Versions \cup {None}, NEW override \in BOOLEAN,
         Open(s, op, u, a, snap, v, override),
         CallOK([op |-> op, unit |-> u, actor |-> a, seen |-> row[u],
                 snapshot |-> snap, version |-> v, override |-> override])
  PROVE  IInv'
<1> DEFINE t == [op |-> op, unit |-> u, actor |-> a, seen |-> row[u],
                 snapshot |-> snap, version |-> v, override |-> override]
<1>1. /\ tx' = [tx EXCEPT ![s] = t]
      /\ row' = row /\ revision' = revision /\ expired' = expired
  BY DEF Open
<1>2. t \in Call
  BY DEF IInv, TypeOK, Call
<1>3. TypeOK'
  BY <1>1, <1>2 DEF IInv, TypeOK
<1>4. OwnershipConsistent' /\ RevisionMirrorsRow' /\ ReviewHasSubmission'
  BY <1>1 DEF IInv, OwnershipConsistent, RevisionMirrorsRow,
              ReviewHasSubmission
<1>5. SnapshotIsApproved'
  BY <1>1 DEF IInv, SnapshotIsApproved
<1>6. CallsOK'
  <2> SUFFICES ASSUME NEW z \in Sessions, tx'[z] # NoTx
               PROVE  CallOK(tx[z])'
    BY DEF CallsOK
  <2>1. tx'[z] = IF z = s THEN t ELSE tx[z]
    BY <1>1 DEF IInv, TypeOK
  <2>2. CASE z = s
    BY <1>1, <2>1, <2>2
       DEF CallOK, SeenIsCurrent, ClaimIsCurrent, ArgumentsChecked
  <2>3. CASE z # s
    BY <1>1, <2>1, <2>3
       DEF IInv, CallsOK, CallOK, SeenIsCurrent, ClaimIsCurrent,
           ArgumentsChecked
  <2> QED
    BY <2>2, <2>3
<1> QED
  BY <1>3, <1>4, <1>5, <1>6 DEF IInv

\* A commit stores a well-formed row and its revision.  The row it replaces
\* was in a state some operation starts from, never APPROVED, so neither a
\* snapshot nor another session's claim depends on it; and its new stamp tells
\* every other call on the same unit that the row has changed.
LEMMA CommitPreserves ==
  ASSUME IInv, NEW s \in Sessions, tx[s] # NoTx, CasMatches(tx[s]),
         NEW STATE R, R \in WorkUnit,
         R.updated_at = Now(tx[s]),
         R.state \in {"CLAIMED", "AWAITING_REVIEW", "REJECTED", "APPROVED"},
         R.state = "CLAIMED" <=> R.lease_id # 0,
         R.state = "CLAIMED" <=> R.claimed_by # None,
         R.lease_worker = R.claimed_by,
         R.state # "CLAIMED" => R.delivered # None /\ R.previous_worker # None,
         R.snapshot = IF tx[s].op = "claim" THEN tx[s].snapshot
                                            ELSE row[tx[s].unit].snapshot,
         Persist(s, R, R),
         expired' \subseteq expired,
         tx[s].unit \in expired' => R.state = "CLAIMED"
  PROVE  IInv'
<1> DEFINE t == tx[s]
<1> DEFINE u == tx[s].unit
<1>1. /\ t \in Call /\ u \in Units
      /\ t.seen = row[u]
      /\ row[u].state = SeenState(t.op)
  BY CasSeesRow DEF Call
<1>2. row[u].state \in {"PENDING", "CLAIMED", "AWAITING_REVIEW", "REJECTED"}
  BY <1>1 DEF SeenState, Call, Operation
<1>3. /\ row' = [row EXCEPT ![u] = R]
      /\ revision' = [revision EXCEPT ![u] = R]
      /\ tx' = [tx EXCEPT ![s] = NoTx]
  BY DEF Persist
<1>4. /\ row'[u] = R
      /\ \A x \in Units : x # u => row'[x] = row[x]
      /\ \A x \in Units : revision'[x] = IF x = u THEN R ELSE revision[x]
  BY <1>1, <1>3 DEF IInv, TypeOK
<1>5. TypeOK'
  BY <1>1, <1>3 DEF IInv, TypeOK
<1>6. OwnershipConsistent'
  BY <1>4 DEF IInv, OwnershipConsistent
<1>7. RevisionMirrorsRow'
  BY <1>4 DEF IInv, RevisionMirrorsRow
<1>8. ReviewHasSubmission'
  BY <1>4 DEF IInv, ReviewHasSubmission
<1>9. ASSUME NEW d \in Units, row[d].state = "APPROVED" PROVE row'[d] = row[d]
  BY <1>2, <1>4, <1>9
<1>10. SnapshotIsApproved'
  <2> SUFFICES ASSUME NEW x \in Units,
                      row'[x].state \notin {"ABSENT", "PENDING"},
                      NEW d \in DependsOn[x]
               PROVE  /\ row'[d].state = "APPROVED"
                      /\ row'[d].delivered # None
                      /\ row'[x].snapshot[d] = row'[d].delivered
    BY DEF SnapshotIsApproved
  <2>0. d \in Units
    BY ConstantsAssumption
  <2>1. CASE x = u /\ t.op = "claim"
    <3>1. ClaimIsCurrent(t)
      BY <2>1 DEF IInv, CallsOK, CallOK
    <3>2. /\ row[d].state = "APPROVED" /\ row[d].delivered # None
          /\ t.snapshot[d] = row[d].delivered
      BY <3>1, <2>1 DEF ClaimIsCurrent
    <3> QED
      BY <3>2, <2>0, <2>1, <1>4, <1>9
  <2>2. CASE x = u /\ t.op # "claim"
    <3>1. row[u].state \notin {"ABSENT", "PENDING"}
      BY <1>1, <2>2 DEF SeenState, Call, Operation
    <3>2. /\ row[d].state = "APPROVED" /\ row[d].delivered # None
          /\ row[u].snapshot[d] = row[d].delivered
      BY <3>1, <2>2 DEF IInv, SnapshotIsApproved
    <3> QED
      BY <3>2, <2>0, <2>2, <1>4, <1>9
  <2>3. CASE x # u
    <3>1. /\ row[d].state = "APPROVED" /\ row[d].delivered # None
          /\ row[x].snapshot[d] = row[d].delivered
      BY <2>3, <1>4 DEF IInv, SnapshotIsApproved
    <3> QED
      BY <3>1, <2>0, <2>3, <1>4, <1>9
  <2> QED
    BY <2>1, <2>2, <2>3
<1>11. CallsOK'
  <2> SUFFICES ASSUME NEW z \in Sessions, tx'[z] # NoTx
               PROVE  CallOK(tx[z])'
    BY DEF CallsOK
  <2>1. z # s /\ tx'[z] = tx[z]
    BY <1>3 DEF IInv, TypeOK
  <2> DEFINE c == tx[z]
  <2>2. c \in Call /\ c.unit \in Units /\ CallOK(c)
    BY <2>1 DEF IInv, TypeOK, CallsOK, Call
  <2>3. ArgumentsChecked(tx[z])'
    BY <2>1, <2>2 DEF CallOK, ArgumentsChecked
  <2>4. SeenIsCurrent(tx[z])'
    <3>1. CASE c.unit = u
      <4>1. row[u].updated_at \in Nat /\ c.seen.updated_at \in Nat
        BY <1>1, <2>2 DEF IInv, TypeOK, WorkUnit, Call
      <4>2. c.seen.updated_at <= row[u].updated_at
        BY <2>2, <3>1 DEF CallOK, SeenIsCurrent
      <4>3. row'[u].updated_at = row[u].updated_at + 1
        BY <1>4 DEF Now
      <4>4. /\ c.seen.updated_at <= row'[u].updated_at
            /\ c.seen.updated_at # row'[u].updated_at
        BY <4>1, <4>2, <4>3
      <4> QED
        BY <1>4, <2>1, <3>1, <4>4 DEF SeenIsCurrent
    <3>2. CASE c.unit # u
      BY <1>4, <2>1, <2>2, <3>2 DEF CallOK, SeenIsCurrent
    <3> QED
      BY <3>1, <3>2
  <2>5. ASSUME c.op = "claim" PROVE ClaimIsCurrent(tx[z])'
    <3>1. ClaimIsCurrent(c)
      BY <2>2, <2>5 DEF CallOK
    <3>2. \A d \in DependsOn[c.unit] : d \in Units
      BY <2>2, ConstantsAssumption
    <3>3. \A d \in DependsOn[c.unit] : row'[d] = row[d]
      BY <1>9, <3>1, <3>2 DEF ClaimIsCurrent
    <3>4. row'[c.unit].state = "PENDING" => c.seen = row'[c.unit]
      BY <1>4, <2>2, <3>1 DEF ClaimIsCurrent
    <3> QED
      BY <2>1, <3>1, <3>3, <3>4 DEF ClaimIsCurrent
  <2> QED
    BY <2>1, <2>3, <2>4, <2>5 DEF CallOK
<1> QED
  BY <1>5, <1>6, <1>7, <1>8, <1>10, <1>11 DEF IInv

\* Every operation's read leaves the inductive invariant true: its early
\* returns are exactly what CallOK remembers.
LEMMA ReadPreserves ==
  ASSUME IInv, NEW s \in Sessions, Read(s) PROVE IInv'
<1> USE ConstantsAssumption
<1>1. PICK u \in Units, w \in Actors :
        \/ ClaimRead(s, u, w)
        \/ \E lease \in LeaseIds(u) : HeartbeatRead(s, u, w, lease)
        \/ RecoverRead(s, u, w)
        \/ \E lease \in LeaseIds(u), v \in Versions :
               SubmitRead(s, u, w, lease, v)
        \/ \E v \in Versions, decision \in {"approve", "reject"} :
               ReviewRead(s, u, w, v, decision)
        \/ \E override \in BOOLEAN : ReworkRead(s, u, w, override)
  BY DEF Read
<1>2. /\ row[u] \in WorkUnit /\ row[u].updated_at \in Nat
      /\ \A d \in Units : row[d].delivered \in Versions \cup {None}
  BY DEF IInv, TypeOK, WorkUnit
<1>3. NoSnapshot \in [Units -> Versions \cup {None}]
  BY DEF NoSnapshot
<1>4. CASE ClaimRead(s, u, w)
  <2>1. ApprovedSnapshot(u) \in [Units -> Versions \cup {None}]
    BY <1>2 DEF ApprovedSnapshot
  <2>2. Open(s, "claim", u, w, ApprovedSnapshot(u), None, FALSE)
    BY <1>4 DEF ClaimRead
  <2>3. /\ row[u].state = "PENDING"
        /\ \A d \in DependsOn[u] : /\ row[d].state = "APPROVED"
                                   /\ row[d].delivered # None
                                   /\ ApprovedSnapshot(u)[d] = row[d].delivered
    BY <1>4 DEF ClaimRead, IsReady, HasApprovedVersions, ApprovedSnapshot
  <2>4. CallOK([op |-> "claim", unit |-> u, actor |-> w, seen |-> row[u],
                snapshot |-> ApprovedSnapshot(u), version |-> None,
                override |-> FALSE])
    BY <1>2, <1>4, <2>3 DEF ClaimRead, CallOK, SeenIsCurrent, ClaimIsCurrent,
                      ArgumentsChecked, SeenState
  <2> QED
    BY <2>1, <2>2, <2>4, OpenPreserves DEF Operation
<1>5. CASE \E lease \in LeaseIds(u) : HeartbeatRead(s, u, w, lease)
  <2>1. /\ Open(s, "heartbeat", u, w, NoSnapshot, None, FALSE)
        /\ row[u].state = "CLAIMED" /\ row[u].claimed_by = w
    BY <1>5 DEF HeartbeatRead, HoldsLease
  <2>2. CallOK([op |-> "heartbeat", unit |-> u, actor |-> w, seen |-> row[u],
                snapshot |-> NoSnapshot, version |-> None,
                override |-> FALSE])
    BY <1>2, <2>1 DEF CallOK, SeenIsCurrent, ArgumentsChecked, SeenState
  <2> QED
    BY <1>3, <2>1, <2>2, OpenPreserves DEF Operation
<1>6. CASE RecoverRead(s, u, w)
  <2>1. /\ Open(s, "recover", u, w, NoSnapshot, None, FALSE)
        /\ row[u].state = "CLAIMED" /\ IsWorkerEligible(u, w)
    BY <1>6 DEF RecoverRead
  <2>2. CallOK([op |-> "recover", unit |-> u, actor |-> w, seen |-> row[u],
                snapshot |-> NoSnapshot, version |-> None,
                override |-> FALSE])
    BY <1>2, <2>1 DEF CallOK, SeenIsCurrent, ArgumentsChecked, SeenState
  <2> QED
    BY <1>3, <2>1, <2>2, OpenPreserves DEF Operation
<1>7. CASE \E lease \in LeaseIds(u), v \in Versions :
             SubmitRead(s, u, w, lease, v)
  <2>1. PICK v \in Versions :
          /\ Open(s, "submit", u, w, NoSnapshot, v, FALSE)
          /\ row[u].state = "CLAIMED" /\ row[u].claimed_by = w
    BY <1>7 DEF SubmitRead, HoldsLease
  <2>2. CallOK([op |-> "submit", unit |-> u, actor |-> w, seen |-> row[u],
                snapshot |-> NoSnapshot, version |-> v,
                override |-> FALSE])
    BY <1>2, <2>1 DEF CallOK, SeenIsCurrent, ArgumentsChecked, SeenState
  <2> QED
    BY <1>3, <2>1, <2>2, OpenPreserves DEF Operation
<1>8. CASE \E v \in Versions, decision \in {"approve", "reject"} :
             ReviewRead(s, u, w, v, decision)
  <2>1. PICK v \in Versions, decision \in {"approve", "reject"} :
          /\ Open(s, decision, u, w, NoSnapshot, v, FALSE)
          /\ row[u].state = "AWAITING_REVIEW" /\ row[u].delivered = v
          /\ row[u].previous_worker # w
    BY <1>8 DEF ReviewRead
  <2>2. CallOK([op |-> decision, unit |-> u, actor |-> w, seen |-> row[u],
                snapshot |-> NoSnapshot, version |-> v,
                override |-> FALSE])
    BY <1>2, <2>1 DEF CallOK, SeenIsCurrent, ArgumentsChecked, SeenState
  <2>3. decision \in Operation
    BY DEF Operation
  <2> QED
    BY <1>3, <2>1, <2>2, <2>3, OpenPreserves
<1>9. CASE \E override \in BOOLEAN : ReworkRead(s, u, w, override)
  <2>1. PICK override \in BOOLEAN :
          /\ Open(s, "rework", u, w, NoSnapshot, None, override)
          /\ row[u].state = "REJECTED" /\ MayRework(u, w, override)
          /\ IsWorkerEligible(u, w)
    BY <1>9 DEF ReworkRead
  <2>2. row[u].previous_worker # None
    BY <2>1 DEF IInv, ReviewHasSubmission
  <2>3. CallOK([op |-> "rework", unit |-> u, actor |-> w, seen |-> row[u],
                snapshot |-> NoSnapshot, version |-> None,
                override |-> override])
    BY <1>2, <2>1, <2>2
       DEF CallOK, SeenIsCurrent, ArgumentsChecked, SeenState, MayRework
  <2> QED
    BY <1>3, <2>1, <2>3, OpenPreserves DEF Operation
<1> QED
  BY <1>1, <1>4, <1>5, <1>6, <1>7, <1>8, <1>9

\* Every operation's commit leaves the inductive invariant true.
LEMMA CommitsPreserve ==
  ASSUME IInv, NEW s \in Sessions, Commit(s) PROVE IInv'
<1> USE ConstantsAssumption
<1> DEFINE t == tx[s]
<1> DEFINE r == row[tx[s].unit]
<1>1. tx[s] # NoTx /\ CasMatches(tx[s])
  BY DEF Commit, ClaimCommit, HeartbeatCommit, RecoverCommit, SubmitCommit,
         ReviewCommit, ReworkCommit
<1>2. /\ t \in Call /\ t.seen = r /\ r.state = SeenState(t.op)
      /\ t.unit \in Units /\ t.actor \in Actors
      /\ t.version \in Versions \cup {None}
      /\ t.snapshot \in [Units -> Versions \cup {None}]
      /\ ArgumentsChecked(t)
  BY <1>1, CasSeesRow DEF Call, IInv, CallsOK, CallOK
<1>3. r \in WorkUnit /\ Now(t) \in Nat /\ Now(t) # 0
  BY <1>2 DEF IInv, TypeOK, WorkUnit, Now
<1>4. /\ r.state = "CLAIMED" <=> r.lease_id # 0
      /\ r.state = "CLAIMED" <=> r.claimed_by # None
      /\ r.lease_worker = r.claimed_by
      /\ r.state \in {"AWAITING_REVIEW", "REJECTED", "APPROVED"} =>
           r.delivered # None /\ r.previous_worker # None
  BY <1>2 DEF IInv, OwnershipConsistent, ReviewHasSubmission
<1>5. CASE ClaimCommit(s)
  <2> DEFINE R == Claimed(r, t)
  <2>1. Persist(s, R, R) /\ expired' = expired \ {t.unit} /\ t.op = "claim"
    BY <1>2, <1>5 DEF ClaimCommit, LeaseGranted
  <2>2. R \in WorkUnit
    BY <1>2, <1>3 DEF Claimed, WorkUnit, RowState, WorkUnitState
  <2>3. /\ R.state = "CLAIMED" /\ R.lease_id # 0 /\ R.claimed_by # None
        /\ R.lease_worker = R.claimed_by /\ R.updated_at = Now(t)
        /\ R.snapshot = t.snapshot
    BY <1>2, <1>3 DEF Claimed, WorkUnit
  <2> QED
    BY <1>1, <2>1, <2>2, <2>3, CommitPreserves
<1>6. CASE HeartbeatCommit(s)
  <2> DEFINE R == Renewed(r, t)
  <2>1. Persist(s, R, R) /\ expired' = expired \ {t.unit} /\ t.op = "heartbeat"
    BY <1>2, <1>6 DEF HeartbeatCommit, LeaseGranted
  <2>2. R \in WorkUnit
    BY <1>2, <1>3 DEF Renewed, WorkUnit
  <2>3. /\ R.state = "CLAIMED" /\ R.lease_id # 0 /\ R.claimed_by # None
        /\ R.lease_worker = R.claimed_by /\ R.updated_at = Now(t)
        /\ R.snapshot = r.snapshot
    BY <1>2, <1>3, <1>4, <2>1 DEF Renewed, WorkUnit, SeenState
  <2> QED
    BY <1>1, <2>1, <2>2, <2>3, CommitPreserves
<1>7. CASE RecoverCommit(s)
  <2> DEFINE R == Recovered(r, t)
  <2>1. Persist(s, R, R) /\ expired' = expired \ {t.unit} /\ t.op = "recover"
    BY <1>2, <1>7 DEF RecoverCommit, LeaseGranted
  <2>2. R \in WorkUnit
    BY <1>2, <1>3 DEF Recovered, WorkUnit
  <2>3. /\ R.state = "CLAIMED" /\ R.lease_id # 0 /\ R.claimed_by # None
        /\ R.lease_worker = R.claimed_by /\ R.updated_at = Now(t)
        /\ R.snapshot = r.snapshot
    BY <1>2, <1>3, <1>4, <2>1 DEF Recovered, WorkUnit, SeenState
  <2> QED
    BY <1>1, <2>1, <2>2, <2>3, CommitPreserves
<1>8. CASE SubmitCommit(s)
  <2> DEFINE R == Submitted(r, t)
  <2>1. Persist(s, R, R) /\ expired' = expired \ {t.unit} /\ t.op = "submit"
    BY <1>2, <1>8 DEF SubmitCommit
  <2>2. R \in WorkUnit
    BY <1>2, <1>3 DEF Submitted, WorkUnit, RowState, WorkUnitState
  <2>3. t.version # None
    BY <1>2, <2>1 DEF ArgumentsChecked
  <2>4. /\ R.state = "AWAITING_REVIEW" /\ R.lease_id = 0
        /\ R.claimed_by = None /\ R.lease_worker = None
        /\ R.delivered # None /\ R.previous_worker # None
        /\ R.updated_at = Now(t) /\ R.snapshot = r.snapshot
    BY <1>2, <1>3, <2>3 DEF Submitted, WorkUnit
  <2> QED
    BY <1>1, <2>1, <2>2, <2>4, CommitPreserves
<1>9. CASE ReviewCommit(s)
  <2> DEFINE R == Reviewed(r, t)
  <2>1. /\ Persist(s, R, R) /\ expired' = expired
        /\ t.op \in {"approve", "reject"}
    BY <1>2, <1>9 DEF ReviewCommit
  <2>2. R \in WorkUnit
    BY <1>2, <1>3 DEF Reviewed, WorkUnit, RowState, WorkUnitState
  <2>3. r.state = "AWAITING_REVIEW"
    BY <1>2, <2>1 DEF SeenState
  <2>4. /\ R.state \in {"APPROVED", "REJECTED"} /\ R.lease_id = 0
        /\ R.claimed_by = None /\ R.lease_worker = None
        /\ R.delivered # None /\ R.previous_worker # None
        /\ R.updated_at = Now(t) /\ R.snapshot = r.snapshot
    BY <1>3, <1>4, <2>3 DEF Reviewed, WorkUnit
  <2>5. t.unit \notin expired'
    BY <1>2, <2>1, <2>3 DEF IInv, OwnershipConsistent
  <2>6. t.op # "claim"
    BY <2>1
  <2> QED
    BY <1>1, <2>1, <2>2, <2>4, <2>5, <2>6, CommitPreserves
<1>10. CASE ReworkCommit(s)
  <2> DEFINE R == Reworked(r, t)
  <2>1. Persist(s, R, R) /\ expired' = expired \ {t.unit} /\ t.op = "rework"
    BY <1>2, <1>10 DEF ReworkCommit, LeaseGranted
  <2>0. t.seen.rework_attempts + 1 \in Nat
    BY <1>2, <1>3 DEF WorkUnit
  <2>2. R \in WorkUnit
    BY <1>2, <1>3, <2>0 DEF Reworked, WorkUnit, RowState, WorkUnitState
  <2>3. /\ R.state = "CLAIMED" /\ R.lease_id # 0 /\ R.claimed_by # None
        /\ R.lease_worker = R.claimed_by /\ R.updated_at = Now(t)
        /\ R.snapshot = r.snapshot
    BY <1>2, <1>3 DEF Reworked, WorkUnit
  <2> QED
    BY <1>1, <2>1, <2>2, <2>3, CommitPreserves
<1> QED
  BY <1>5, <1>6, <1>7, <1>8, <1>9, <1>10 DEF Commit

\* Adding a unit disturbs no other row, and no call is running on a unit
\* that had no row.
LEMMA AddPreserves ==
  ASSUME IInv, NEW u \in Units, Add(u) PROVE IInv'
<1> USE ConstantsAssumption
<1> DEFINE R == [AbsentRow EXCEPT !.state = "PENDING", !.updated_at = 1]
<1>1. /\ row[u].state = "ABSENT"
      /\ row' = [row EXCEPT ![u] = R]
      /\ revision' = [revision EXCEPT ![u] = R]
      /\ expired' = expired /\ tx' = tx
  BY DEF Add
<1>2. R \in WorkUnit
  BY DEF AbsentRow, WorkUnit, RowState, WorkUnitState, NoSnapshot
<1>3. /\ R.state = "PENDING" /\ R.claimed_by = None /\ R.lease_id = 0
      /\ R.lease_worker = None /\ R.updated_at = 1
  BY DEF AbsentRow
<1>4. /\ row'[u] = R
      /\ \A x \in Units : x # u => row'[x] = row[x]
      /\ \A x \in Units : revision'[x] = IF x = u THEN R ELSE revision[x]
  BY <1>1 DEF IInv, TypeOK
<1>5. TypeOK'
  BY <1>1, <1>2 DEF IInv, TypeOK
<1>6. OwnershipConsistent'
  BY <1>1, <1>3, <1>4 DEF IInv, OwnershipConsistent
<1>7. RevisionMirrorsRow' /\ ReviewHasSubmission'
  BY <1>3, <1>4 DEF IInv, RevisionMirrorsRow, ReviewHasSubmission
<1>8. SnapshotIsApproved'
  BY <1>1, <1>3, <1>4 DEF IInv, SnapshotIsApproved
<1>9. CallsOK'
  <2> SUFFICES ASSUME NEW z \in Sessions, tx[z] # NoTx
               PROVE  CallOK(tx[z])'
    BY <1>1 DEF CallsOK
  <2> DEFINE c == tx[z]
  <2>1. c \in Call /\ c.unit \in Units /\ CallOK(c) /\ tx'[z] = c
    BY <1>1 DEF IInv, TypeOK, CallsOK, Call
  <2>2. ArgumentsChecked(tx[z])'
    BY <2>1 DEF CallOK, ArgumentsChecked
  <2>3. c.unit # u
    BY <1>1, <2>1 DEF CallOK, SeenIsCurrent
  <2>4. SeenIsCurrent(tx[z])'
    BY <1>4, <2>1, <2>3 DEF CallOK, SeenIsCurrent
  <2>5. ASSUME c.op = "claim" PROVE ClaimIsCurrent(tx[z])'
    <3>1. ClaimIsCurrent(c)
      BY <2>1, <2>5 DEF CallOK
    <3>2. \A d \in DependsOn[c.unit] : d \in Units /\ d # u
      BY <1>1, <2>1, <3>1 DEF ClaimIsCurrent
    <3> QED
      BY <1>4, <2>1, <2>3, <3>1, <3>2 DEF ClaimIsCurrent
  <2> QED
    BY <2>1, <2>2, <2>4, <2>5 DEF CallOK
<1> QED
  BY <1>5, <1>6, <1>7, <1>8, <1>9 DEF IInv

\* The inductive step: every step of the queue preserves IInv.
LEMMA NextPreserves == IInv /\ [Next]_vars => IInv'
<1> SUFFICES ASSUME IInv, [Next]_vars PROVE IInv'
  OBVIOUS
<1>1. ASSUME NEW u \in Units, Add(u) PROVE IInv'
  BY <1>1, AddPreserves
<1>2. ASSUME NEW u \in Units, Expire(u) PROVE IInv'
  <2>1. /\ row[u].lease_id # 0 /\ expired' = expired \cup {u}
        /\ row' = row /\ revision' = revision /\ tx' = tx
    BY <1>2 DEF Expire
  <2>2. TypeOK' /\ OwnershipConsistent'
    BY <2>1 DEF IInv, TypeOK, OwnershipConsistent
  <2>3. SnapshotIsApproved' /\ RevisionMirrorsRow' /\ ReviewHasSubmission'
    BY <2>1 DEF IInv, SnapshotIsApproved, RevisionMirrorsRow,
                ReviewHasSubmission
  <2>4. CallsOK'
    BY <2>1 DEF IInv, CallsOK, CallOK, SeenIsCurrent, ClaimIsCurrent,
                ArgumentsChecked
  <2> QED
    BY <2>2, <2>3, <2>4 DEF IInv
<1>3. ASSUME NEW s \in Sessions, Read(s) PROVE IInv'
  BY <1>3, ReadPreserves
<1>4. ASSUME NEW s \in Sessions, Commit(s) PROVE IInv'
  BY <1>4, CommitsPreserve
<1>5. ASSUME NEW s \in Sessions, LoseCas(s) \/ Crash(s) PROVE IInv'
  <2>1. /\ tx' = [tx EXCEPT ![s] = NoTx]
        /\ row' = row /\ revision' = revision /\ expired' = expired
    BY <1>5 DEF LoseCas, Crash
  <2>2. TypeOK' /\ OwnershipConsistent'
    BY <2>1 DEF IInv, TypeOK, OwnershipConsistent
  <2>3. SnapshotIsApproved' /\ RevisionMirrorsRow' /\ ReviewHasSubmission'
    BY <2>1 DEF IInv, SnapshotIsApproved, RevisionMirrorsRow,
                ReviewHasSubmission
  <2>4. \A z \in Sessions : tx'[z] # NoTx => tx'[z] = tx[z]
    BY <2>1 DEF IInv, TypeOK
  <2>5. CallsOK'
    BY <2>1, <2>4 DEF IInv, CallsOK, CallOK, SeenIsCurrent, ClaimIsCurrent,
                      ArgumentsChecked
  <2> QED
    BY <2>2, <2>3, <2>5 DEF IInv
<1>6. CASE UNCHANGED vars
  <2>1. TypeOK' /\ OwnershipConsistent'
    BY <1>6 DEF vars, IInv, TypeOK, OwnershipConsistent
  <2>2. SnapshotIsApproved' /\ RevisionMirrorsRow' /\ ReviewHasSubmission'
    BY <1>6 DEF vars, IInv, SnapshotIsApproved, RevisionMirrorsRow,
                ReviewHasSubmission
  <2>3. CallsOK'
    BY <1>6 DEF vars, IInv, CallsOK, CallOK, SeenIsCurrent, ClaimIsCurrent,
                ArgumentsChecked
  <2> QED
    BY <2>1, <2>2, <2>3 DEF IInv
<1> QED
  BY <1>1, <1>2, <1>3, <1>4, <1>5, <1>6 DEF Next

\* The inductive invariant holds in every reachable state of the queue.
THEOREM InductiveInvariant == Spec => []IInv
  BY InitIInv, NextPreserves, PTL DEF Spec

\* Every reachable row, revision and call is well-formed.
THEOREM TypeCorrect == Spec => []TypeOK
<1>1. IInv => TypeOK
  BY DEF IInv
<1> QED
  BY InductiveInvariant, <1>1, PTL

\* For every set of sessions and every dependency relation, a unit that has
\* left PENDING carries the exact versions its dependencies are approved at.
THEOREM SnapshotSafety == Spec => []SnapshotIsApproved
<1>1. IInv => SnapshotIsApproved
  BY DEF IInv
<1> QED
  BY InductiveInvariant, <1>1, PTL

\* A unit is CLAIMED exactly when one worker owns it through one lease.
THEOREM OwnershipSafety == Spec => []OwnershipConsistent
<1>1. IInv => OwnershipConsistent
  BY DEF IInv
<1> QED
  BY InductiveInvariant, <1>1, PTL

\* The append-only history never disagrees with the projection it explains.
THEOREM ProvenanceSafety == Spec => []RevisionMirrorsRow
<1>1. IInv => RevisionMirrorsRow
  BY DEF IInv
<1> QED
  BY InductiveInvariant, <1>1, PTL

----------------------------------------------------------------------------
(* Action properties.                                                      *)

\* The only steps that change a row are the insertion of a new unit and the
\* commit of a call that still sees, and has checked, the row it changes.
LEMMA RowChange ==
  ASSUME IInv, [Next]_vars, NEW u \in Units, row'[u] # row[u],
         row[u].state # "ABSENT"
  PROVE  \E s \in Sessions :
           /\ tx[s] # NoTx /\ tx'[s] = NoTx
           /\ tx[s] \in Call /\ tx[s].unit = u
           /\ tx[s].seen = row[u] /\ row[u].state = SeenState(tx[s].op)
           /\ ArgumentsChecked(tx[s])
           /\ Commit(s)
<1>1. row' # row
  OBVIOUS
<1>2. PICK s \in Sessions : Commit(s)
  <2>1. ASSUME NEW x \in Units, Add(x) PROVE FALSE
    BY <2>1 DEF Add, IInv, TypeOK
  <2>2. ASSUME NEW x \in Units, Expire(x) PROVE FALSE
    BY <1>1, <2>2 DEF Expire
  <2>3. ASSUME NEW s \in Sessions, LoseCas(s) \/ Crash(s) PROVE FALSE
    BY <1>1, <2>3 DEF LoseCas, Crash
  <2>4. ASSUME NEW s \in Sessions, Read(s) PROVE FALSE
    BY <1>1, <2>4 DEF Read, ClaimRead, HeartbeatRead, RecoverRead,
       SubmitRead, ReviewRead, ReworkRead, Open
  <2>5. ~ UNCHANGED vars
    BY <1>1 DEF vars
  <2> QED
    BY <2>1, <2>2, <2>3, <2>4, <2>5 DEF Next
<1>3. /\ tx[s] # NoTx /\ CasMatches(tx[s])
      /\ \E R : Persist(s, R, R)
  <2>1. tx[s] # NoTx /\ CasMatches(tx[s])
    BY <1>2 DEF Commit, ClaimCommit, HeartbeatCommit, RecoverCommit,
       SubmitCommit, ReviewCommit, ReworkCommit
  <2>2. tx[s].seen = row[tx[s].unit]
    BY <2>1, CasSeesRow
  <2> QED
    BY <1>2, <2>1, <2>2 DEF Commit, ClaimCommit, HeartbeatCommit,
       RecoverCommit, SubmitCommit, ReviewCommit, ReworkCommit
<1>4. /\ tx[s] \in Call
      /\ tx[s].seen = row[tx[s].unit]
      /\ row[tx[s].unit].state = SeenState(tx[s].op)
  BY <1>3, CasSeesRow
<1>5. ArgumentsChecked(tx[s])
  BY <1>3 DEF IInv, CallsOK, CallOK
<1>6. tx'[s] = NoTx /\ tx[s].unit = u
  BY <1>3, <1>4 DEF Persist, IInv, TypeOK, Call
<1> QED
  BY <1>2, <1>3, <1>4, <1>5, <1>6

\* Approval is final, whatever sessions were running when it committed.
THEOREM ApprovalFinality == Spec => ApprovedIsFinal
<1>1. IInv /\ [Next]_vars
        => [\A u \in Units : row[u].state = "APPROVED" => row'[u] = row[u]]_vars
  <2> SUFFICES ASSUME IInv, [Next]_vars, NEW u \in Units,
                      row[u].state = "APPROVED", row'[u] # row[u]
               PROVE  FALSE
    OBVIOUS
  <2>1. PICK s \in Sessions : row[u].state = SeenState(tx[s].op)
    BY RowChange
  <2> QED
    BY <2>1 DEF SeenState
<1> QED
  BY InductiveInvariant, <1>1, PTL DEF Spec, ApprovedIsFinal

\* A review decision is about the artifact that is in the row when it is
\* stored, by somebody who did not submit that artifact.
THEOREM ReviewIndependence == Spec => ReviewOfExactArtifact
<1> DEFINE Step ==
      \A u \in Units :
         row[u].state = "AWAITING_REVIEW" /\ row'[u].state # "AWAITING_REVIEW" =>
           \E s \in Sessions :
             /\ tx[s] # NoTx /\ tx'[s] = NoTx
             /\ tx[s].unit = u
             /\ tx[s].version = row[u].delivered
             /\ tx[s].actor # row[u].previous_worker
             /\ row'[u].delivered = row[u].delivered
<1>1. IInv /\ [Next]_vars => [Step]_vars
  <2> SUFFICES ASSUME IInv, [Next]_vars, NEW u \in Units,
                      row[u].state = "AWAITING_REVIEW",
                      row'[u].state # "AWAITING_REVIEW"
               PROVE  \E s \in Sessions :
                        /\ tx[s] # NoTx /\ tx'[s] = NoTx
                        /\ tx[s].unit = u
                        /\ tx[s].version = row[u].delivered
                        /\ tx[s].actor # row[u].previous_worker
                        /\ row'[u].delivered = row[u].delivered
    OBVIOUS
  <2>1. PICK s \in Sessions :
          /\ tx[s] # NoTx /\ tx'[s] = NoTx
          /\ tx[s] \in Call /\ tx[s].unit = u
          /\ tx[s].seen = row[u] /\ row[u].state = SeenState(tx[s].op)
          /\ ArgumentsChecked(tx[s])
          /\ Commit(s)
    BY RowChange
  <2>2. tx[s].op \in {"approve", "reject"}
    BY <2>1 DEF SeenState, Call, Operation
  <2>3. tx[s].version = row[u].delivered /\ tx[s].actor # row[u].previous_worker
    BY <2>1, <2>2 DEF ArgumentsChecked
  <2>4. row'[u] = Reviewed(row[u], tx[s])
    BY <2>1, <2>2 DEF Commit, ClaimCommit, HeartbeatCommit, RecoverCommit,
       SubmitCommit, ReviewCommit, ReworkCommit, Persist, IInv, TypeOK
  <2>5. row[u] \in WorkUnit
    BY DEF IInv, TypeOK
  <2>6. row'[u].delivered = row[u].delivered
    BY <2>4, <2>5 DEF Reviewed, WorkUnit
  <2> QED
    BY <2>1, <2>3, <2>6
<1> QED
  BY InductiveInvariant, <1>1, PTL DEF Spec, ReviewOfExactArtifact

\* What each commit on a CLAIMED or REJECTED unit makes of its row.
LEMMA CommitWrites ==
  ASSUME IInv, NEW s \in Sessions, Commit(s)
  PROVE  /\ tx[s].op = "heartbeat" => row'[tx[s].unit] = Renewed(row[tx[s].unit], tx[s])
         /\ tx[s].op = "recover" => row'[tx[s].unit] = Recovered(row[tx[s].unit], tx[s])
         /\ tx[s].op = "submit" => row'[tx[s].unit] = Submitted(row[tx[s].unit], tx[s])
         /\ tx[s].op = "rework" => row'[tx[s].unit] = Reworked(row[tx[s].unit], tx[s])
<1>1. tx[s] # NoTx /\ tx[s] \in Call /\ tx[s].unit \in Units
  BY DEF Commit, ClaimCommit, HeartbeatCommit, RecoverCommit, SubmitCommit,
         ReviewCommit, ReworkCommit, IInv, TypeOK, Call
<1> QED
  BY <1>1 DEF Commit, ClaimCommit, HeartbeatCommit, RecoverCommit,
     SubmitCommit, ReviewCommit, ReworkCommit, Persist, IInv, TypeOK

\* Whatever commits, it commits on one unit: it moves that unit's stamp on by
\* one, ends the session's call, and takes no other unit off the expired ones.
LEMMA CommitFrame ==
  ASSUME IInv, NEW s \in Sessions, Commit(s)
  PROVE  /\ tx[s] # NoTx /\ tx[s] \in Call /\ tx[s].unit \in Units
         /\ tx' = [tx EXCEPT ![s] = NoTx]
         /\ row'[tx[s].unit].updated_at = row[tx[s].unit].updated_at + 1
         /\ row'[tx[s].unit].lease_id \in {0, row[tx[s].unit].lease_id,
                                           row[tx[s].unit].updated_at + 1}
         /\ \A x \in Units : x # tx[s].unit => row'[x] = row[x]
         /\ expired \ {tx[s].unit} \subseteq expired'
<1> DEFINE t == tx[s]
<1> DEFINE r == row[tx[s].unit]
<1>1. t # NoTx /\ t \in Call /\ t.unit \in Units
  BY DEF Commit, ClaimCommit, HeartbeatCommit, RecoverCommit, SubmitCommit,
         ReviewCommit, ReworkCommit, IInv, TypeOK, Call
<1>2. expired \ {t.unit} \subseteq expired'
  BY DEF Commit, ClaimCommit, HeartbeatCommit, RecoverCommit, SubmitCommit,
         ReviewCommit, ReworkCommit, LeaseGranted
<1>3. r \in WorkUnit
  BY <1>1 DEF IInv, TypeOK
<1>4. \E R \in {Claimed(r, t), Renewed(r, t), Recovered(r, t),
                Submitted(r, t), Reviewed(r, t), Reworked(r, t)} :
        /\ row' = [row EXCEPT ![t.unit] = R]
        /\ tx' = [tx EXCEPT ![s] = NoTx]
  BY DEF Commit, ClaimCommit, HeartbeatCommit, RecoverCommit, SubmitCommit,
         ReviewCommit, ReworkCommit, Persist
<1>5. \A R \in {Claimed(r, t), Renewed(r, t), Recovered(r, t),
                Submitted(r, t), Reviewed(r, t), Reworked(r, t)} :
        /\ R.updated_at = r.updated_at + 1
        /\ R.lease_id \in {0, r.lease_id, r.updated_at + 1}
  BY <1>3 DEF Claimed, Renewed, Recovered, Submitted, Reviewed, Reworked, Now,
              WorkUnit
<1> QED
  BY <1>1, <1>2, <1>4, <1>5 DEF IInv, TypeOK

\* A recovering session whose stamp is still the row's finds the lease still
\* expired: a renewal, a submission or another recovery moves the stamp.
RecoveryIsDue ==
    \A s \in Sessions :
        tx[s] # NoTx /\ tx[s].op = "recover"
          /\ row[tx[s].unit].updated_at = tx[s].seen.updated_at
            => tx[s].unit \in expired

\* Only an expired unit is opened for recovery, and the calls that were
\* running keep what they knew unless their unit is written.
LEMMA RecoveryStaysDue ==
  IInv /\ RecoveryIsDue /\ [Next]_vars => RecoveryIsDue'
<1> SUFFICES ASSUME IInv, RecoveryIsDue, [Next]_vars,
                    NEW z \in Sessions, tx'[z] # NoTx, tx'[z].op = "recover",
                    row'[tx'[z].unit].updated_at = tx'[z].seen.updated_at
             PROVE  tx'[z].unit \in expired'
  BY DEF RecoveryIsDue
<1> DEFINE c == tx[z]
<1>1. ASSUME c # NoTx, tx' = tx, row' = row, expired \subseteq expired'
      PROVE  tx'[z].unit \in expired'
  BY <1>1 DEF RecoveryIsDue
<1>2. ASSUME NEW u \in Units, Add(u) PROVE tx'[z].unit \in expired'
  <2>1. /\ row[u].state = "ABSENT" /\ tx' = tx /\ expired' = expired
        /\ \A x \in Units : x # u => row'[x] = row[x]
    BY <1>2 DEF Add, IInv, TypeOK
  <2>2. c \in Call /\ c.unit \in Units /\ c.unit # u
    BY <2>1 DEF IInv, TypeOK, Call, CallsOK, CallOK, SeenIsCurrent
  <2> QED
    BY <2>1, <2>2 DEF RecoveryIsDue
<1>3. ASSUME NEW u \in Units, Expire(u) PROVE tx'[z].unit \in expired'
  BY <1>1, <1>3 DEF Expire
<1>4. ASSUME NEW s \in Sessions, Read(s) PROVE tx'[z].unit \in expired'
  <2>1. row' = row /\ expired' = expired
    BY <1>4 DEF Read, ClaimRead, HeartbeatRead, RecoverRead, SubmitRead,
       ReviewRead, ReworkRead, Open
  <2>2. CASE z # s
    <3>1. tx'[z] = tx[z]
      BY <1>4, <2>2 DEF Read, ClaimRead, HeartbeatRead, RecoverRead,
         SubmitRead, ReviewRead, ReworkRead, Open, IInv, TypeOK
    <3> QED
      BY <2>1, <3>1 DEF RecoveryIsDue
  <2>3. CASE z = s
    <3>1. PICK u \in Units, w \in Actors : RecoverRead(s, u, w)
      BY <1>4, <2>3 DEF Read, ClaimRead, HeartbeatRead, SubmitRead,
         ReviewRead, ReworkRead, Open, IInv, TypeOK
    <3>2. tx'[z].unit = u /\ u \in expired
      BY <2>3, <3>1 DEF RecoverRead, Open, IInv, TypeOK
    <3> QED
      BY <2>1, <3>2
  <2> QED
    BY <2>2, <2>3
<1>5. ASSUME NEW s \in Sessions, Commit(s) PROVE tx'[z].unit \in expired'
  <2> DEFINE u == tx[s].unit
  <2>1. /\ tx' = [tx EXCEPT ![s] = NoTx]
        /\ u \in Units
        /\ row'[u].updated_at = row[u].updated_at + 1
        /\ \A x \in Units : x # u => row'[x] = row[x]
        /\ expired \ {u} \subseteq expired'
    BY <1>5, CommitFrame
  <2>2. z # s /\ tx'[z] = c
    BY <2>1 DEF IInv, TypeOK
  <2>3. c \in Call /\ c.unit \in Units /\ SeenIsCurrent(c)
    BY <2>2 DEF IInv, TypeOK, Call, CallsOK, CallOK
  <2>4. row[u].updated_at \in Nat /\ c.seen.updated_at \in Nat
    BY <2>1, <2>3 DEF IInv, TypeOK, WorkUnit, Call
  <2>5. c.unit # u
    BY <2>1, <2>2, <2>3, <2>4 DEF SeenIsCurrent
  <2> QED
    BY <2>1, <2>2, <2>3, <2>5 DEF RecoveryIsDue
<1>6. ASSUME NEW s \in Sessions, LoseCas(s) \/ Crash(s)
      PROVE  tx'[z].unit \in expired'
  <2>1. row' = row /\ expired' = expired /\ tx'[z] = tx[z]
    BY <1>6 DEF LoseCas, Crash, IInv, TypeOK
  <2> QED
    BY <2>1 DEF RecoveryIsDue
<1>7. CASE UNCHANGED vars
  BY <1>1, <1>7 DEF vars
<1> QED
  BY <1>2, <1>3, <1>4, <1>5, <1>6, <1>7 DEF Next

\* An active lease is never stolen, for any number of sessions: the owner of a
\* CLAIMED unit is replaced only while its lease is expired.
THEOREM LeaseSafety == Spec => LeaseNotStolen
<1> DEFINE Step ==
      \A u \in Units :
         row[u].state = "CLAIMED" /\ row'[u].lease_id # row[u].lease_id
            => \/ u \in expired
               \/ row'[u].state # "CLAIMED"
<1>1. IInv /\ RecoveryIsDue /\ [Next]_vars => [Step]_vars
  <2> SUFFICES ASSUME IInv, RecoveryIsDue, [Next]_vars, NEW u \in Units,
                      row[u].state = "CLAIMED",
                      row'[u].lease_id # row[u].lease_id,
                      row'[u].state = "CLAIMED"
               PROVE  u \in expired
    OBVIOUS
  <2>1. PICK s \in Sessions :
          /\ tx[s] # NoTx /\ tx[s] \in Call /\ tx[s].unit = u
          /\ tx[s].seen = row[u] /\ row[u].state = SeenState(tx[s].op)
          /\ Commit(s)
    BY RowChange
  <2>2. tx[s].op \in {"heartbeat", "recover", "submit"}
    BY <2>1 DEF SeenState, Call, Operation
  <2>3. row[u] \in WorkUnit
    BY DEF IInv, TypeOK
  <2>4. tx[s].op # "heartbeat"
    BY <2>1, <2>3, CommitWrites DEF Renewed, WorkUnit
  <2>5. tx[s].op # "submit"
    BY <2>1, <2>3, CommitWrites DEF Submitted, WorkUnit
  <2> QED
    BY <2>1, <2>2, <2>4, <2>5 DEF RecoveryIsDue
<1>2. Init => RecoveryIsDue
  BY DEF Init, RecoveryIsDue
<1> QED
  BY InductiveInvariant, RecoveryStaysDue, <1>1, <1>2, PTL
     DEF Spec, LeaseNotStolen

\* A lease id names a write that has already happened to its row, so the one
\* a recovery or a rework issues is new.
LeaseIdIsPast == \A u \in Units : row[u].lease_id <= row[u].updated_at

\* Only an insertion and a commit write a row, and the lease a commit leaves
\* is none, the one that was there, or the number of the commit itself.
LEMMA LeaseIdStaysPast ==
  IInv /\ LeaseIdIsPast /\ [Next]_vars => LeaseIdIsPast'
<1> SUFFICES ASSUME IInv, LeaseIdIsPast, [Next]_vars, NEW u \in Units
             PROVE  row'[u].lease_id <= row'[u].updated_at
  BY DEF LeaseIdIsPast
<1>1. /\ row[u].lease_id <= row[u].updated_at
      /\ row[u].lease_id \in Nat /\ row[u].updated_at \in Nat
  BY DEF LeaseIdIsPast, IInv, TypeOK, WorkUnit
<1>2. CASE row'[u] = row[u]
  BY <1>1, <1>2
<1>3. CASE row'[u] # row[u] /\ row[u].state # "ABSENT"
  <2>1. PICK s \in Sessions : tx[s].unit = u /\ Commit(s)
    BY <1>3, RowChange
  <2>2. /\ row'[u].updated_at = row[u].updated_at + 1
        /\ row'[u].lease_id \in {0, row[u].lease_id, row[u].updated_at + 1}
    BY <2>1, CommitFrame
  <2> QED
    BY <1>1, <2>2
<1>4. CASE row'[u] # row[u] /\ row[u].state = "ABSENT"
  <2>1. ASSUME NEW x \in Units, Add(x)
        PROVE  row'[u].lease_id <= row'[u].updated_at
    <3>1. row'[x] = [AbsentRow EXCEPT !.state = "PENDING", !.updated_at = 1]
      BY <2>1 DEF Add, IInv, TypeOK
    <3>2. row'[x].lease_id = 0 /\ row'[x].updated_at = 1
      BY <3>1 DEF AbsentRow
    <3>3. u = x
      BY <1>4, <2>1 DEF Add, IInv, TypeOK
    <3> QED
      BY <3>2, <3>3
  <2>2. ASSUME NEW x \in Units, Expire(x) PROVE FALSE
    BY <1>4, <2>2 DEF Expire
  <2>3. ASSUME NEW s \in Sessions, LoseCas(s) \/ Crash(s) PROVE FALSE
    BY <1>4, <2>3 DEF LoseCas, Crash
  <2>4. ASSUME NEW s \in Sessions, Read(s) PROVE FALSE
    BY <1>4, <2>4 DEF Read, ClaimRead, HeartbeatRead, RecoverRead,
       SubmitRead, ReviewRead, ReworkRead, Open
  <2>5. ASSUME NEW s \in Sessions, Commit(s) PROVE FALSE
    <3>1. tx[s] # NoTx /\ CasMatches(tx[s])
      BY <2>5 DEF Commit, ClaimCommit, HeartbeatCommit, RecoverCommit,
         SubmitCommit, ReviewCommit, ReworkCommit
    <3>2. row[tx[s].unit].state # "ABSENT"
      BY <3>1, CasSeesRow DEF SeenState
    <3> QED
      BY <1>4, <2>5, <3>2, CommitFrame
  <2> QED
    BY <1>4, <2>1, <2>2, <2>3, <2>4, <2>5 DEF Next, vars
<1> QED
  BY <1>2, <1>3, <1>4

\* A lease is renewed or given up only by a call of the worker that holds it,
\* which presented the token of the lease that is in the row at its commit.
THEOREM LeaseFencing == Spec => LeaseIsFenced
<1> DEFINE ByHolder(u, op) ==
      \E s \in Sessions :
         /\ tx[s] # NoTx /\ tx'[s] = NoTx
         /\ tx[s].op = op /\ tx[s].unit = u
         /\ tx[s].actor = row[u].claimed_by
         /\ tx[s].seen.lease_id = row[u].lease_id
<1> DEFINE Step ==
      \A u \in Units :
         row[u].state = "CLAIMED" /\ row'[u] # row[u] =>
           /\ row'[u].state # "CLAIMED" => ByHolder(u, "submit")
           /\ row'[u].state = "CLAIMED" /\ row'[u].lease_id = row[u].lease_id
                => ByHolder(u, "heartbeat")
<1>1. IInv /\ LeaseIdIsPast /\ [Next]_vars => [Step]_vars
  <2> SUFFICES ASSUME IInv, LeaseIdIsPast, [Next]_vars, NEW u \in Units,
                      row[u].state = "CLAIMED", row'[u] # row[u]
               PROVE  /\ row'[u].state # "CLAIMED" => ByHolder(u, "submit")
                      /\ row'[u].state = "CLAIMED"
                           /\ row'[u].lease_id = row[u].lease_id
                             => ByHolder(u, "heartbeat")
    OBVIOUS
  <2>1. PICK s \in Sessions :
          /\ tx[s] # NoTx /\ tx'[s] = NoTx
          /\ tx[s] \in Call /\ tx[s].unit = u
          /\ tx[s].seen = row[u] /\ row[u].state = SeenState(tx[s].op)
          /\ ArgumentsChecked(tx[s])
          /\ Commit(s)
    BY RowChange
  <2>2. tx[s].op \in {"heartbeat", "recover", "submit"}
    BY <2>1 DEF SeenState, Call, Operation
  <2>3. row[u] \in WorkUnit /\ row[u].updated_at \in Nat
    BY DEF IInv, TypeOK, WorkUnit
  <2>4. CASE tx[s].op = "submit"
    <3>1. row'[u].state # "CLAIMED"
      BY <2>1, <2>3, <2>4, CommitWrites DEF Submitted, WorkUnit
    <3>2. ByHolder(u, "submit")
      BY <2>1, <2>4 DEF ArgumentsChecked
    <3> QED
      BY <3>1, <3>2
  <2>5. CASE tx[s].op = "heartbeat"
    <3>1. row'[u].state = "CLAIMED"
      BY <2>1, <2>3, <2>5, CommitWrites DEF Renewed, WorkUnit
    <3>2. ByHolder(u, "heartbeat")
      BY <2>1, <2>5 DEF ArgumentsChecked
    <3> QED
      BY <3>1, <3>2
  <2>6. CASE tx[s].op = "recover"
    <3>1. /\ row'[u].state = "CLAIMED"
          /\ row'[u].lease_id = row[u].updated_at + 1
      BY <2>1, <2>3, <2>6, CommitWrites DEF Recovered, Now, WorkUnit
    <3>2. row'[u].lease_id # row[u].lease_id
      BY <2>3, <3>1 DEF LeaseIdIsPast, WorkUnit
    <3> QED
      BY <3>1, <3>2
  <2> QED
    BY <2>2, <2>4, <2>5, <2>6
<1>2. Init => LeaseIdIsPast
  <2> SUFFICES ASSUME Init, NEW u \in Units
               PROVE  row[u].lease_id <= row[u].updated_at
    BY DEF LeaseIdIsPast
  <2>1. row[u].lease_id = 0 /\ row[u].updated_at = 0
    BY DEF Init, AbsentRow
  <2> QED
    BY <2>1
<1> QED
  BY InductiveInvariant, LeaseIdStaysPast, <1>1, <1>2, PTL DEF Spec, LeaseIsFenced

\* The first rework goes to the submitter unless the orchestrator overrode
\* the preference, and each rework is counted exactly once.
THEOREM ReworkSafety == Spec => ReworkReservedAndCounted
<1> DEFINE Step ==
      \A u \in Units :
         row[u].state = "REJECTED" /\ row'[u] # row[u] =>
           /\ row'[u].rework_attempts = row[u].rework_attempts + 1
           /\ row[u].rework_attempts = 0 =>
                \/ row'[u].claimed_by = row[u].previous_worker
                \/ \E s \in Sessions : tx[s] # NoTx /\ tx'[s] = NoTx
                                       /\ tx[s].unit = u /\ tx[s].override
<1>1. IInv /\ [Next]_vars => [Step]_vars
  <2> SUFFICES ASSUME IInv, [Next]_vars, NEW u \in Units,
                      row[u].state = "REJECTED", row'[u] # row[u]
               PROVE  /\ row'[u].rework_attempts = row[u].rework_attempts + 1
                      /\ row[u].rework_attempts = 0 =>
                           \/ row'[u].claimed_by = row[u].previous_worker
                           \/ \E s \in Sessions :
                                 tx[s] # NoTx /\ tx'[s] = NoTx
                                 /\ tx[s].unit = u /\ tx[s].override
    OBVIOUS
  <2>1. PICK s \in Sessions :
          /\ tx[s] # NoTx /\ tx'[s] = NoTx
          /\ tx[s] \in Call /\ tx[s].unit = u
          /\ tx[s].seen = row[u] /\ row[u].state = SeenState(tx[s].op)
          /\ ArgumentsChecked(tx[s])
          /\ Commit(s)
    BY RowChange
  <2>2. tx[s].op = "rework"
    BY <2>1 DEF SeenState, Call, Operation
  <2>3. row[u] \in WorkUnit
    BY DEF IInv, TypeOK
  <2>4. /\ row'[u].rework_attempts = row[u].rework_attempts + 1
        /\ row'[u].claimed_by = tx[s].actor
    <3>1. row'[u] = Reworked(row[u], tx[s])
      BY <2>1, <2>2, CommitWrites
    <3> QED
      BY <2>1, <2>3, <3>1 DEF Reworked, WorkUnit
  <2>5. CASE tx[s].override
    BY <2>1, <2>4, <2>5
  <2>6. CASE ~tx[s].override
    <3>1. tx[s].seen.rework_attempts = 0 => tx[s].actor = tx[s].seen.previous_worker
      BY <2>1, <2>2, <2>6, Zenon DEF ArgumentsChecked
    <3> QED
      BY <2>1, <2>4, <3>1
  <2> QED
    BY <2>5, <2>6
<1> QED
  BY InductiveInvariant, <1>1, PTL DEF Spec, ReworkReservedAndCounted

----------------------------------------------------------------------------
(* The refinement: every commit is one operation of the atomic queue.      *)

\* A write of one row, seen without stamp and lease id, is a change of one
\* item of the atomic queue.
LEMMA WriteIsBecomes ==
  ASSUME IInv, NEW u \in Units, NEW R, NEW j, j = Item(R),
         row' = [row EXCEPT ![u] = R], expired' = expired \ {u}
  PROVE  Atomic!Becomes(u, j)
<1>1. row' = [x \in Units |-> IF x = u THEN R ELSE row[x]]
  BY DEF IInv, TypeOK
<1>2. [x \in Units |-> Item(row[x])]'
        = [[x \in Units |-> Item(row[x])] EXCEPT ![u] = j]
  BY <1>1
<1> QED
  BY <1>2 DEF Atomic!Becomes

\* A unit nobody holds has no expired lease, so a call that leaves the leases
\* alone also leaves them as the atomic operation does.
LEMMA UnheldIsLive ==
  ASSUME IInv, NEW u \in Units, row[u].state # "CLAIMED"
  PROVE  expired \ {u} = expired
  BY DEF IInv, OwnershipConsistent

\* Two items with the same fields are the same item.
LEMMA SameItem ==
  ASSUME NEW e, NEW f,
         DOMAIN e = {"state", "owner", "input", "artifact", "previous", "reworks"},
         DOMAIN f = DOMAIN e,
         e = [x \in DOMAIN e |-> e[x]], f = [x \in DOMAIN f |-> f[x]],
         e.state = f.state, e.owner = f.owner, e.input = f.input,
         e.artifact = f.artifact, e.previous = f.previous, e.reworks = f.reworks
  PROVE  e = f
  OBVIOUS

\* The item a claim leaves: the columns it sets, and the others as they were.
LEMMA ItemClaimed ==
  ASSUME NEW r \in WorkUnit, NEW t
  PROVE  Item(Claimed(r, t)) =
           [Item(r) EXCEPT !.state = "CLAIMED", !.owner = t.actor,
                                  !.input = t.snapshot]
<1> DEFINE e == Item(Claimed(r, t))
<1> DEFINE f == [Item(r) EXCEPT !.state = "CLAIMED", !.owner = t.actor,
                          !.input = t.snapshot]
<1>1. /\ e.state = f.state /\ e.owner = f.owner /\ e.input = f.input
      /\ e.artifact = f.artifact /\ e.previous = f.previous
      /\ e.reworks = f.reworks
  BY DEF Item, Claimed, WorkUnit
<1>2. /\ DOMAIN e = {"state", "owner", "input", "artifact", "previous", "reworks"}
      /\ DOMAIN f = DOMAIN e
      /\ e = [x \in DOMAIN e |-> e[x]] /\ f = [x \in DOMAIN f |-> f[x]]
  BY DEF Item
<1> HIDE DEF e, f
<1>3. e = f
  BY <1>1, <1>2, SameItem
<1> QED
  BY <1>3 DEF e, f

\* The item a recovery leaves: the columns it sets, and the others as they were.
LEMMA ItemRecovered ==
  ASSUME NEW r \in WorkUnit, NEW t
  PROVE  Item(Recovered(r, t)) =
           [Item(r) EXCEPT !.owner = t.actor, !.previous = t.seen.claimed_by]
<1> DEFINE e == Item(Recovered(r, t))
<1> DEFINE f == [Item(r) EXCEPT !.owner = t.actor, !.previous = t.seen.claimed_by]
<1>1. /\ e.state = f.state /\ e.owner = f.owner /\ e.input = f.input
      /\ e.artifact = f.artifact /\ e.previous = f.previous
      /\ e.reworks = f.reworks
  BY DEF Item, Recovered, WorkUnit
<1>2. /\ DOMAIN e = {"state", "owner", "input", "artifact", "previous", "reworks"}
      /\ DOMAIN f = DOMAIN e
      /\ e = [x \in DOMAIN e |-> e[x]] /\ f = [x \in DOMAIN f |-> f[x]]
  BY DEF Item
<1> HIDE DEF e, f
<1>3. e = f
  BY <1>1, <1>2, SameItem
<1> QED
  BY <1>3 DEF e, f

\* The item a submission leaves: the columns it sets, and the others as they were.
LEMMA ItemSubmitted ==
  ASSUME NEW r \in WorkUnit, NEW t
  PROVE  Item(Submitted(r, t)) =
           [Item(r) EXCEPT !.state = "AWAITING_REVIEW", !.owner = None,
                                  !.artifact = t.version, !.previous = t.actor]
<1> DEFINE e == Item(Submitted(r, t))
<1> DEFINE f == [Item(r) EXCEPT !.state = "AWAITING_REVIEW", !.owner = None,
                          !.artifact = t.version, !.previous = t.actor]
<1>1. /\ e.state = f.state /\ e.owner = f.owner /\ e.input = f.input
      /\ e.artifact = f.artifact /\ e.previous = f.previous
      /\ e.reworks = f.reworks
  BY DEF Item, Submitted, WorkUnit
<1>2. /\ DOMAIN e = {"state", "owner", "input", "artifact", "previous", "reworks"}
      /\ DOMAIN f = DOMAIN e
      /\ e = [x \in DOMAIN e |-> e[x]] /\ f = [x \in DOMAIN f |-> f[x]]
  BY DEF Item
<1> HIDE DEF e, f
<1>3. e = f
  BY <1>1, <1>2, SameItem
<1> QED
  BY <1>3 DEF e, f

\* The item a rework claim leaves: the columns it sets, and the others as they were.
LEMMA ItemReworked ==
  ASSUME NEW r \in WorkUnit, NEW t
  PROVE  Item(Reworked(r, t)) =
           [Item(r) EXCEPT !.state = "CLAIMED", !.owner = t.actor,
                                  !.artifact = None, !.reworks = t.seen.rework_attempts + 1]
<1> DEFINE e == Item(Reworked(r, t))
<1> DEFINE f == [Item(r) EXCEPT !.state = "CLAIMED", !.owner = t.actor,
                          !.artifact = None, !.reworks = t.seen.rework_attempts + 1]
<1>1. /\ e.state = f.state /\ e.owner = f.owner /\ e.input = f.input
      /\ e.artifact = f.artifact /\ e.previous = f.previous
      /\ e.reworks = f.reworks
  BY DEF Item, Reworked, WorkUnit
<1>2. /\ DOMAIN e = {"state", "owner", "input", "artifact", "previous", "reworks"}
      /\ DOMAIN f = DOMAIN e
      /\ e = [x \in DOMAIN e |-> e[x]] /\ f = [x \in DOMAIN f |-> f[x]]
  BY DEF Item
<1> HIDE DEF e, f
<1>3. e = f
  BY <1>1, <1>2, SameItem
<1> QED
  BY <1>3 DEF e, f

\* Storing a new unit is the atomic insertion.
LEMMA AddIsAtomic ==
  ASSUME IInv, NEW u \in Units, Add(u)
  PROVE  Atomic!Add(u)
<1> DEFINE R == [AbsentRow EXCEPT !.state = "PENDING", !.updated_at = 1]
<1>1. row[u].state = "ABSENT" /\ row' = [row EXCEPT ![u] = R] /\ expired' = expired
  BY DEF Add
<1>2. expired' = expired \ {u}
  BY <1>1, UnheldIsLive
<1>3. Item(R) = [Atomic!Absent EXCEPT !.state = "PENDING"]
  BY DEF Item, AbsentRow, NoSnapshot, Atomic!Absent, Atomic!NoInput
<1>4. Atomic!Becomes(u, Item(R))
  BY <1>1, <1>2, WriteIsBecomes
<1>5. [x \in Units |-> Item(row[x])][u].state = "ABSENT"
  BY <1>1 DEF Item
<1> QED
  BY <1>3, <1>4, <1>5 DEF Atomic!Add

\* Whatever call commits, the row it changes is the one its early returns
\* looked at, so the call is the atomic operation of its name; a recovery
\* still finds its lease expired.
LEMMA CommitIsAtomic ==
  ASSUME IInv, RecoveryIsDue, NEW s \in Sessions, Commit(s)
  PROVE  \E u \in Units, w \in Actors :
           \/ Atomic!Claim(u, w)
           \/ Atomic!Renew(u, w)
           \/ Atomic!Recover(u, w)
           \/ \E v \in Versions :
                \/ Atomic!Submit(u, w, v)
                \/ \E verdict \in {"APPROVED", "REJECTED"} :
                     Atomic!Review(u, w, v, verdict)
           \/ \E override \in BOOLEAN : Atomic!Rework(u, w, override)
<1> USE ConstantsAssumption
<1>0. tx[s] # NoTx /\ CasMatches(tx[s])
  BY DEF Commit, ClaimCommit, HeartbeatCommit, RecoverCommit, SubmitCommit,
         ReviewCommit, ReworkCommit
<1>1. PICK t \in Call : t = tx[s]
  BY <1>0, CasSeesRow
<1>2. PICK u \in Units : u = t.unit
  BY DEF Call
<1>3. PICK w \in Actors : w = t.actor
  BY DEF Call
<1>4. PICK r \in WorkUnit : r = row[u]
  BY DEF IInv, TypeOK
<1>5. /\ t.seen = r /\ r.state = SeenState(t.op)
      /\ ArgumentsChecked(t)
      /\ t.op = "claim" => ClaimIsCurrent(t)
  BY <1>0, <1>1, <1>2, <1>4, CasSeesRow DEF IInv, CallsOK, CallOK
<1> DEFINE i == [x \in Units |-> Item(row[x])]
<1>6. /\ i[u].state = r.state /\ i[u].owner = r.claimed_by
      /\ i[u].artifact = r.delivered /\ i[u].previous = r.previous_worker
      /\ i[u].reworks = r.rework_attempts
      /\ i[u] = Item(r)
  BY <1>4 DEF Item
<1>7. CASE ClaimCommit(s)
  <2>1. PICK R : R = Claimed(r, t)
    OBVIOUS
  <2>2. /\ t.op = "claim" /\ row' = [row EXCEPT ![u] = R]
        /\ expired' = expired \ {u}
    BY <1>1, <1>2, <1>4, <1>7, <2>1 DEF ClaimCommit, Persist, LeaseGranted
  <2>3. PICK j : j = Item(R)
    OBVIOUS
  <2>4. j = [i[u] EXCEPT !.state = "CLAIMED", !.owner = w,
                                     !.input = t.snapshot]
    <3> HIDE DEF i
    <3> QED
      BY <1>3, <1>6, <2>1, <2>3, ItemClaimed
  <2>5. Atomic!Becomes(u, j)
    BY <2>2, <2>3, WriteIsBecomes
  <2>6. /\ i[u].state = "PENDING" /\ IsWorkerEligible(u, w)
        /\ t.snapshot \in [Units -> Versions \cup {None}]
    BY <1>2, <1>3, <1>5, <1>6, <2>2 DEF SeenState, ArgumentsChecked, Call
  <2>7. \A d \in DependsOn[u] :
          /\ i[d].state = "APPROVED" /\ i[d].artifact # None
          /\ t.snapshot[d] = i[d].artifact
    BY <1>2, <1>5, <2>2 DEF ClaimIsCurrent, Item
  <2> HIDE DEF i
  <2>8. \E input \in [Units -> Versions \cup {None}] :
          /\ \A d \in DependsOn[u] : input[d] = i[d].artifact
          /\ Atomic!Becomes(u, [i[u] EXCEPT !.state = "CLAIMED", !.owner = w,
                                            !.input = input])
    BY <2>4, <2>5, <2>6, <2>7
  <2> USE DEF i
  <2>9. Atomic!Claim(u, w)
    BY <2>6, <2>7, <2>8 DEF Atomic!Claim, Atomic!Eligible, IsWorkerEligible
  <2> QED
    BY <2>9
<1>8. CASE HeartbeatCommit(s)
  <2>1. PICK R : R = Renewed(r, t)
    OBVIOUS
  <2>2. /\ t.op = "heartbeat" /\ row' = [row EXCEPT ![u] = R]
        /\ expired' = expired \ {u}
    BY <1>1, <1>2, <1>4, <1>8, <2>1 DEF HeartbeatCommit, Persist, LeaseGranted
  <2>3. i[u] = Item(R)
    BY <1>6, <2>1 DEF Item, Renewed, WorkUnit
  <2>4. i[u].state = "CLAIMED" /\ i[u].owner = w
    BY <1>3, <1>5, <1>6, <2>2 DEF SeenState, ArgumentsChecked
  <2>5. Atomic!Becomes(u, i[u])
    BY <2>2, <2>3, WriteIsBecomes
  <2>6. Atomic!Renew(u, w)
    BY <2>4, <2>5 DEF Atomic!Renew
  <2> QED
    BY <2>6
<1>9. CASE RecoverCommit(s)
  <2>1. PICK R : R = Recovered(r, t)
    OBVIOUS
  <2>2. /\ t.op = "recover" /\ row' = [row EXCEPT ![u] = R]
        /\ expired' = expired \ {u}
    BY <1>1, <1>2, <1>4, <1>9, <2>1 DEF RecoverCommit, Persist, LeaseGranted
  <2>3. PICK j : j = Item(R)
    OBVIOUS
  <2>4. j = [i[u] EXCEPT !.owner = w, !.previous = i[u].owner]
    <3>1. t.seen.claimed_by = i[u].owner
      BY <1>5, <1>6
    <3>2. PICK p : p = t.seen.claimed_by
      OBVIOUS
    <3> HIDE DEF i
    <3>3. j = [i[u] EXCEPT !.owner = w, !.previous = p]
      BY <1>3, <1>6, <2>1, <2>3, <3>2, ItemRecovered
    <3> QED
      BY <3>1, <3>2, <3>3, Zenon
  <2>5. i[u].state = "CLAIMED" /\ IsWorkerEligible(u, w)
    BY <1>2, <1>3, <1>5, <1>6, <2>2 DEF SeenState, ArgumentsChecked
  <2>6. u \in expired
    BY <1>0, <1>1, <1>2, <1>4, <1>5, <2>2 DEF RecoveryIsDue
  <2>7. Atomic!Becomes(u, j)
    BY <2>2, <2>3, WriteIsBecomes
  <2>8. Atomic!Recover(u, w)
    BY <2>4, <2>5, <2>6, <2>7 DEF Atomic!Recover, Atomic!Eligible, IsWorkerEligible
  <2> QED
    BY <2>8
<1>10. CASE SubmitCommit(s)
  <2>1. PICK R : R = Submitted(r, t)
    OBVIOUS
  <2>2. /\ t.op = "submit" /\ row' = [row EXCEPT ![u] = R]
        /\ expired' = expired \ {u}
    BY <1>1, <1>2, <1>4, <1>10, <2>1 DEF SubmitCommit, Persist
  <2>3. PICK v \in Versions : v = t.version
    BY <1>5, <2>2 DEF ArgumentsChecked, Call
  <2>4. PICK j : j = Item(R)
    OBVIOUS
  <2>5. j = [i[u] EXCEPT !.state = "AWAITING_REVIEW",
                                     !.owner = None, !.artifact = v,
                                     !.previous = w]
    <3> HIDE DEF i
    <3> QED
      BY <1>3, <1>6, <2>1, <2>3, <2>4, ItemSubmitted
  <2>6. i[u].state = "CLAIMED" /\ i[u].owner = w
    BY <1>3, <1>5, <1>6, <2>2 DEF SeenState, ArgumentsChecked
  <2>7. Atomic!Becomes(u, j)
    BY <2>2, <2>4, WriteIsBecomes
  <2>8. Atomic!Submit(u, w, v)
    BY <2>5, <2>6, <2>7 DEF Atomic!Submit
  <2> QED
    BY <2>8
<1>11. CASE ReviewCommit(s)
  <2>1. PICK R : R = Reviewed(r, t)
    OBVIOUS
  <2>2. /\ t.op \in {"approve", "reject"}
        /\ row' = [row EXCEPT ![u] = R]
        /\ expired' = expired
    BY <1>1, <1>2, <1>4, <1>11, <2>1 DEF ReviewCommit, Persist
  <2>3. i[u].state = "AWAITING_REVIEW" /\ r.state = "AWAITING_REVIEW"
    BY <1>5, <1>6, <2>2 DEF SeenState
  <2>4. /\ t.version = r.delivered /\ w # r.previous_worker
        /\ r.delivered # None
    BY <1>3, <1>4, <1>5, <2>2, <2>3
       DEF ArgumentsChecked, IInv, ReviewHasSubmission
  <2>5. PICK v \in Versions : v = i[u].artifact
    BY <1>6, <2>4 DEF WorkUnit
  <2>6. PICK verdict \in {"APPROVED", "REJECTED"} :
          verdict = IF t.op = "approve" THEN "APPROVED" ELSE "REJECTED"
    OBVIOUS
  <2>7. PICK j : j = Item(R)
    OBVIOUS
  <2>8. j = [i[u] EXCEPT !.state = verdict]
    <3>1. Item(R) = [Item(r) EXCEPT !.state = verdict]
      BY <2>1, <2>6 DEF Item, Reviewed, WorkUnit
    <3> HIDE DEF i
    <3> QED
      BY <1>6, <2>7, <3>1
  <2>9. expired' = expired \ {u}
    BY <1>4, <2>2, <2>3, UnheldIsLive
  <2>10. Atomic!Becomes(u, j)
    BY <2>2, <2>9, <2>7, WriteIsBecomes
  <2>11. Atomic!Review(u, w, v, verdict)
    BY <1>6, <2>3, <2>4, <2>5, <2>8, <2>10 DEF Atomic!Review
  <2> QED
    BY <2>11
<1>12. CASE ReworkCommit(s)
  <2>1. PICK R : R = Reworked(r, t)
    OBVIOUS
  <2>2. /\ t.op = "rework" /\ row' = [row EXCEPT ![u] = R]
        /\ expired' = expired \ {u}
    BY <1>1, <1>2, <1>4, <1>12, <2>1 DEF ReworkCommit, Persist, LeaseGranted
  <2>3. PICK override \in BOOLEAN : override = t.override
    BY DEF Call
  <2>4. PICK j : j = Item(R)
    OBVIOUS
  <2>5. j = [i[u] EXCEPT !.state = "CLAIMED", !.owner = w,
                                     !.artifact = None,
                                     !.reworks = i[u].reworks + 1]
    <3>1. t.seen.rework_attempts + 1 = i[u].reworks + 1
      BY <1>5, <1>6
    <3>2. PICK n : n = t.seen.rework_attempts + 1
      OBVIOUS
    <3> HIDE DEF i
    <3>3. j = [i[u] EXCEPT !.state = "CLAIMED", !.owner = w, !.artifact = None,
                           !.reworks = n]
      BY <1>3, <1>6, <2>1, <2>4, <3>2, ItemReworked
    <3>4. n = i[u].reworks + 1
      BY <3>1, <3>2
    <3> QED
      BY <3>3, <3>4, Zenon
  <2>6. i[u].state = "REJECTED" /\ IsWorkerEligible(u, w)
    BY <1>2, <1>3, <1>5, <1>6, <2>2 DEF SeenState, ArgumentsChecked
  <2>7. ~t.override /\ t.seen.rework_attempts = 0
          => t.actor = t.seen.previous_worker
    BY <1>5, <2>2, Zenon DEF ArgumentsChecked
  <2>8. i[u].reworks # 0 \/ i[u].previous = w \/ override
    BY <1>3, <1>5, <1>6, <2>3, <2>7
  <2>9. Atomic!Becomes(u, j)
    BY <2>2, <2>4, WriteIsBecomes
  <2>10. Atomic!Rework(u, w, override)
    BY <2>5, <2>6, <2>8, <2>9 DEF Atomic!Rework, Atomic!Eligible, IsWorkerEligible
  <2> QED
    BY <2>10
<1> QED
  BY <1>7, <1>8, <1>9, <1>10, <1>11, <1>12 DEF Commit

\* For every set of sessions the queue implements the atomic one: a committed
\* call is the operation its caller asked for, on the unit as it is at that
\* instant, and the reads, the lost races and the crashes change nothing.
THEOREM QueueIsAtomic == Spec => CallsAreAtomic
<1>1. Init => Atomic!Init
  BY DEF Init, Atomic!Init, Item, AbsentRow, NoSnapshot, Atomic!Absent,
         Atomic!NoInput
<1>2. IInv /\ RecoveryIsDue /\ [Next]_vars => [Atomic!Next]_(Atomic!vars)
  <2> SUFFICES ASSUME IInv, RecoveryIsDue, [Next]_vars
               PROVE  Atomic!Next \/ UNCHANGED Atomic!vars
    OBVIOUS
  <2>1. ASSUME NEW u \in Units, Add(u) PROVE Atomic!Next
    BY <2>1, AddIsAtomic DEF Atomic!Next
  <2>2. ASSUME NEW u \in Units, Expire(u) PROVE Atomic!Next
    <3>1. row[u].lease_id # 0 /\ expired' = expired \cup {u} /\ row' = row
      BY <2>2 DEF Expire
    <3>2. row[u].state = "CLAIMED"
      BY <3>1 DEF IInv, OwnershipConsistent
    <3>3. Atomic!Lapse(u)
      BY <3>1, <3>2 DEF Atomic!Lapse, Item
    <3> QED
      BY <3>3 DEF Atomic!Next
  <2>3. ASSUME NEW s \in Sessions, Commit(s) PROVE Atomic!Next
    BY <2>3, CommitIsAtomic DEF Atomic!Next
  <2>4. ASSUME NEW s \in Sessions, Read(s) \/ LoseCas(s) \/ Crash(s)
        PROVE  UNCHANGED Atomic!vars
    BY <2>4 DEF Read, ClaimRead, HeartbeatRead, RecoverRead, SubmitRead,
       ReviewRead, ReworkRead, Open, LoseCas, Crash, Atomic!vars
  <2>5. CASE UNCHANGED vars
    BY <2>5 DEF vars, Atomic!vars
  <2> QED
    BY <2>1, <2>2, <2>3, <2>4, <2>5 DEF Next
<1>3. Init => RecoveryIsDue
  BY DEF Init, RecoveryIsDue
<1> QED
  BY InductiveInvariant, RecoveryStaysDue, <1>1, <1>2, <1>3, PTL
     DEF Spec, CallsAreAtomic, Atomic!Spec

\* For every set of sessions: a call whose UPDATE matches no row was overtaken
\* by a committed call.  A claim's UPDATE tests no stamp, but the row it read
\* was PENDING and unowned, and a PENDING row that nobody wrote still is.
THEOREM OvertakenSafety == Spec => []LostOnlyToProgress
<1>1. IInv => LostOnlyToProgress
  <2> SUFFICES ASSUME IInv, NEW s \in Sessions, tx[s] # NoTx,
                      ~CasMatches(tx[s])
               PROVE  row[tx[s].unit].updated_at > tx[s].seen.updated_at
    BY DEF LostOnlyToProgress
  <2>1. tx[s] \in Call /\ CallOK(tx[s])
    BY DEF IInv, TypeOK, CallsOK
  <2>2. /\ tx[s].unit \in Units
        /\ tx[s].seen.updated_at \in Nat
        /\ row[tx[s].unit].updated_at \in Nat
    BY <2>1 DEF IInv, TypeOK, Call, WorkUnit
  <2>3. tx[s].seen = row[tx[s].unit] => CasMatches(tx[s])
    <3> SUFFICES ASSUME tx[s].seen = row[tx[s].unit] PROVE CasMatches(tx[s])
      OBVIOUS
    <3>1. CASE tx[s].op = "claim"
      <4>1. row[tx[s].unit].state = "PENDING"
        BY <2>1, <3>1 DEF CallOK, ArgumentsChecked, SeenState
      <4>2. row[tx[s].unit].lease_id = 0 /\ row[tx[s].unit].claimed_by = None
        BY <2>2, <4>1 DEF IInv, OwnershipConsistent
      <4> QED
        BY <3>1, <4>1, <4>2 DEF CasMatches, CasClaim
    <3>2. CASE tx[s].op # "claim"
      BY <3>2 DEF CasMatches, CasProjection
    <3> QED
      BY <3>1, <3>2
  <2> QED
    BY <2>1, <2>2, <2>3 DEF CallOK, SeenIsCurrent
<1> QED
  BY InductiveInvariant, <1>1, PTL

=============================================================================
