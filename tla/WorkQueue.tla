----------------------------- MODULE WorkQueue -----------------------------
(***************************************************************************)
(* Work Queue v0: the durable WorkUnit table, its append-only revisions,   *)
(* and the claim, lease, review and rework services that move a WorkUnit   *)
(* from PENDING to APPROVED.                                               *)
(*                                                                         *)
(* Every service call is one database session.  It first reads the rows    *)
(* and evaluates its early returns, and only later runs one compare-and-   *)
(* set UPDATE, appends one revision and commits.  Other sessions commit    *)
(* between the two, so a call is two actions here: <Op>Read and <Op>Commit.*)
(* Nothing is locked by the read (SQLite ignores FOR UPDATE, and these     *)
(* services do not ask for it); the UPDATE re-evaluates its WHERE clause   *)
(* and holds the row until the commit, so the rest is one step.            *)
(*                                                                         *)
(* updated_at is the value the compare-and-set tests: it is modelled by    *)
(* the number of the committed write (two committed writes of a row do not *)
(* carry the same microsecond).  A lease id is a fresh uuid4; it is        *)
(* modelled by the number of the write that created it.  Time passes with  *)
(* Expire, which may end a lease at any moment after it was granted.       *)
(***************************************************************************)
EXTENDS Naturals

CONSTANTS
    Units,                \* work_unit_id values of one organization
    Actors,               \* identities used as worker_id and reviewer_id
    Sessions,             \* concurrent database sessions
    Versions,             \* ImmutableVersionRef values
    Capabilities,         \* capability ids
    None,                 \* SQL NULL
    NoTx,                 \* the session runs no service call
    DependsOn,            \* depends_on of each unit
    RequiredCapability,   \* required_capability.id of each unit
    HasCapability,        \* the capability ids each actor presents
    MaxRevision           \* bound on the committed writes of one unit

ASSUME ConstantsAssumption ==
    /\ None \notin Actors
    /\ None \notin Versions
    /\ DependsOn \in [Units -> SUBSET Units]
    /\ RequiredCapability \in [Units -> Capabilities]
    /\ HasCapability \in [Actors -> SUBSET Capabilities]
    /\ MaxRevision \in Nat

VARIABLES
    row,        \* work_units: the current projection of each unit
    revision,   \* work_unit_revisions: payload of each unit's newest revision
    expired,    \* units whose lease has expires_at <= now
    tx          \* the service call each session is running, after its read

vars == <<row, revision, expired, tx>>

----------------------------------------------------------------------------
(* Rows, and the service calls that are between their read and their CAS.  *)

WorkUnitState ==
    {"PENDING", "READY", "CLAIMED", "AWAITING_REVIEW", "REJECTED",
     "APPROVED", "FAILED"}

\* An id that was never added has no row: its state is "ABSENT".
RowState == WorkUnitState \cup {"ABSENT"}

NoSnapshot == [d \in Units |-> None]

WorkUnit ==
    [state           : RowState,
     claimed_by      : Actors \cup {None},
     lease_id        : Nat,                        \* 0: the lease is NULL
     lease_worker    : Actors \cup {None},
     snapshot        : [Units -> Versions \cup {None}],
     delivered       : Versions \cup {None},
     previous_worker : Actors \cup {None},
     rework_attempts : Nat,
     updated_at      : Nat]

AbsentRow ==
    [state |-> "ABSENT", claimed_by |-> None, lease_id |-> 0,
     lease_worker |-> None, snapshot |-> NoSnapshot, delivered |-> None,
     previous_worker |-> None, rework_attempts |-> 0, updated_at |-> 0]

Operation ==
    {"claim", "heartbeat", "recover", "submit", "approve", "reject", "rework"}

\* unit, actor and version are the caller's arguments; seen is the row the
\* session read; snapshot is what _approved_snapshot computed for a claim.
Call ==
    [op       : Operation,
     unit     : Units,
     actor    : Actors,
     seen     : WorkUnit,
     snapshot : [Units -> Versions \cup {None}],
     version  : Versions \cup {None},
     override : BOOLEAN]

TypeOK ==
    /\ row \in [Units -> WorkUnit]
    /\ revision \in [Units -> WorkUnit]
    /\ expired \subseteq Units
    /\ tx \in [Sessions -> Call \cup {NoTx}]

Init ==
    /\ row = [u \in Units |-> AbsentRow]
    /\ revision = [u \in Units |-> AbsentRow]
    /\ expired = {}
    /\ tx = [s \in Sessions |-> NoTx]

----------------------------------------------------------------------------
(* Reads and compare-and-sets shared by the services.                      *)

IsWorkerEligible(u, w) == RequiredCapability[u] \in HasCapability[w]

IsReady(u) ==
    /\ row[u].state = "PENDING"
    /\ \A d \in DependsOn[u] : row[d].state = "APPROVED"

\* _approved_snapshot answers None when an approved dependency has no version.
HasApprovedVersions(u) ==
    \A d \in DependsOn[u] :
        row[d].state = "APPROVED" /\ row[d].delivered # None

ApprovedSnapshot(u) ==
    [d \in Units |-> IF d \in DependsOn[u] THEN row[d].delivered ELSE None]

\* The session opens, reads unit u and goes on with its call.
Open(s, op, u, a, snapshot, version, override) ==
    /\ tx[s] = NoTx
    /\ row[u].updated_at < MaxRevision
    /\ tx' = [tx EXCEPT ![s] =
                [op |-> op, unit |-> u, actor |-> a, seen |-> row[u],
                 snapshot |-> snapshot, version |-> version,
                 override |-> override]]
    /\ UNCHANGED <<row, revision, expired>>

\* Mutated form: the claim waits for the state READY, which nothing writes.
CasClaimReady(t) ==
    /\ row[t.unit].state = "READY"
    /\ row[t.unit].claimed_by = None
    /\ row[t.unit].lease_id = 0

\* WHERE state = 'PENDING' AND claimed_by IS NULL AND lease IS NULL
CasClaim(t) ==
    /\ row[t.unit].state = "PENDING"
    /\ row[t.unit].claimed_by = None
    /\ row[t.unit].lease_id = 0

\* Mutated form: the UPDATE tests the state and forgets updated_at.
CasProjectionStateOnly(t) == row[t.unit].state = t.seen.state

\* WHERE state = model.state AND updated_at = model.updated_at
CasProjection(t) ==
    /\ row[t.unit].state = t.seen.state
    /\ row[t.unit].updated_at = t.seen.updated_at

\* Mutated form: only a claim compares before it sets.
CasClaimOnly(t) == t.op = "claim" => CasClaim(t)

CasMatches(t) == IF t.op = "claim" THEN CasClaim(t) ELSE CasProjection(t)

\* The UPDATE changes the columns of the stored row; the revision appended in
\* the same transaction is the in-memory WorkUnit built from the row as read.
Persist(s, stored, payload) ==
    LET u == tx[s].unit IN
    /\ row' = [row EXCEPT ![u] = stored]
    /\ revision' = [revision EXCEPT ![u] = payload]
    /\ tx' = [tx EXCEPT ![s] = NoTx]

\* Mutated form: a clock too coarse to tell two writes apart.
NowCoarse(t) == row[t.unit].updated_at

\* The stamp of the write that is about to commit.
Now(t) == row[t.unit].updated_at + 1

\* Every grant and every renewal starts a lease that has not expired.
LeaseGranted(u) == expired' = expired \ {u}

----------------------------------------------------------------------------
(* WQ-102: the repository stores a new unit and its revision 1.            *)

Add(u) ==
    LET added == [AbsentRow EXCEPT !.state = "PENDING", !.updated_at = 1] IN
    /\ row[u].state = "ABSENT"
    /\ row' = [row EXCEPT ![u] = added]
    /\ revision' = [revision EXCEPT ![u] = added]
    /\ UNCHANGED <<expired, tx>>

----------------------------------------------------------------------------
(* WQ-104: WorkQueueClaimService.                                          *)

ClaimRead(s, u, w) ==
    /\ IsWorkerEligible(u, w)
    /\ IsReady(u)
    /\ HasApprovedVersions(u)
    /\ Open(s, "claim", u, w, ApprovedSnapshot(u), None, FALSE)

Claimed(r, t) ==
    [r EXCEPT !.state = "CLAIMED", !.claimed_by = t.actor,
              !.lease_id = Now(t), !.lease_worker = t.actor,
              !.snapshot = t.snapshot, !.updated_at = Now(t)]

ClaimCommit(s) ==
    LET t == tx[s] IN
    /\ t # NoTx /\ t.op = "claim"
    /\ CasMatches(t)
    /\ Persist(s, Claimed(row[t.unit], t), Claimed(t.seen, t))
    /\ LeaseGranted(t.unit)

----------------------------------------------------------------------------
(* WQ-105: WorkQueueLeaseService.  HoldsLease is the early return shared   *)
(* by heartbeat and submit_for_review: the caller presents its worker_id   *)
(* and lease_id, and goes on only if both name the current, live lease.    *)

HoldsLease(u, w, lease) ==
    /\ row[u].state = "CLAIMED"
    /\ row[u].claimed_by = w
    /\ row[u].lease_id # 0
    /\ row[u].lease_worker = w
    /\ row[u].lease_id = lease
    /\ u \notin expired

HeartbeatRead(s, u, w, lease) ==
    /\ HoldsLease(u, w, lease)
    /\ Open(s, "heartbeat", u, w, NoSnapshot, None, FALSE)

Renewed(r, t) == [r EXCEPT !.updated_at = Now(t)]

HeartbeatCommit(s) ==
    LET t == tx[s] IN
    /\ t # NoTx /\ t.op = "heartbeat"
    /\ CasMatches(t)
    /\ Persist(s, Renewed(row[t.unit], t), Renewed(t.seen, t))
    /\ LeaseGranted(t.unit)

RecoverRead(s, u, w) ==
    /\ row[u].state = "CLAIMED"
    /\ row[u].lease_id # 0
    /\ u \in expired
    /\ IsWorkerEligible(u, w)
    /\ Open(s, "recover", u, w, NoSnapshot, None, FALSE)

Recovered(r, t) ==
    [r EXCEPT !.claimed_by = t.actor, !.lease_id = Now(t),
              !.lease_worker = t.actor,
              !.previous_worker = t.seen.claimed_by, !.updated_at = Now(t)]

RecoverCommit(s) ==
    LET t == tx[s] IN
    /\ t # NoTx /\ t.op = "recover"
    /\ CasMatches(t)
    /\ Persist(s, Recovered(row[t.unit], t), Recovered(t.seen, t))
    /\ LeaseGranted(t.unit)

SubmitRead(s, u, w, lease, v) ==
    /\ HoldsLease(u, w, lease)
    /\ Open(s, "submit", u, w, NoSnapshot, v, FALSE)

\* Mutated form: the submission clears the owner but leaves the lease.
SubmittedKeepsLease(r, t) ==
    [r EXCEPT !.state = "AWAITING_REVIEW", !.delivered = t.version,
              !.previous_worker = t.actor, !.claimed_by = None,
              !.updated_at = Now(t)]

Submitted(r, t) ==
    [r EXCEPT !.state = "AWAITING_REVIEW", !.delivered = t.version,
              !.previous_worker = t.actor, !.claimed_by = None,
              !.lease_id = 0, !.lease_worker = None, !.updated_at = Now(t)]

SubmitCommit(s) ==
    LET t == tx[s] IN
    /\ t # NoTx /\ t.op = "submit"
    /\ CasMatches(t)
    /\ Persist(s, Submitted(row[t.unit], t), Submitted(t.seen, t))
    /\ expired' = expired \ {t.unit}

----------------------------------------------------------------------------
(* WQ-106: WorkQueueReviewService.                                         *)

ReviewRead(s, u, reviewer, v, decision) ==
    /\ row[u].state = "AWAITING_REVIEW"
    /\ row[u].delivered = v
    /\ row[u].claimed_by = None
    /\ row[u].lease_id = 0
    /\ row[u].previous_worker # reviewer
    /\ Open(s, decision, u, reviewer, NoSnapshot, v, FALSE)

\* Mutated form: the name of the call is stored instead of the decision.
ReviewedAsVerb(r, t) == [r EXCEPT !.state = t.op, !.updated_at = Now(t)]

Reviewed(r, t) ==
    [r EXCEPT !.state = IF t.op = "approve" THEN "APPROVED" ELSE "REJECTED",
              !.updated_at = Now(t)]

ReviewCommit(s) ==
    LET t == tx[s] IN
    /\ t # NoTx /\ t.op \in {"approve", "reject"}
    /\ CasMatches(t)
    /\ Persist(s, Reviewed(row[t.unit], t), Reviewed(t.seen, t))
    /\ UNCHANGED expired

\* Mutated form: the reservation starts one rework too late.
MayReworkLate(u, w, override) ==
    \/ row[u].rework_attempts # 1
    \/ row[u].previous_worker = w
    \/ override

\* The first rework is reserved for the previous worker unless overridden.
MayRework(u, w, override) ==
    \/ row[u].rework_attempts # 0
    \/ row[u].previous_worker = None
    \/ row[u].previous_worker = w
    \/ override

\* Mutated form: whatever has been reviewed may be reworked.
ReworkReadReviewed(s, u, w, override) ==
    /\ row[u].state \in {"REJECTED", "APPROVED"}
    /\ IsWorkerEligible(u, w)
    /\ MayRework(u, w, override)
    /\ Open(s, "rework", u, w, NoSnapshot, None, override)

ReworkRead(s, u, w, override) ==
    /\ row[u].state = "REJECTED"
    /\ IsWorkerEligible(u, w)
    /\ MayRework(u, w, override)
    /\ Open(s, "rework", u, w, NoSnapshot, None, override)

Reworked(r, t) ==
    [r EXCEPT !.state = "CLAIMED", !.claimed_by = t.actor,
              !.lease_id = Now(t), !.lease_worker = t.actor,
              !.delivered = None,
              !.rework_attempts = t.seen.rework_attempts + 1,
              !.updated_at = Now(t)]

ReworkCommit(s) ==
    LET t == tx[s] IN
    /\ t # NoTx /\ t.op = "rework"
    /\ CasMatches(t)
    /\ Persist(s, Reworked(row[t.unit], t), Reworked(t.seen, t))
    /\ LeaseGranted(t.unit)

----------------------------------------------------------------------------
(* What may happen to any call, and to any lease.                          *)

\* rowcount # 1: another session committed first; the session rolls back and
\* the caller gets None, or its retry loop opens a new session.
LoseCas(s) ==
    /\ tx[s] # NoTx
    /\ ~CasMatches(tx[s])
    /\ tx' = [tx EXCEPT ![s] = NoTx]
    /\ UNCHANGED <<row, revision, expired>>

\* The process dies, or the connection is lost, before the commit.
Crash(s) ==
    /\ tx[s] # NoTx
    /\ tx' = [tx EXCEPT ![s] = NoTx]
    /\ UNCHANGED <<row, revision, expired>>

Expire(u) ==
    /\ row[u].lease_id # 0
    /\ u \notin expired
    /\ expired' = expired \cup {u}
    /\ UNCHANGED <<row, revision, tx>>

----------------------------------------------------------------------------
\* The lease id a caller presents is one that some claim of u returned.
LeaseIds(u) == 1..row[u].updated_at

Read(s) ==
    \E u \in Units, w \in Actors :
        \/ ClaimRead(s, u, w)
        \/ \E lease \in LeaseIds(u) : HeartbeatRead(s, u, w, lease)
        \/ RecoverRead(s, u, w)
        \/ \E lease \in LeaseIds(u), v \in Versions :
               SubmitRead(s, u, w, lease, v)
        \/ \E v \in Versions, decision \in {"approve", "reject"} :
               ReviewRead(s, u, w, v, decision)
        \/ \E override \in BOOLEAN : ReworkRead(s, u, w, override)

Commit(s) ==
    \/ ClaimCommit(s)
    \/ HeartbeatCommit(s)
    \/ RecoverCommit(s)
    \/ SubmitCommit(s)
    \/ ReviewCommit(s)
    \/ ReworkCommit(s)

Next ==
    \/ \E u \in Units : Add(u) \/ Expire(u)
    \/ \E s \in Sessions : Read(s) \/ Commit(s) \/ LoseCas(s) \/ Crash(s)

Spec == Init /\ [][Next]_vars


----------------------------------------------------------------------------
(* Safety.                                                                 *)

\* A unit is CLAIMED exactly when it has an owner and a lease, and the lease
\* was issued to that owner (claim, recover, rework set all four columns,
\* submit clears them), so heartbeat and submit have one answer to "whose".
OwnershipConsistent ==
    \A u \in Units :
        /\ row[u].state = "CLAIMED" <=> row[u].lease_id # 0
        /\ row[u].state = "CLAIMED" <=> row[u].claimed_by # None
        /\ row[u].lease_worker = row[u].claimed_by
        /\ u \in expired => row[u].state = "CLAIMED"

\* "the exact approved dependency snapshot" (WQ-104): whatever was claimed,
\* recovered, reviewed or reworked since, a unit that has left PENDING holds
\* for every dependency the version that is approved there now.
SnapshotIsApproved ==
    \A u \in Units : row[u].state \notin {"ABSENT", "PENDING"} =>
        \A d \in DependsOn[u] :
            /\ row[d].state = "APPROVED"
            /\ row[d].delivered # None
            /\ row[u].snapshot[d] = row[d].delivered

\* The newest revision is the projection: no interleaving of sessions makes a
\* service append the provenance of a row other than the one it stored.
RevisionMirrorsRow == \A u \in Units : revision[u] = row[u]

\* Under review there is one submitted artifact, and its submitter is known:
\* the separation of execution and review has something to compare with.
ReviewHasSubmission ==
    \A u \in Units : row[u].state \in {"AWAITING_REVIEW", "REJECTED", "APPROVED"} =>
        row[u].delivered # None /\ row[u].previous_worker # None

----------------------------------------------------------------------------
(* The inductive invariant.  The safety invariants are not inductive       *)
(* alone: a session commits what it decided from an earlier read, so the   *)
(* invariant must say what a call still knows about the row when its       *)
(* compare-and-set succeeds.                                               *)

\* The state in which each operation's early returns leave a unit.
SeenState(op) ==
    IF op = "claim" THEN "PENDING"
    ELSE IF op \in {"heartbeat", "recover", "submit"} THEN "CLAIMED"
    ELSE IF op = "rework" THEN "REJECTED"
    ELSE "AWAITING_REVIEW"

\* The stamp of a row identifies it: a call that finds the stamp it read
\* finds the row it read.
SeenIsCurrent(t) ==
    /\ row[t.unit].state # "ABSENT"
    /\ t.seen.updated_at <= row[t.unit].updated_at
    /\ t.seen.updated_at = row[t.unit].updated_at => t.seen = row[t.unit]

\* A claim tests no stamp; it needs none, because a PENDING row never changes
\* and neither does an APPROVED dependency.
ClaimIsCurrent(t) ==
    /\ row[t.unit].state = "PENDING" => t.seen = row[t.unit]
    /\ \A d \in DependsOn[t.unit] :
         /\ row[d].state = "APPROVED"
         /\ row[d].delivered # None
         /\ t.snapshot[d] = row[d].delivered

\* What the early returns of each operation established about the row read.
ArgumentsChecked(t) ==
    /\ t.seen.state = SeenState(t.op)
    /\ t.op \in {"claim", "recover", "rework"} => IsWorkerEligible(t.unit, t.actor)
    /\ t.op \in {"heartbeat", "submit"} => t.actor = t.seen.claimed_by
    /\ t.op = "submit" => t.version # None
    /\ t.op \in {"approve", "reject"} =>
         t.version = t.seen.delivered /\ t.actor # t.seen.previous_worker
    /\ t.op = "rework" /\ ~t.override /\ t.seen.rework_attempts = 0
         => t.actor = t.seen.previous_worker

CallOK(t) ==
    /\ SeenIsCurrent(t)
    /\ t.op = "claim" => ClaimIsCurrent(t)
    /\ ArgumentsChecked(t)

\* Every call between its read and its commit still knows what it read.
CallsOK == \A s \in Sessions : tx[s] # NoTx => CallOK(tx[s])

\* A compare-and-set is refused only to a call that was overtaken: since its
\* read some other call has committed to the same unit.  However many calls
\* race for a unit (two claims, a recovery against heartbeats, two reviews),
\* one of them got through, so "rowcount # 1" is never a refusal of everybody.
LostOnlyToProgress ==
    \A s \in Sessions : tx[s] # NoTx /\ ~CasMatches(tx[s]) =>
        row[tx[s].unit].updated_at > tx[s].seen.updated_at

IInv ==
    /\ TypeOK
    /\ OwnershipConsistent
    /\ SnapshotIsApproved
    /\ RevisionMirrorsRow
    /\ ReviewHasSubmission
    /\ CallsOK

----------------------------------------------------------------------------
(* What a step may never do.                                               *)

\* "active leases cannot be stolen": the owner of a CLAIMED unit changes only
\* when its lease has expired at the moment of the commit, also when a late
\* heartbeat renewed it after the recovering session had read it.
LeaseNotStolen ==
    [][\A u \in Units :
         row[u].state = "CLAIMED" /\ row'[u].lease_id # row[u].lease_id
            => \/ u \in expired
               \/ row'[u].state # "CLAIMED"]_vars

\* "stale lease tokens cannot heartbeat or submit": the call that renews a
\* lease or ends it presented the token and the worker of the lease that is
\* in the row when it commits, not only of the one it had read.
LeaseIsFenced ==
    [][\A u \in Units :
         LET byHolder(op) ==
               \E s \in Sessions :
                 /\ tx[s] # NoTx /\ tx'[s] = NoTx
                 /\ tx[s].op = op /\ tx[s].unit = u
                 /\ tx[s].actor = row[u].claimed_by
                 /\ tx[s].seen.lease_id = row[u].lease_id
         IN row[u].state = "CLAIMED" /\ row'[u] # row[u] =>
              /\ row'[u].state # "CLAIMED" => byHolder("submit")
              /\ row'[u].state = "CLAIMED" /\ row'[u].lease_id = row[u].lease_id
                   => byHolder("heartbeat")]_vars

\* "Approve the exact artifact currently awaiting review": a decision commits
\* on the version its reviewer named, and the reviewer did not submit it,
\* also after the unit was rejected, reworked and submitted in between.
ReviewOfExactArtifact ==
    [][\A u \in Units :
         row[u].state = "AWAITING_REVIEW" /\ row'[u].state # "AWAITING_REVIEW" =>
           \E s \in Sessions :
             /\ tx[s] # NoTx /\ tx'[s] = NoTx
             /\ tx[s].unit = u
             /\ tx[s].version = row[u].delivered
             /\ tx[s].actor # row[u].previous_worker
             /\ row'[u].delivered = row[u].delivered]_vars

\* The first rework of a unit goes to the worker that submitted it unless the
\* orchestrator overrode the preference, and each rework is counted once.
ReworkReservedAndCounted ==
    [][\A u \in Units :
         row[u].state = "REJECTED" /\ row'[u] # row[u] =>
           /\ row'[u].rework_attempts = row[u].rework_attempts + 1
           /\ row[u].rework_attempts = 0 =>
                \/ row'[u].claimed_by = row[u].previous_worker
                \/ \E s \in Sessions : tx[s] # NoTx /\ tx'[s] = NoTx
                                       /\ tx[s].unit = u /\ tx[s].override]_vars

\* APPROVED is final: nothing the queue's services do moves an approved unit,
\* which is what keeps the snapshots of its dependents true.
ApprovedIsFinal ==
    [][\A u \in Units : row[u].state = "APPROVED" => row'[u] = row[u]]_vars

----------------------------------------------------------------------------
(* The queue its callers see.                                              *)

\* What remains of a row without its stamp and its lease id.
Item(r) ==
    [state |-> r.state, owner |-> r.claimed_by, input |-> r.snapshot,
     artifact |-> r.delivered, previous |-> r.previous_worker,
     reworks |-> r.rework_attempts]

Atomic == INSTANCE AtomicWorkQueue
              WITH item <- [u \in Units |-> Item(row[u])], lapsed <- expired

\* Whatever sessions interleave, every committed call of the claim, lease and
\* review services is one indivisible operation whose conditions (eligibility,
\* approved dependencies, expiry, ownership, the version under review, the
\* reservation of the first rework) hold at its commit, and every other step
\* of a session is invisible: "atomic" claims and decisions, as WQ-104 to
\* WQ-106 call them, without a lock.
CallsAreAtomic == Atomic!Spec

=============================================================================
