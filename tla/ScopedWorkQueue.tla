-------------------------- MODULE ScopedWorkQueue --------------------------
(***************************************************************************)
(* Project scope over the Work Queue: every unit is bound to one project   *)
(* and plan, the claim and lease services first ask whether that scope is  *)
(* still the active one, activating a plan cancels the claimed work of the *)
(* plan it supersedes, and completing a project first verifies that its    *)
(* scope is quiescent.                                                     *)
(*                                                                         *)
(* The project is the atomic aggregate of ProjectAggregate (ProjectCommands*)
(* shows that the command transactions implement it); the queue is         *)
(* WorkQueue.  They share nothing but the database: the scope is validated *)
(* in a session of its own before the queue's session reads, the           *)
(* cancellation runs after the activation has committed, and it writes by  *)
(* primary key the rows it read, with no compare-and-set.                  *)
(***************************************************************************)
EXTENDS WorkQueue

CONSTANTS
    Projects,             \* project ids of the organization
    Plans,                \* plan_request_fingerprint values
    Managers,             \* sessions of project commands
    ProjectOf,            \* the project each unit is bound to
    PlanOf,               \* the plan each unit is bound to
    MaxProjectRevision    \* bound on the revision of one project

ASSUME ScopeAssumption ==
    /\ ProjectOf \in [Units -> Projects]
    /\ PlanOf \in [Units -> Plans]
    /\ MaxProjectRevision \in Nat

VARIABLES
    project,     \* projects: the aggregate of each project
    certified,   \* <<project, plan>> pairs with final PASS evidence
    admitted,    \* the scope each session's call found to be current
    command      \* what each manager does besides writing the aggregate

Agg == INSTANCE ProjectAggregate WITH MaxRevision <- MaxProjectRevision

projectVars == <<project, certified>>
scopedVars == <<row, revision, expired, tx, project, certified, admitted, command>>

----------------------------------------------------------------------------
\* cancel: the activation is committed.  cancelling: the stale units are read.
\* completing: the scope was found quiescent and certified.
ManagerCommand ==
    [pc      : {"cancel", "cancelling", "completing"},
     project : Projects,
     plan    : Plans,
     at      : Nat,                   \* the project revision of the command
     seen    : [Units -> WorkUnit]]   \* work_units as the command read them

ScopedTypeOK ==
    /\ TypeOK
    /\ project \in [Projects -> Agg!Project]
    /\ certified \subseteq (Projects \X Plans)
    /\ admitted \in [Sessions -> (Projects \X Plans) \cup {None}]
    /\ command \in [Managers -> ManagerCommand \cup {NoTx}]

ScopedInit ==
    /\ Init
    /\ Agg!AggregateInit
    /\ admitted = [s \in Sessions |-> None]
    /\ command = [m \in Managers |-> NoTx]

Scope(u) == <<ProjectOf[u], PlanOf[u]>>

\* Mutated form: a project that is being closed still lets its plan run.
ScopeIsCurrentUntilClosed(p, plan) ==
    /\ project[p].status \in {"active", "completion_pending"}
    /\ project[p].plan = plan

\* The validator's answer: the project is ACTIVE and this is its active plan.
ScopeIsCurrent(p, plan) ==
    /\ project[p].status = "active"
    /\ project[p].plan = plan

----------------------------------------------------------------------------
(* Workers.                                                                *)

\* The validator reads the project in its own session, before the call.
Admit(s, p, plan) ==
    /\ tx[s] = NoTx
    /\ admitted[s] = None
    /\ ScopeIsCurrent(p, plan)
    /\ admitted' = [admitted EXCEPT ![s] = <<p, plan>>]
    /\ UNCHANGED <<row, revision, expired, tx, project, certified, command>>

\* claim and recover look for units of the admitted scope; heartbeat and
\* submit take the unit they are given and do not compare its binding.
ScopedRead(s) ==
    /\ admitted[s] # None
    /\ \E u \in Units, w \in Actors :
         \/ Scope(u) = admitted[s] /\ ClaimRead(s, u, w)
         \/ Scope(u) = admitted[s] /\ RecoverRead(s, u, w)
         \/ \E lease \in LeaseIds(u) : HeartbeatRead(s, u, w, lease)
         \/ \E lease \in LeaseIds(u), v \in Versions :
                SubmitRead(s, u, w, lease, v)
    /\ UNCHANGED <<project, certified, admitted, command>>

\* The review service has no scoped form.
UnscopedRead(s) ==
    /\ admitted[s] = None
    /\ \E u \in Units, w \in Actors :
         \/ \E v \in Versions, decision \in {"approve", "reject"} :
                ReviewRead(s, u, w, v, decision)
         \/ \E override \in BOOLEAN : ReworkRead(s, u, w, override)
    /\ UNCHANGED <<project, certified, admitted, command>>

\* The call ends: it committed, died, or found nothing to do.
ScopedEnd(s) ==
    /\ \/ Commit(s)
       \/ Crash(s)
       \/ /\ admitted[s] # None /\ tx[s] = NoTx
          /\ UNCHANGED <<row, revision, expired, tx>>
    /\ admitted' = [admitted EXCEPT ![s] = None]
    /\ UNCHANGED <<project, certified, command>>

\* A lost race: recover_next_expired looks again without asking the validator
\* again, a claim asks it again, and the others give up.
ScopedRetry(s) ==
    /\ LoseCas(s)
    /\ admitted' = [admitted EXCEPT ![s] =
                      IF tx[s].op = "recover" THEN admitted[s] ELSE None]
    /\ UNCHANGED <<project, certified, command>>

----------------------------------------------------------------------------
(* Project commands.                                                       *)

ProjectUnchanged == UNCHANGED <<project, certified>>
QueueUnchanged == UNCHANGED <<row, revision, expired, tx, admitted>>

Pending(pc, p, plan, seen) ==
    [pc |-> pc, project |-> p, plan |-> plan, at |-> project[p].revision,
     seen |-> seen]

\* Commands that only write the aggregate.
PlainCommand(p, op, plan) ==
    /\ op \in {"create", "launch", "request_completion", "cancel"}
    /\ Agg!Command(p, op, plan, p)
    /\ QueueUnchanged
    /\ UNCHANGED command

\* The activation commits; if it superseded another plan, the cancellation
\* of that plan's work is still to come.
ActivateScope(m, p, plan) ==
    LET superseded == project[p].plan \notin {None, plan} IN
    /\ command[m] = NoTx
    /\ Agg!Command(p, "activate", plan, p)
    /\ command' = IF superseded
                  THEN [command EXCEPT ![m] =
                          Pending("cancel", p, plan, row)]
                  ELSE command
    /\ QueueUnchanged

ListUnits(m) ==
    /\ command[m] # NoTx /\ command[m].pc = "cancel"
    /\ command' = [command EXCEPT ![m].pc = "cancelling", ![m].seen = row]
    /\ QueueUnchanged
    /\ ProjectUnchanged

\* A CLAIMED unit of the project, bound to another plan than the activated.
Stale(c, u) ==
    /\ ProjectOf[u] = c.project
    /\ PlanOf[u] # c.plan
    /\ c.seen[u].state = "CLAIMED"

\* UPDATE ... WHERE primary key: the mapper writes the columns in which the
\* new unit differs from the row as read, and leaves the others as stored.
CancelledUnit(r, seen) ==
    [r EXCEPT !.state = "FAILED", !.claimed_by = None,
              !.lease_id = 0, !.lease_worker = None,
              !.previous_worker = IF seen.claimed_by # seen.previous_worker
                                  THEN seen.claimed_by ELSE @,
              !.updated_at = @ + 1]

\* One transaction for all stale units; each also gets a revision, which is
\* the whole unit as read, with the changes.
CancelUnits(m) ==
    LET c == command[m] IN
    /\ c # NoTx /\ c.pc = "cancelling"
    /\ row' = [u \in Units |->
                 IF Stale(c, u) THEN CancelledUnit(row[u], c.seen[u]) ELSE row[u]]
    /\ revision' = [u \in Units |->
                 IF Stale(c, u)
                 THEN [CancelledUnit(c.seen[u], c.seen[u])
                         EXCEPT !.previous_worker = c.seen[u].claimed_by,
                                !.updated_at = row[u].updated_at + 1]
                 ELSE revision[u]]
    /\ expired' = {u \in expired : ~Stale(c, u)}
    /\ command' = [command EXCEPT ![m] = NoTx]
    /\ UNCHANGED <<tx, admitted>>
    /\ ProjectUnchanged

\* Mutated form: rejected work counts as resolved.
QuiescentButRejected(p) ==
    \A u \in Units : Scope(u) = <<p, project[p].plan>> =>
        row[u].state \in {"ABSENT", "APPROVED", "REJECTED", "FAILED"}

\* "Only APPROVED or FAILED are terminal for closure."
Quiescent(p) ==
    \A u \in Units : Scope(u) = <<p, project[p].plan>> =>
        row[u].state \in {"ABSENT", "APPROVED", "FAILED"}

\* The completion command verifies its evidence ...
VerifyCompletion(m, p) ==
    /\ command[m] = NoTx
    /\ project[p].status = "completion_pending"
    /\ <<p, project[p].plan>> \in certified
    /\ Quiescent(p)
    /\ command' = [command EXCEPT ![m] =
                     Pending("completing", p, project[p].plan, row)]
    /\ QueueUnchanged
    /\ ProjectUnchanged

\* ... and commits the aggregate at the revision it verified.
CompleteProject(m) ==
    LET c == command[m] IN
    /\ c # NoTx /\ c.pc = "completing"
    /\ project[c.project].revision = c.at
    /\ Agg!Command(c.project, "complete", c.plan, c.project)
    /\ command' = [command EXCEPT ![m] = NoTx]
    /\ QueueUnchanged

\* The cancellation is best-effort, and a completion may lose its revision:
\* either ends without a trace.
AbandonCommand(m) ==
    /\ command[m] # NoTx
    /\ command' = [command EXCEPT ![m] = NoTx]
    /\ QueueUnchanged
    /\ ProjectUnchanged

CertifyScope(p, plan) ==
    /\ <<p, plan>> \notin certified
    /\ Agg!Certify(p, plan)
    /\ QueueUnchanged
    /\ UNCHANGED command

----------------------------------------------------------------------------
\* Units are added with no look at the project.
Environment ==
    /\ \E u \in Units : Add(u) \/ Expire(u)
    /\ UNCHANGED <<project, certified, admitted, command>>

Worker(s) ==
    \/ \E p \in Projects, plan \in Plans : Admit(s, p, plan)
    \/ ScopedRead(s)
    \/ UnscopedRead(s)
    \/ ScopedEnd(s)
    \/ ScopedRetry(s)

Manager(m) ==
    \/ \E p \in Projects, plan \in Plans : ActivateScope(m, p, plan)
    \/ ListUnits(m)
    \/ CancelUnits(m)
    \/ \E p \in Projects : VerifyCompletion(m, p)
    \/ CompleteProject(m)
    \/ AbandonCommand(m)

ScopedNext ==
    \/ Environment
    \/ \E s \in Sessions : Worker(s)
    \/ \E m \in Managers : Manager(m)
    \/ \E p \in Projects, plan \in Plans :
         \/ \E op \in Agg!Operation : PlainCommand(p, op, plan)
         \/ CertifyScope(p, plan)

ScopedSpec == ScopedInit /\ [][ScopedNext]_scopedVars

----------------------------------------------------------------------------
(* Safety.                                                                 *)

Terminal == {"APPROVED", "FAILED"}

\* A worker whose unit was cancelled "can no longer heartbeat or submit", nor
\* does any recovery, review or rework that was under way bring the unit back:
\* whatever is APPROVED or FAILED stays one of the two.
TerminalStays ==
    [][\A u \in Units :
         row[u].state \in Terminal => row'[u].state \in Terminal]_scopedVars

\* The quiescence a completion verified still holds when it commits: every
\* unit it saw in the scope is terminal, whatever workers, reviewers and
\* cancellations did since.
VerifiedStaysQuiescent ==
    \A m \in Managers :
        LET c == command[m] IN
        c # NoTx /\ c.pc = "completing" =>
            \A u \in Units :
                Scope(u) = <<c.project, c.plan>> /\ c.seen[u].state # "ABSENT"
                    => row[u].state \in Terminal

\* A call under way found its unit in the state its operation starts from.
CallsStarted == \A s \in Sessions : tx[s] # NoTx => tx[s].seen.state = SeenState(tx[s].op)

\* A claim under way was admitted to the scope of its unit.
ClaimsAdmitted ==
    \A s \in Sessions : tx[s] # NoTx /\ tx[s].op = "claim" =>
        admitted[s] # None /\ admitted[s] = Scope(tx[s].unit)

\* The inductive invariant.  That of the queue alone does not survive here: a
\* cancellation writes rows and appends revisions nobody compared, so of a call
\* under way remains only where it started and what admitted it.
ScopedInv ==
    /\ ScopedTypeOK
    /\ CallsStarted
    /\ ClaimsAdmitted
    /\ VerifiedStaysQuiescent

\* The sessions whose call was admitted to project p and has not ended.
Inside(p) == {s \in Sessions : admitted[s] # None /\ admitted[s][1] = p}

\* "A closure request freezes new ordinary work": from then on no call is let
\* in, and each claim spends one of the calls that were inside, so that at most
\* as many units are still claimed as calls were under way at the request.
ClosureDrains ==
    [][\A p \in Projects :
         project[p].status \in {"completion_pending", "completed", "cancelled"} =>
           /\ Inside(p)' \subseteq Inside(p)
           /\ \A u \in Units :
                /\ ProjectOf[u] = p
                /\ row[u].state = "PENDING" /\ row'[u].state = "CLAIMED"
                => Inside(p)' # Inside(p)]_scopedVars

----------------------------------------------------------------------------
(* What the documentation says of supersession, and the code does not do.  *)

\* "A stale CLAIMED unit becomes FAILED": the cancellation fails no unit that
\* is not CLAIMED when it commits.
OnlyClaimedIsCancelled ==
    [][\A u \in Units :
         row[u].state # "FAILED" /\ row'[u].state = "FAILED"
            => row[u].state = "CLAIMED"]_scopedVars

=============================================================================
