------------------------- MODULE FactoryIntegration -------------------------
(***************************************************************************)
(* Governed integration of candidate commits into one attested branch, and *)
(* the deployments and releases that may only use an attested result.      *)
(*                                                                         *)
(* FactoryIntegrationController.integrate moves a plan READY -> RUNNING -> *)
(* {SUCCEEDED, CONFLICT, FAILED} by compare-and-set on the plan's version. *)
(* Between the two moves it runs the integration as a terminal side effect *)
(* (module SideEffects) and appends an integration receipt.  A delivery    *)
(* (DeployExecutor, ReleaseExecutor) is a side effect too, bound by        *)
(* AttestedDeliveryGate to a plan and the head of its receipt.             *)
(*                                                                         *)
(* The idempotency key and the request of an integration are the plan's    *)
(* (both are unique per plan), so both are modelled by the plan.  A head   *)
(* is named by the plan and the claim that first picked its commits.  The  *)
(* request of a delivery is its release handoff and what its payload asks  *)
(* to ship: a release tag, or a patch.  Nothing compares the two: the      *)
(* deployment checks out the tag (or the newest one), and the default      *)
(* publisher takes the payload's patch.                                    *)
(***************************************************************************)
EXTENDS SideEffects

CONSTANTS
    Plans,          \* integration plans: idempotency keys and requests too
    Deliveries,     \* idempotency keys of deploy and release tasks
    Branches,       \* names of remote branches
    BranchOf,       \* integration_branch of each plan, not unique
    Payloads,       \* the release or patch a delivery's payload names
    Conflicted      \* the end of cherry-picks that did not all apply

Head == Plans \X (1 .. MaxClaims)

Shipment == [plan : Plans, head : Head, ships : Payloads]

ASSUME FactoryAssumption ==
    /\ Plans \cap Deliveries = {}
    /\ Keys = Plans \cup Deliveries
    /\ Plans \cup Shipment \subseteq Requests
    /\ MaxClaims # 0
    /\ BranchOf \in [Plans -> Branches]
    /\ None \notin Head /\ Conflicted \notin Head /\ Conflicted # None

VARIABLES
    plan,           \* factory_integration_plans
    attested,       \* factory_integration_receipts, by plan
    branch,         \* head of each remote branch, None when absent
    picked,         \* what each claim's cherry-picks ended in, None before
    work            \* the integrate or delivery call of each worker

factoryVars == <<plan, attested, branch, picked, work>>
allVars == <<vars, factoryVars>>

----------------------------------------------------------------------------
Status == {"ready", "running", "succeeded", "conflict", "failed"}
TerminalStatus == {"succeeded", "conflict", "failed"}

Plan == [status : Status, version : 0 .. 2]

\* start: the plan was read as READY.  effect: inside side_effects.execute.
\* append, settle: the result is known.  failing: in the except clause.
\* deliver: inside the side effect of a delivery.
Work ==
    [pc      : {"start", "effect", "append", "settle", "failing", "deliver"},
     plan    : Plans,
     version : 0 .. 2,       \* of the plan that was read or saved
     result  : 0 .. MaxClaims]   \* the claim whose result execute returned

ASSUME NoWorkAssumption == None \notin Work

NoAttestation == [status |-> "absent", result |-> 0]

FactoryTypeOK ==
    /\ TypeOK
    /\ plan \in [Plans -> Plan]
    /\ attested \in [Plans -> [status : {"absent", "succeeded", "conflict"},
                               result : 0 .. MaxClaims]]
    /\ branch \in [Branches -> Head \cup {None}]
    /\ picked \in [Plans -> [1 .. MaxClaims -> Head \cup {None, Conflicted}]]
    /\ work \in [Workers -> Work \cup {None}]

FactoryInit ==
    /\ Init
    /\ plan = [p \in Plans |-> [status |-> "ready", version |-> 0]]
    /\ attested = [p \in Plans |-> NoAttestation]
    /\ branch = [b \in Branches |-> None]
    /\ picked = [p \in Plans |-> [n \in 1 .. MaxClaims |-> None]]
    /\ work = [w \in Workers |-> None]

Doing(w, pc) == work[w] # None /\ work[w].pc = pc

Goto(w, pc) == work' = [work EXCEPT ![w].pc = pc]

End(w) == work' = [work EXCEPT ![w] = None]

----------------------------------------------------------------------------
(* The plan and its receipt.                                               *)

\* get_plan; a terminal plan is replayed or refused without another step.
Begin(w, p) ==
    /\ work[w] = None
    /\ plan[p].status \in {"ready", "running"}
    /\ work' = [work EXCEPT ![w] =
                 [pc |-> IF plan[p].status = "ready" THEN "start" ELSE "effect",
                  plan |-> p, version |-> plan[p].version, result |-> 0]]
    /\ UNCHANGED <<vars, plan, attested, branch, picked>>

\* save_plan: WHERE version = expected_version
CurrentVersion(w) == plan[work[w].plan].version = work[w].version

SavePlan(w, status) ==
    plan' = [plan EXCEPT ![work[w].plan] =
               [status |-> status, version |-> work[w].version + 1]]

\* READY -> RUNNING, or "stale integration-plan writer".
Start(w) ==
    /\ Doing(w, "start")
    /\ IF CurrentVersion(w)
       THEN /\ SavePlan(w, "running")
            /\ work' = [work EXCEPT ![w].pc = "effect", ![w].version = @ + 1]
       ELSE UNCHANGED plan /\ End(w)
    /\ UNCHANGED <<vars, attested, branch, picked>>

\* The status of the result that claim n of plan p returned.
Outcome(p, n) == IF picked[p][n] = Conflicted THEN "conflict" ELSE "succeeded"

Attestation(w) ==
    [status |-> Outcome(work[w].plan, work[w].result), result |-> work[w].result]

\* The side effect is completed, with the result the receipt is made from.
EffectMatches(w) ==
    LET r == receipt[work[w].plan]
    IN  r.status = "completed" /\ r.result = work[w].result

\* append_receipt: unique per plan, and an equal receipt is a replay.
Append(w) ==
    LET p == work[w].plan IN
    /\ Doing(w, "append")
    /\ IF EffectMatches(w) /\ attested[p] \in {NoAttestation, Attestation(w)}
       THEN attested' = [attested EXCEPT ![p] = Attestation(w)] /\ Goto(w, "settle")
       ELSE UNCHANGED attested /\ End(w)
    /\ UNCHANGED <<vars, plan, branch, picked>>

\* RUNNING -> SUCCEEDED or CONFLICT
Settle(w) ==
    /\ Doing(w, "settle")
    /\ IF CurrentVersion(w)
       THEN SavePlan(w, Outcome(work[w].plan, work[w].result))
       ELSE UNCHANGED plan
    /\ End(w)
    /\ UNCHANGED <<vars, attested, branch, picked>>

\* except Exception: RUNNING -> FAILED
FailPlan(w) ==
    /\ Doing(w, "failing")
    /\ IF CurrentVersion(w) THEN SavePlan(w, "failed") ELSE UNCHANGED plan
    /\ End(w)
    /\ UNCHANGED <<vars, attested, branch, picked>>

----------------------------------------------------------------------------
(* The side effect of an integration.                                      *)

InEffect(w) == Doing(w, "effect")

Claimed(w) ==
    LET p == work[w].plan IN
    /\ InEffect(w)
    /\ InsertReceipt(w, p, p) \/ ReadReceipt(w, p, p) \/ TakeOver(w)
    /\ UNCHANGED factoryVars

\* A completed receipt is replayed.
Replay(w) ==
    LET p == work[w].plan IN
    /\ InEffect(w)
    /\ call[w] = None
    /\ receipt[p].status = "completed"
    /\ work' = [work EXCEPT ![w].pc = "append", ![w].result = receipt[p].result]
    /\ UNCHANGED <<vars, plan, attested, branch, picked>>

\* SideEffectInProgressError: another worker's lease is live, was taken over
\* meanwhile, or replaced this one.  The plan stays RUNNING.
InProgress(w) ==
    /\ InEffect(w)
    /\ \/ /\ call[w] = None
          /\ receipt[work[w].plan].status = "in_progress"
          /\ work[w].plan \notin expired
          /\ UNCHANGED vars
       \/ LoseTakeOver(w)
       \/ FinishStale(w)
    /\ End(w)
    /\ UNCHANGED <<plan, attested, branch, picked>>

\* A cherry-pick exits with an error: the commits do not apply, or git itself
\* failed (a lock, a full disk, no identity).  Both are a conflict, and another
\* run of the same plan may end differently.
Conflict(w) ==
    LET p == work[w].plan
        n == call[w].token
    IN  /\ InEffect(w)
        /\ OperationReturns(w)
        /\ picked[p][n] = None
        /\ picked' = [picked EXCEPT ![p][n] = Conflicted]
        /\ UNCHANGED <<plan, attested, branch, work>>

\* The commits apply.  Their new head carries the time of the run: it is a new
\* one, or the published one when a run of the same commits had that time.
Pick(w) ==
    LET p == work[w].plan
        n == call[w].token
    IN  /\ InEffect(w)
        /\ At(w, "running")
        /\ picked[p][n] = None
        /\ \E h \in {<<p, n>>, branch[BranchOf[p]]} \ {None} :
             picked' = [picked EXCEPT ![p][n] = h]
        /\ UNCHANGED <<vars, plan, attested, branch, work>>

\* Mutated form: the branch is pushed with force.
PublishableForced(p, head) == head \in Head

\* _publish: nothing is pushed over an existing branch, this plan's or another's.
Publishable(p, head) == head \in Head /\ branch[BranchOf[p]] = None

\* The suite passed, and the branch is pushed.
Publish(w) ==
    LET p == work[w].plan
        n == call[w].token
    IN  /\ InEffect(w)
        /\ Mutate(w)
        /\ Publishable(p, picked[p][n])
        /\ branch' = [branch EXCEPT ![BranchOf[p]] = picked[p][n]]
        /\ UNCHANGED <<plan, attested, picked, work>>

\* Mutated form: an existing branch is accepted without a look at its head.
AtAnyHead(p, head) == head \in Head /\ branch[BranchOf[p]] # None

\* The branch is at the picked head: pushed now, or found there.
AtHead(p, head) == head \in Head /\ branch[BranchOf[p]] = head

Passed(w) ==
    /\ InEffect(w)
    /\ At(w, "running")
    /\ AtHead(work[w].plan, picked[work[w].plan][call[w].token])
    /\ OperationReturns(w)
    /\ UNCHANGED factoryVars

\* git fails outside the cherry-picks, the suite does not pass, the branch is
\* at another head, or the worktree cannot be removed: before the push or after.
Raise(w) ==
    /\ InEffect(w)
    /\ OperationRaises(w)
    /\ UNCHANGED factoryVars

\* complete, or fail.
Conclude(w) ==
    /\ InEffect(w)
    /\ Finish(w)
    /\ work' = IF call[w].pc = "returned"
               THEN [work EXCEPT ![w].pc = "append", ![w].result = call[w].token]
               ELSE [work EXCEPT ![w].pc = "failing"]
    /\ UNCHANGED <<plan, attested, branch, picked>>

\* The database fails in claim, complete or fail: the lease is retained.
StoreFails(w) ==
    /\ InEffect(w)
    /\ ~At(w, "running")
    /\ call' = [call EXCEPT ![w] = None]
    /\ Goto(w, "failing")
    /\ UNCHANGED <<receipt, expired, effects, plan, attested, branch, picked>>

\* The process dies.
WorkerDies(w) ==
    /\ work[w] # None
    /\ call' = [call EXCEPT ![w] = None]
    /\ End(w)
    /\ UNCHANGED <<receipt, expired, effects, plan, attested, branch, picked>>

----------------------------------------------------------------------------
(* Deliveries.                                                             *)

\* Mutated form: the gate trusts the receipt and does not look at the plan.
BoundByReceipt(h) == attested[h.plan].status = "succeeded"

HeadOf(p) == picked[p][attested[p].result]

\* AttestedDeliveryGate.bind: the receipt and the plan both succeeded, and the
\* handoff names the head of the receipt.
Bound(h) ==
    /\ attested[h.plan].status = "succeeded"
    /\ plan[h.plan].status = "succeeded"
    /\ HeadOf(h.plan) = h.head

\* bind, then claim: what bind reads never changes again.  A live lease and
\* another request are refused, a completed receipt is replayed.
Deliver(w, k, h) ==
    /\ work[w] = None
    /\ Bound(h)
    /\ InsertReceipt(w, k, h) \/ ReadReceipt(w, k, h)
    /\ work' = [work EXCEPT ![w] =
                 [pc |-> "deliver", plan |-> h.plan, version |-> 0, result |-> 0]]
    /\ UNCHANGED <<plan, attested, branch, picked>>

DeliveryStep(w) ==
    /\ Doing(w, "deliver")
    /\ TakeOver(w) \/ Mutate(w) \/ OperationReturns(w) \/ OperationRaises(w)
    /\ UNCHANGED factoryVars

DeliveryEnds(w) ==
    /\ Doing(w, "deliver")
    /\ LoseTakeOver(w) \/ Finish(w) \/ FinishStale(w)
    /\ End(w)
    /\ UNCHANGED <<plan, attested, branch, picked>>

----------------------------------------------------------------------------
LeaseExpires(k) == Expire(k) /\ UNCHANGED factoryVars

Integrate(w) ==
    \/ \E p \in Plans : Begin(w, p)
    \/ Start(w)
    \/ Claimed(w) \/ Replay(w) \/ InProgress(w)
    \/ Conflict(w) \/ Pick(w) \/ Publish(w) \/ Passed(w) \/ Raise(w)
    \/ Conclude(w) \/ StoreFails(w)
    \/ Append(w) \/ Settle(w) \/ FailPlan(w)

Delivery(w) ==
    \/ \E k \in Deliveries, h \in Shipment : Deliver(w, k, h)
    \/ DeliveryStep(w)
    \/ DeliveryEnds(w)

FactoryNext ==
    \/ \E w \in Workers : Integrate(w) \/ Delivery(w) \/ WorkerDies(w)
    \/ \E k \in Keys : LeaseExpires(k)

FactorySpec == FactoryInit /\ [][FactoryNext]_allVars

----------------------------------------------------------------------------
(* Safety.                                                                 *)

\* "A stale worker cannot replace a newer integration result": a terminal
\* plan, a receipt and a published branch stay as they are, whatever a worker
\* that lost its lease or its plan does later.
ResultIsFinal ==
    [][/\ \A p \in Plans :
            /\ plan[p].status \in TerminalStatus => plan'[p] = plan[p]
            /\ attested[p] # NoAttestation => attested'[p] = attested[p]
       /\ \A b \in Branches : branch[b] # None => branch'[b] = branch[b]]_allVars

\* "A successful receipt ... must match the completed durable side-effect
\* result", "an existing branch is accepted only when its head is identical": a
\* receipt of success names the head the plan's remote branch is at, also when
\* other plans push to that branch, and a plan ends as its receipt says.  (The
\* types hold.)
EvidenceIsPublished ==
    /\ FactoryTypeOK
    /\ \A p \in Plans :
        /\ attested[p].status = "succeeded" =>
             HeadOf(p) \in Head /\ branch[BranchOf[p]] = HeadOf(p)
        /\ plan[p].status \in {"succeeded", "conflict"} =>
             attested[p].status = plan[p].status

\* "The gate ... verifies the complete ReleaseHandoff": an operation that
\* deploys or releases runs, and ran, only under the handoff of a plan that
\* succeeded and whose head its branch is still at, also when the delivery was
\* taken over, replayed or retried.  (It does not say that this head is what
\* was shipped: the payload's own release or patch is.)
DeliveryIsAuthorized ==
    \A k \in Deliveries : receipt[k].status # "absent" =>
        LET h == receipt[k].request IN
        /\ plan[h.plan].status = "succeeded"
        /\ branch[BranchOf[h.plan]] = h.head

=============================================================================
