# Verification of the Digital Organization Runtime

The repository is a governed multi-agent software factory. Projects are created, planned,
completed and archived by commands; the work of a plan is cut into units that worker agents
claim under leases and reviewers approve or reject; a pipeline takes requirements through gates
and generated artifacts to a release; candidate commits are integrated into one attested branch;
the durable queue, the receipts of deployments and the ledger of governed executions let the
agents crash, stall and be retried.
Almost all of its coordination is done through one SQL database by processes that share nothing
else, so the questions worth asking are questions about interleaved transactions: what one
session may commit between another's read and its write, what a stale lease holder can still do,
and what is left behind by a process that dies.

This directory holds TLA+ models of those parts, TLC runs over small instances of them, and
TLAPS proofs that carry the results over to every instance: every safety property a passing run
checks is also a theorem (section 7).

    tlc -workers 2 -config MCWorkQueueOne.cfg MCWorkQueue     # one run
    tlapm WorkQueueProofs.tla                                 # one proof module

`PROJECT.json` lists the runs, maps every definition to the source lines it models, gives for
each property a mutated form of the code's logic under which TLC finds it violated (the
definitions commented "Mutated form"), and lists the hazards the properties are for.

## 1. Inventory

### The components that are modelled

| Component | State it keeps | Operations | Shared with |
|---|---|---|---|
| **Work Queue v0** `infrastructure/runtime/work_queue*.py`, `infrastructure/persistence/work_queue_repository.py`, `domain/work_queue*.py` | `work_units` (the current projection), `work_unit_revisions` (append-only) | add, claim, heartbeat, recover_next_expired, submit_for_review, approve, reject, claim_rework | the database; scope services wrap it |
| **Project scope over the queue** `infrastructure/runtime/work_queue_scope.py`, `runtime/project_completion_evidence.py` | the binding of a unit to (project, plan) | admit, scoped claim/heartbeat/recover/submit, cancel superseded work, verify quiescence | reads the project, wraps the queue |
| **Project aggregate and its command runtimes** `domain/project.py`, `runtime/project_*_runtime.py`, `infrastructure/persistence/{uow,repositories,command_repository,project_scope_repository}.py` | `projects`, `domain_events`, `command_executions` | create, launch, activate scope, request completion, complete, cancel, archive, continue | the database |
| **Durable task queue and its worker** `infrastructure/runtime/{queue,execution}.py` | `runtime_queue_messages` | publish, claim, heartbeat, ack, fail, requeue_expired, run_once | the database; any handler |
| **Terminal side effects** `services/side_effects.py`, `infrastructure/persistence/side_effect_store.py` | `terminal_side_effects` receipts | claim, take over, complete, fail | the database and the outside world |
| **Pipeline** `runtime/pipeline_{orchestrator,registry}.py`, `infrastructure/persistence/pipeline_state_store.py`, `domain/pipeline_*.py`, `services/{database_swarm_queue,worker_agent_daemon}.py` | `pipeline_runtime_states` (one revisioned snapshot), a copy of it in every process, the task messages | start, edit requirements, advance, decide / retry / rework a gate, claim, complete and fail a task, restore, republish | the database, through the durable queue |
| **Factory integration and attested delivery** `services/{factory_integration_controller,delivery_evidence_gate}.py`, `infrastructure/persistence/factory_integration_store.py`, `domain/factory_integration.py`, deploy and release in `execution/pipeline_executors.py` | `factory_integration_plans`, `factory_integration_receipts`, the remote branch | integrate, deploy, release | the side-effect receipts, git |
| **Governed execution and its replay ledger** `phase4/execution/{engine,replay_ledger,durable_ledger}.py` | one ledger record per execution | try_claim, complete_succeeded, complete_failed, abandon | the database and the adapter |

What is hard in them, and what makes each correct:

* **Work queue.** Every service call reads in a session, decides, and later runs one
  compare-and-set. Two sessions may both have passed their checks. Correct means: one owner
  through one lease; a live lease is not taken; a stale token neither renews nor submits; a
  decision is stored on the artifact the reviewer saw, by someone who did not submit it; the
  dependency versions in a unit's snapshot are the approved ones; the newest revision is the
  projection; a call is refused only because another one got through.
* **Scope.** The scope check, the claim, the activation and the cancellation are separate
  transactions. Correct means: cancelled work stays cancelled, a frozen project lets no call in,
  and the quiescence a completion verified is still there when it commits.
* **Project commands.** A command is five or six statements at READ COMMITTED; the revision is
  checked by a SELECT. Correct means: the transactions behave as the atomic aggregate, no lost
  update, one event per revision, one effect per command id, and completion only with proof.
* **Task queue.** At-least-once delivery with leases that expire under running handlers, on a
  database that may ignore `FOR UPDATE`. Correct means: one claimant per lease, bounded
  deliveries, terminal rows stay terminal, only the holder ends a lease, every message ends.
* **Side effects.** The external mutation and its receipt cannot be atomic, and a lease left by a
  crash is taken over. Correct means: a live receipt is not taken over, a key is bound to one
  request, and, where the lease outlives the operation, one operation runs at a time and none after
  a completed one. (A mutation whose worker dies before the receipt is completed is repeated.)
* **Pipeline.** A process changes its copy of the snapshot first and saves it after; a refused save
  leaves the copy changed, and the request threads of a process share it without a lock. A task
  enters the copy, is published, and is then saved; the pipeline moves before the message is
  acknowledged. Correct means: whatever copies are stale, the stored workflow passes no gate
  without its approval and no stage without its task; a worker's completion overwrites no gate
  decision; a late rework opens no other round; a stored task is settled only by a worker.
* **Factory integration.** The push, the side-effect receipt, the integration receipt and the plan's
  status are four writes with a crash between any two. Correct means: a receipt of success names
  the head that is published, results are final, and only the handoff of such a head lets a
  deployment or a release run.
* **Replay ledger.** Two backends are to be one state machine. Correct means: the SQL ledger is
  a refinement of the in-memory one; a live claim is kept; a success is final.

### The components that are not modelled

| Component | Why |
|---|---|
| In-memory, SQLite and Redis task queues, WBS orchestrator (`services/*queue*.py`, `services/wbs_orchestrator.py`) | in the plan; the database queue, which demo and production require, is modelled |
| Pipeline file store (`runtime/pipeline_state_store.py`) | one file, one process, development only |
| Factory scheduling and workspaces (`services/factory_{scheduler,workspace}.py`) | in the plan: leases of work packages, candidates and selections |
| LLM replay store (`services/llm_replay.py`) | in the plan: a fenced claim over another table |
| Approval gate, gatekeeper, resource and cost governors | in the plan: the lifetime of an approval request, and budgets |
| Council and evaluation (`phase4/council`) | in the plan: sessions, seats and disputes |
| Runtime failure remediation | its use of the queue without a scope check is an action (`UnscopedRead`, `Environment`); the classification of failures is text matching |
| Authority, context packets, planner, outcome, epistemics, phase 5 and 6 | decisions over immutable inputs and append-only records; nothing is shared between processes but the stores |
| Artifact acceptance, certification, traceability | append-only evidence; `ProjectAggregate` uses only whether a plan has final PASS evidence |
| Outbox, worker loops, transactional execution | loops over operations that are modelled; the outbox has no store |
| Identity, tenancy, event buses, API, CLI, dashboards, code generation, migrations | parsing, I/O and presentation |

## 2. Plan

Done: `WorkQueue` and its proofs; `DatabaseQueue`; `ProjectAggregate` and `ProjectCommands`
(which is shown to implement it); `ScopedWorkQueue`, composing the queue with the aggregate;
`SideEffects` and `FactoryIntegration`, composed with it; `ReplayLedger` and `DurableReplayLedger`,
which implements it; `Pipeline`; the abstract specifications `AtomicWorkQueue`, which `WorkQueue`
implements, and `TaskQueue`, which `DatabaseQueue` with row locks and the message table of
`Pipeline` both implement; and the proofs of all of them (section 7).

Next, in this order:

1. The factory's scheduler: leases of work packages, candidates and selections, in front of
   `FactoryIntegration`.
2. The LLM replay store (the same fenced claim as a receipt, with a retry of failed calls) and the
   in-memory swarm queue with dependencies.
3. The approval gate and the governors; then council sessions.

## 3. Modules and how they correspond to the code

Conventions. A session that has read but not committed is a record in `tx`, `job`, `call` or
`command` holding what it read (`seen`) and the arguments that later statements use; an operation
is one action per point at which another session can commit, no more and no fewer. Early returns
that change nothing are not actions: the call simply does not start. `UPDATE ... WHERE` re-evaluates its
WHERE clause when it runs, so a compare-and-set and the writes that follow it in the transaction are one
action. Every model is of one organization (the tenant column is in every WHERE clause and
separates nothing within it). Random identifiers (lease ids, fencing tokens) are numbers that no
earlier claim had; `updated_at` is the number of the committed write, which assumes that two
committed writes of a row do not carry the same microsecond. Wall-clock time is an action: a
lease may expire at any moment after it was granted, and a renewed lease is unexpired.

**`WorkQueue`** (`row`, `revision`, `expired`, `tx`). `<Op>Read` is the session's reads and early
returns, `<Op>Commit` its compare-and-set, revision and commit; `LoseCas` is `rowcount != 1`.
The row and the revision are computed separately, from the stored row and from the row as read,
as the code does: that they agree is a property (`RevisionMirrorsRow`), not the shape of the model.
`MaxRevision` bounds the writes of a unit.

**`AtomicWorkQueue`** (`item`, `lapsed`) is what those services promise: each operation is one step
whose conditions hold at that instant. It has no sessions, stamps, revisions or lease ids. `Item`
in `WorkQueue` maps a row to an item (its owner is `claimed_by`, its artifact `delivered`), `expired`
is `lapsed`; a commit is an operation, reads and lost compare-and-sets are invisible. One
condition is weaker than a reader might expect, because the code's is: a heartbeat looks at the clock when it reads,
so an owner may renew a tenure that has lapsed meanwhile.

**`ScopedWorkQueue`** extends `WorkQueue` with the project, the admission of a call by the
validator's own session (`Admit`), the cancellation that writes by primary key (`ListUnits`,
`CancelUnits`), and the completion that verifies first and commits later. The mapper writes only
the columns that differ from the row it read; `CancelledUnit` keeps the others as stored. The
project is the atomic aggregate, which `ProjectCommands` justifies. Remediation adds and moves
units with no scope check.

**`ProjectAggregate`** has each command as one atomic step (`Accepts` are the guards of the
aggregate's methods, `After` their results). **`ProjectCommands`** has the transaction: read and
decide, insert the new project or the completion record, compute the next event number, insert the
event (which waits while another open transaction holds the key, and fails if it committed), look
for the expected revision, write the row, insert the receipt. The audit event comes first and goes to the history of
the project the authorization is about: for a continuation its source, so such a transaction holds
a number in two histories (`held`), besides the key of the project it creates. A denied command
records only its audit event. A command that raises leaves nothing (`Rollback`). `PROJECT_CONTINUED` is
merged with the `PROJECT_CREATED` event of the same command. That waits for these keys form no cycle
follows from the order in which every transaction takes them (project or record, audit history,
project history, receipt) and from a project that is being created being nobody's source; it is no
property here because the model takes them in that order as well.

**`DatabaseQueue`** (`msg`, `expired`, `delayed`, `job`, `beat`, `requeue`). The constant of a
behaviour, `deployment`, says whether `FOR UPDATE` locks the row `fail` has read (PostgreSQL, not
SQLite) and whether an operator calls `requeue_expired`, which no component of the repository does.
`RowsAreFenced` is a locking database without that operator; properties that the other deployments
refute are stated for it. `heartbeat` is two actions because it compares the lease with a clock it
read earlier. `attempts` is bounded by the code itself.

**`TaskQueue`** (`task`) is an at-least-once queue as its users see it: a message is absent, offered,
held by a worker, completed or dead; a delivery counts, is to one worker and may take the message from a
holder believed gone; at `MaxAttempts` deliveries it is buried; a settled message stays. `TaskOf` and
`Tasks` in `DatabaseQueue` map the rows of a deployment whose rows are fenced (the others are shown
empty: nothing is claimed of them). The pipeline's mapping, `Shown` and `Tasks`, is in `PipelineProofs`.

**`SideEffects`** (`receipt`, `expired`, `call`, `effects`). `effects` is a history variable that
records the claims whose operation took effect; `Mutate` is apart from the operation's return or
raise, so an operation may raise, or its worker die, before the mutation and after it. The lease of
every receipt in progress expires once its worker is gone, and is then taken over. `Lapsing` is the
set of keys whose lease may also expire under a running operation: what holds only with long
enough leases is stated for the others, and what always holds for all. `MaxClaims` bounds the claims
of a key, `Retaken` the keys that are claimed more than once.

**`FactoryIntegration`** extends `SideEffects` with the plans, the integration receipts, the remote
branch and the delivery gate. A worker's `integrate` is `Begin` (the checks and the read of the
plan), `Start`, the side effect (claim, cherry-picks, push, and its end), `Append` and `Settle`;
`FailPlan` is its `except` clause, which a lost lease skips and any other error reaches. Each claim of
a plan cherry-picks anew (`picked`): a cherry-pick that exits with an error, for whatever reason, is
a conflict (`Conflict`), so two runs of one plan may differ; otherwise the head is named by the
claim that made it, because commits carry the time of the run, or is the published one when the
times agree. Several plans may name one branch (`BranchOf`). Heads of different runs are taken to be siblings,
so that a push without force never moves an existing branch. The suite's failure, a git error outside
the cherry-picks and a worktree that cannot be removed are `Raise`, before the push or after it. The
grant and candidate checks read evidence that never changes and reject before anything is written.
A delivery is bound to its handoff by `AttestedDeliveryGate` and is then a side effect of its own;
its request holds the handoff and, apart from it, what the payload asks to ship (`ships`), because the code
compares the two nowhere.

**`Pipeline`** (`row`, `msg`, `mem`, `rev`, `pc`, `local`, `job`). `mem[p]` and `rev[p]` are a process's copy
of the snapshot and the revision it has; the request threads of a process (`HomeOf`) share both. A
thread runs from one database call to the next, `pc` says which is next, and there every other
thread may run: the work in memory between two calls is one step, which leaves out preemption
inside it. `Persist` builds the snapshot; `Save` pairs it with the revision the process has by
then, and waits for the uncommitted UPDATE of another; `Commit` stores it; `CommitFails` leaves the
revision moved, as the code does. `AddAndPublish` puts a task into the copy, `PublishTask` publishes
it, `PublishFails` leaves it in the copy. `StartPipeline`, `DecideGate` and `Complete` end in `advance_pipeline`,
whose loop is `AdvanceStop`, `AdvanceState` and `CreateTask`. `Refresh` is another
thread's `_restore` of the shared copy (`api/endpoints/execution_overview.py:124`). Of a context
the model keeps the gates' rounds and decisions and the number of edits; of a rework's payload also its
reason, because the queue compares payloads when a message exists. The message table is the
queue of `DatabaseQueue` on its atomic operations, with leases that lapse; `Recreate` is a new
process, which restores and publishes what is PENDING before it serves anyone.

**`ReplayLedger`** is the in-memory backend, in which each operation runs under one lock and is one
atomic action. **`DurableReplayLedger`** is the SQL backend with the engine over it: reads and
writes are separate, `try_claim` compares and sets, and `complete_*` and `abandon` write by primary key
after checking the token they read. `Lapsing` is as above, for executions: the claim of a worker that
crashed or gave up expires whatever its execution and is reclaimed, in both modules.

`MC*` modules define the small instances, the symmetry sets, and the action constraints
described below. No definition of a specification is replaced by a configuration.

## 4. Runs

| Run | Instance | What it shows |
|---|---|---|
| `work_queue_life` | 1 unit, 2 workers and a reviewer, 2 sessions, 2 versions, 8 writes | 8 writes allow claim, expiry, recovery, submission, rejection, rework, second submission and approval of one unit with a competitor at every point. `CallsAreAtomic` (refinement of `AtomicWorkQueue`), `LeaseNotStolen`, `LeaseIsFenced`, `ReviewOfExactArtifact`, `ReworkReservedAndCounted`, and the inductive invariant `IInv` the proofs use, which contains `OwnershipConsistent` and `RevisionMirrorsRow` |
| `work_queue_progress` | 2 units, the second built on the first, 2 workers and a reviewer, 2 sessions, 2 versions, 5 writes each | `SnapshotIsApproved`, `ApprovedIsFinal`, and `LostOnlyToProgress`: a call whose compare-and-set matches no row was overtaken by one that committed |
| `queue` | 1 message, 3 workers, 2 attempts, 3 deployments, fairness | `OneClaimant` and `DeliveriesBounded` in every deployment; `TableIsTaskQueue` (refinement of `TaskQueue`), `LeaseEndsByHolder` where rows are fenced; `EveryMessageEnds`. Messages do not interact; three workers are a holder, a stale holder and a claimer |
| `project_life` | 2 projects, 2 concurrent commands, 8 command ids of which one is denied, revision up to 5, 14 events | creation to archive is five revisions; the second project is the first one's continuation, whose audit event is in the first one's history. `AggregateSpec` (refinement), `HistoryMirrorsProject`, `CommandOnce`, `CompletionIsProven`, `LineageIsCompleted`, `NoLostUpdate`. The six commands leave two events each in the first project's history, the denial and the continuation one: 14 |
| `scope_fencing` | 1 unit, 2 plans, a worker and a reviewer in 2 sessions, 1 manager | the inductive invariant `ScopedInv`, `TerminalStays`, `VerifiedStaysQuiescent`, `ClosureDrains` |
| `factory_integration` | 2 plans of one branch (one with a lapsing lease), 1 delivery with 2 payloads, 2 workers, 2 claims of the lapsing plan and of the delivery, 1 of the other plan | `EvidenceIsPublished`, `ResultIsFinal`, `DeliveryIsAuthorized`; and of the receipts beneath, `OneOperationAtATime`, `CompletedIsFinal`, `OneRequestPerKey`, `LiveLeaseNotTaken`. Two claims are the first and the one that takes over, after a failure, a crash or an expiry; two plans compete for their branch, and let one delivery key meet two handoffs |
| `pipeline` | 1 API process with 2 request threads, 1 worker, 2 deliveries, 1 fault, 1 edit, 1 reopened round, 1 rework, to the approved architecture | `SettledWasDelivered`, `StageIsEarned`, `CompletionKeepsDecisions`, `ReworkOpensItsRound`. A fault is a crash, a lapsed lease, a database error, or a request that starts while another of its process runs. The architecture stage has every kind of step (gate, task, rework); later stages repeat it |
| `replay_ledger_fencing` | 2 executions (one lapsing), 3 workers, 3 claims | `AtomicSpec` (refinement, the reclaim of a crashed worker's claim included), `FencedInv`, `LiveClaimNotTaken`, `SuccessIsFinal` |
| `scope_cancel_overwrites`, `side_effect_replay`, `replay_ledger_stale`, `pipeline_recreate` | as the corresponding run | violations: section 6 |

Every module has one type invariant. It is a conjunct of an invariant its run checks: `IInv`,
`DeliveriesBounded`, `HistoryMirrorsProject`, `ScopedInv`, `EvidenceIsPublished`, `FencedInv`,
`SettledWasDelivered`.

*Deadlock* is not checked: every system here may come to rest (everything approved, all
attempts spent, or a bound reached), and that the durable queue does not stop early is stated as a
property (`EveryMessageEnds`).

*Action constraints.* `MCFreshIsSmallest`: command ids are interchangeable, so a command that is
not a retry takes the smallest unused one. `MCOneLineage`: the second project is created only as a
continuation, which leaves out two projects created independently: they share no row but the
receipts, and a command id used for both is still covered, since commands on the second project
follow once it exists. `MCOneDenial`: one denied command is recorded,
after the first project has completed. `MCOneActivation`: an active project is not activated again,
which with one plan only repeats the row at a later revision; concurrent activations of a launched project
race, supersession by another plan is in `scope_fencing`, and the theorems have no such limit. Symmetry is used in safety
runs only.

## 5. Fairness

* **Task queue.** The swarm worker's loop (`cli/worker.py`) polls `claim`, and sessions end; time passes (weak fairness of `Expire` and of the retry
  delay); and a worker process that is restarted does not die at the same point for ever (strong
  fairness of the claim's commit and of the end of the handler). Crashes themselves are
  unrestricted.
* **Elsewhere** nothing is assumed. Nothing in the repository polls Work Queue v0 (`work_queue.py:11`
  disclaims scheduling, and recovery is "without introducing a scheduler", `work_queue_lease.py:3`),
  so no progress of a unit is claimed: `LostOnlyToProgress`, a safety property, says that the races
  themselves stop nobody. Nothing retries an integration, and people decide gates, so no
  progress of a plan or a pipeline is claimed either.

## 6. Where the code and its documentation disagree

Each of these is a run that TLC ends with a counterexample.

* `scope_cancel_overwrites`: `request_superseded_scope_cancellation` reads the units and writes them by
  primary key. A unit that was submitted, and even approved, after the read becomes FAILED, although the
  docstring speaks of "A stale CLAIMED unit" (`work_queue_scope.py:306`).
* `side_effect_replay`: taking over an expired receipt compares only the token, and completing a
  receipt keeps its token. A take-over that read before the owner completed reopens the completed
  receipt and runs the operation again; `docs/TERMINAL_SIDE_EFFECTS.md:27` says a later delivery
  replays the stored receipt.
* `replay_ledger_stale`: the SQL ledger checks the token of the row it read and writes by primary
  key; a claim that is reclaimed in between is concluded by the stale worker, which is what
  `durable_ledger.py:3` says the tokens prevent. For the same reason a lapsed execution's stored
  success can be replaced; `SuccessIsFinal` is therefore stated for executions that end within
  their lease.

* `pipeline_recreate`: a task is published before the snapshot that holds it is saved
  (`pipeline_orchestrator.py:344-345`), and a worker restores its copy before it claims
  (`pipeline_registry.py:61-63`). A worker that restores before the save and claims after the
  publication executes a task its copy does not know: `complete_task` moves no pipeline and
  acknowledges the message. The snapshot keeps the task PENDING for ever, the completed message's
  payload now holds the result and equals no publication, and every later process fails in
  `bind_task_queue`; `docs/PIPELINE_PERSISTENCE.md:64` says that recreating a process restores the
  snapshot and republishes the unfinished tasks.

Met while modelling, described here and not run:

* On SQLite, `DatabaseQueue.fail` loses the lock it asks for, and a stale `fail` can end the lease of
  the next claimant. `LeaseEndsByHolder` is therefore checked with row locks.
* `requeue_expired` writes back rows that were acknowledged or reclaimed after it read them, so
  a completed message can be delivered again. Nothing in the repository calls it.
* A claim admitted before a plan is superseded is still committed afterwards;
  `docs/PROJECT_SCOPE_LIFECYCLE_V0.md:57` says that no new work of the old plan may be claimed.
  `ClosureDrains` bounds it: one claim for each call that was already inside.
* Review services and remediation do not validate the scope, so units of a completed project can still be
  added and moved; line 100 of the same document calls a completed project read-only.
* Requirements can be edited after their gate was approved: `update_requirements` tests the state,
  which stays REQUIREMENTS_VALIDATED when the process dies between `decide_gate`'s save and
  `advance_pipeline`'s.
* A rework whose message is dead-lettered by the sweep in `claim`, because its workers died, stays
  PENDING in the snapshot; `retry_gate` and `request_gate_rework` refuse its gate from then on.
* `fail_task` reads the message again after it has failed it: when another worker has claimed it by
  then, the task is recorded FAILED while it runs.
* An integration that dies between the push and its receipt is resumed with another head and ends
  FAILED, with its branch published; or, if a cherry-pick of that run exits with an error
  (`factory_integration_controller.py:267-292`), with a CONFLICT receipt and a published branch:
  `docs/FACTORY_INTEGRATION.md:27` says of conflicts that they "do not publish a branch". A database error in a second worker's claim does the same to
  a plan whose first worker succeeds: the receipt says SUCCEEDED, the plan FAILED, and nothing of
  it can be delivered.
* What a deployment checks out is the payload's `release`, or the newest tag
  (`pipeline_executors.py:226-229, 848`), and what the default publisher releases is the payload's patch (929);
  neither is compared with the head of the handoff that authorized it. `DeliveryIsAuthorized` speaks of
  the handoff.
* An API process can overwrite a stored gate decision. `_revision` moves before the commit
  (`infrastructure/persistence/pipeline_state_store.py:77, 90`), so that a commit which fails leaves
  a stale copy with the revision of a later row; the snapshot is built before `save` reads
  `_revision`, which another thread's `_restore` may move in between; and the threads share the copy.
  `docs/PIPELINE_PERSISTENCE.md:60` says that a stale worker cannot overwrite a newer state: for the gates
  and the completions of worker processes, which have one thread and reload before each claim, that holds
  (`CompletionKeepsDecisions`).
* A publication that raises leaves its task in the copy (`pipeline_orchestrator.py:343-344, 653-667`),
  and the next save stores it; so does another thread's save before the publication. The task is
  PENDING and in no queue until some process is recreated and publishes it (`SettledWasDelivered`:
  nothing else is ever made of it).

## 7. Proofs

**`WorkQueueProofs`**, for any sets of units, actors, sessions and versions, any dependency
relation and any bound. From `ConstantsAssumption` only (NULL is not an actor or a version; the
functions have their types). The safety properties are not inductive: a session commits what it
decided from an earlier read, so the invariant has to say what a call still knows when its
compare-and-set succeeds. `IInv` adds `CallsOK`: the row a call read is at most as new as the stored
row and equal to it if the stamps are equal (`SeenIsCurrent`); a claim, which tests no stamp, needs
that a PENDING row never changes and that its dependencies stay APPROVED (`ClaimIsCurrent`); and what the
early returns established about the row read and about the caller still stands (`ArgumentsChecked`). Lemma `CasSeesRow`
turns a matching compare-and-set into "the call saw the current row"; `OpenPreserves` and
`CommitPreserves` are the preservation arguments shared by all reads and all commits; each
action then instantiates one of them.

| Theorem | States |
|---|---|
| `InductiveInvariant` | `Spec => []IInv` |
| `TypeCorrect`, `OwnershipSafety`, `SnapshotSafety`, `ProvenanceSafety` | `TypeOK`, `OwnershipConsistent`, `SnapshotIsApproved`, `RevisionMirrorsRow` |
| `ApprovalFinality`, `ReviewIndependence` | the action properties `ApprovedIsFinal`, `ReviewOfExactArtifact`, from `IInv` and lemma `RowChange` |
| `LeaseSafety`, `LeaseFencing`, `ReworkSafety` | the action properties `LeaseNotStolen`, `LeaseIsFenced`, `ReworkReservedAndCounted`: by `CasSeesRow` the lease, worker and counter that the call tested are those of the row it replaces |
| `OvertakenSafety` | `LostOnlyToProgress`: a stamp that differs is a later one, and a claim, which tests no stamp, read a PENDING row that nobody can have left as it was if it no longer matches |
| `QueueIsAtomic` | `CallsAreAtomic`, that is `Spec => Atomic!Spec`: sessions that lock nothing implement `AtomicWorkQueue`. `CommitIsAtomic` takes each commit to its operation: by `CasSeesRow` and `ArgumentsChecked` what was checked at the read holds at the commit, and `ItemClaimed` to `ItemReworked` say what the write makes of the item. `UnheldIsLive` (only claimed units have expired leases) covers the operations that leave the leases alone |

**`DatabaseQueueProofs`**, for any messages, workers and attempts and for every deployment at once
(both databases, with and without an operator's sweep), from `QueueAssumption`. That two
processes never hold one lease follows only if leases are known to be attempts values the message
has had (`LeaseIsPast`: the next claim makes a larger one) and a candidate is known to be a row that
was offered with an attempt left (`CandidateWasOffered`). What needs row locks stands behind
`RowsAreFenced` in one conjunct (`FencedRows`): a process that is failing its message still holds it and
has read the row that is there (`FailingHolds`), and a pending message has an attempt left.

| Theorem | States |
|---|---|
| `InductiveInvariant` | `Spec => []IInv` |
| `ClaimantSafety`, `DeliverySafety` | `OneClaimant`, `DeliveriesBounded` (with the types), in every deployment |
| `TerminalFinality`, `LeaseHolderEnds` | the action properties `TerminalIsFinal`, `LeaseEndsByHolder`, where rows are fenced |
| `TableImplementsQueue` | `TableIsTaskQueue`, that is `Spec => Queue!Spec`: where rows are fenced, a claim's commit is a delivery together with its sweep (`ExhaustedTask`: what it dead-letters has had all its deliveries), an ack or a fail settles the held message, and nothing else is visible. `FailingHolds` is needed for the fail, which writes by primary key what it read a transaction earlier |

**`ProjectCommandsProofs`**, for any projects, plans, command ids, sessions and bounds, from
`AggregateAssumption`, `CommandsAssumption` and `RecordAssumption` (NULL is not a completion
record). A transaction computes its result from a row it read without a lock, so what excludes a lost
update is the unique (project, sequence) of the event store and the revision in the WHERE clause.
`TxInv` says so: in each history a number computed earlier is at most the next one and an inserted
one is exactly it (`NumbersOK`), so one open transaction per history holds it, and one creates a
given project (`Exclusive`); a transaction whose revision is still the row's decided from that row, an
allowed command of the aggregate (`DecisionOK`); and the row found by the revision check is there
when it is written, because its writer holds a number of its history meanwhile (`ProgressOK`).
`HistoryInv` adds that the events mirror the rows (`Mirrors`) and that every domain event has its
receipt (`ReceiptsKept`), which the two properties of the history need. The invariants of the
aggregate are proved of the atomic specification, `AggregateInv`, and carried down by the refinement.

| Theorem | States |
|---|---|
| `AggregateSafety` | `AggregateSpec => []AggregateInv` |
| `TransactionSafety` | `Spec => []TxInv` |
| `Refinement` | `Spec => AggregateSpec`: the statement that writes the row is the command, every other statement stutters |
| `CompletionSafety`, `LineageSafety` | `CompletionIsProven`, `LineageIsCompleted`, from the two above |
| `UpdateSafety` | the action property `NoLostUpdate` |
| `HistorySafety`, `CommandSafety` | `HistoryMirrorsProject` (with the types), `CommandOnce` |

**`ScopedWorkQueueProofs`**, for any units, plans, projects and sessions, from `ScopeAssumption` and
the assumptions of the two parts. The cancellation writes rows by primary key, so a row may be
failed beneath a call that read it, and an approved one may be failed: the invariant of `WorkQueue`
does not hold here. `ScopedInv` keeps what survives an overwrite. A call found its unit in the state
its operation starts from (`CallsStarted`) and commits only on a row in that state; no operation starts
from a terminal one, so terminal units stay terminal, and with them the quiescence a completion
verified. A claim under way was admitted to the scope of its unit (`ClaimsAdmitted`) and its call ends with
it, so after a closure request, when nobody is let in, each claim leaves one call fewer inside.

| Theorem | States |
|---|---|
| `ScopedSafety`, `ScopedTypes`, `CompletionQuiescence` | `ScopedSpec => []ScopedInv`; `ScopedTypeOK`, `VerifiedStaysQuiescent` |
| `TerminalFinality`, `ClosureDrainsCalls` | the action properties `TerminalStays`, `ClosureDrains` |
| `ScopedAggregate` | `ScopedSpec => AggregateSpec` of the projects inside: the composition takes only their steps, so `AggregateSafety` holds of it |

**`PipelineProofs`**, for any API and worker processes, decisions, bounds and horizon, from
`PipelineAssumption`. Copies are changed before they are saved, by threads that share them, and may
be saved under a revision they were not read at, so nothing can be proved of the row alone. `CopyOK` says of every copy in the
system (the row, the processes' copies, the snapshots on their way to the database) that it is past a gate
only with the approval and past a task only with the task (`Earned`), and that this was so when
each of its tasks was created (`TasksEarned`), because a late completion moves the copy to just after
the task from wherever it is. `SettledIn` says of the same copies that a task which is not PENDING was
delivered. The two hold whichever copy is saved, so they need nothing of the revisions. The action
properties do, and only for workers: `Tracked` says that a worker which has loaded the row, and none
of whose saves has failed, is never ahead of the row, and that if nobody has saved since, its copy has the
row's gates but for the round its own rework opens (`KeepsGates`).

| Theorem | States |
|---|---|
| `InductiveInvariant` | `Spec => []IInv` |
| `DeliverySafety`, `StageSafety` | `SettledWasDelivered` (with the types), `StageIsEarned` |
| `DecisionSafety`, `ReworkSafety` | the action properties `CompletionKeepsDecisions`, `ReworkOpensItsRound` |
| `MessageTable` | `MessagesAreTaskQueue`, that is `Spec => Queue!Spec`: to the pipeline the messages are the queue that `TableImplementsQueue` provides, under the same abstraction. `PublishShown` covers the first publication and every republication after a crash (only absent messages enter), `ClaimShown` the claim with its sweep, `FinishShown` ack and fail, which a worker that lost its message cannot do. No run checks it: the refinement multiplies the time of `pipeline` |

**`ReplayLedgerProofs`**, for any sets of executions and workers and any bound, with `Lapsing` any
subset of the executions. `FencedInv` says that a record carries a token exactly while pending, that no two
workers hold one token, that a worker about to write an outcome still owns its claim although the write
compares nothing (`WriterOwns`), that a claimer whose compare-and-set would match a pending
record has seen an expired one (`ClaimerSaw`), and that the expired claim of an execution that ends
within its lease has no worker left that could conclude it (`ExpiredIsUnheld`): this is what makes
a reclaim safe although the write tests no token.

| Theorem | States |
|---|---|
| `LedgerIsFenced` | `Spec => []FencedInv` |
| `LiveClaimsAreKept` | `LiveClaimNotTaken`, for all executions |
| `LedgerSuccessIsFinal` | `SuccessIsFinal`, for executions that end within their lease |
| `DurableImplementsAtomic` | `Spec => AtomicSpec`: every step of the SQL ledger is a step of the in-memory one or a stutter, the expiry and the reclaim of a crashed worker's claim included. The mapping hides only the executions whose adapter outlives its lease: for them the two ledgers differ (`replay_ledger_stale`) |

**`SideEffectsProofs`**, for any keys, workers, requests and bound on claims, with `Lapsing` any
subset of the keys. A caller writes to a receipt it read in an earlier transaction, so `ReceiptInv`
says what it still knows. `CallsBound`: the receipt of a call exists, is bound to its request and has no older
token, and a take-over whose token still matches a receipt in progress has an expired lease before
it. `Solo`, for a key whose lease outlives its operation: at most one call is past its claim, it owns
a receipt in progress whose lease is live, and no take-over under way matches a completed receipt,
since what it read had failed or had lost its worker.

| Theorem | States |
|---|---|
| `ReceiptInvariant` | `Spec => []ReceiptInv` |
| `RequestBinding` | `OneRequestPerKey`, for all keys |
| `SingleOperation`, `CompletionIsFinal` | `OneOperationAtATime`, and the action property `CompletedIsFinal`, for the keys whose lease outlives the operation |
| `LiveLeasesAreKept` | the action property `LiveLeaseNotTaken`, for all keys |

**`FactoryIntegrationProofs`**, for any plans, deliveries, workers and at least one claim, from
`FactoryAssumption` (plans and deliveries have different keys) and `NoWorkAssumption`. A worker
settles a plan from a version and a result it got several transactions earlier. `FactoryInv` says
that a version stands for a status (`Versions`), that a call is made for the work in hand
(`CallsInWork`), and that a result which was returned, completed, about to be appended or attested is
a conflict of that claim, or the head its branch is at, whichever plan pushed it (`Published` in `CallEvidence`, `PlanEvidence`,
`WorkInformed`). The argument: each store of a plan has few writers (`Writers`), each write can only do one
thing (`PlanWrites`, `AttestedWrites`, `BranchWrites`, `PickedWrites`), hence what was published stays so
(`PublishedStays`) and what a worker knows stays true while others work (`InformedStays`).

| Theorem | States |
|---|---|
| `FactoryInvariant` | `FactorySpec => []FactoryInv` |
| `EvidenceIsAlwaysPublished`, `DeliveriesAreAuthorized` | `EvidenceIsPublished` (with the types), `DeliveryIsAuthorized` |
| `ResultsAreFinal` | the action property `ResultIsFinal` |
| `ImplementsSideEffects` | `FactorySpec => Spec` of `SideEffects`: the composition takes only its steps, so the theorems on receipts hold of integrations and deliveries |
| `FactoryKeepsReceipts` | that conclusion, stated: `OneRequestPerKey`, `OneOperationAtATime`, `LiveLeaseNotTaken` and `CompletedIsFinal` of `FactorySpec` |

**Only model-checked**: the liveness property `EveryMessageEnds`, because fairness and ENABLED are out of
the prover's reach. The invariants of `DatabaseQueue`,
`ProjectCommands`, `ScopedWorkQueue` and `Pipeline` above were checked by TLC on the instances of section 4
before they were proved. The properties of the four runs with a counterexample (section 6) are refuted.

## 8. What the models leave out

Payloads, fingerprints, titles and wording; authorization beyond allowed or denied; the value of
lease durations (a lease expires at any time) and of retry delays; the ordering and batch size of
candidate queries (any candidate may be chosen); more than one organization; database failures
other than a lost connection before the commit. In `ScopedWorkQueue` the dependency relation is
empty in the instance, and a unit keeps its binding for life, as the code does not rebind. The
authority checks of the execution engine precede the ledger and reject without changing state. In
`Pipeline`, what tasks produce and the histories kept for audit; an organization has one workflow; and
`heartbeat`, whose only effect, a longer lease, is the absence of a lapse.
