------------------------------ MODULE Pipeline ------------------------------
(***************************************************************************)
(* One governed pipeline (workflow) of one organization, run by API and    *)
(* worker processes that share two tables: the revisioned snapshot row     *)
(* (pipeline_runtime_states) and the task messages (runtime_queue_messages *)
(* behind DatabaseSwarmTaskQueue).  Every process keeps its own copy of    *)
(* the snapshot with the revision it loaded; save compares that revision   *)
(* with the row's.  A copy is changed BEFORE it is saved, and stays        *)
(* changed when the save fails.  A task enters the copy, is published, and *)
(* only then is saved; a worker saves the pipeline's next state before it  *)
(* acknowledges the message.                                               *)
(*                                                                         *)
(* The request threads of an API process share its copy and its revision,  *)
(* with no lock.  The steps of a thread end at its database calls: there   *)
(* every other thread, of this process or another, may run.                *)
(***************************************************************************)
EXTENDS Naturals, Sequences, FiniteSets

CONSTANTS
    Apis,           \* API processes
    Requests,       \* request threads of the API processes
    HomeOf,         \* the process of each request thread
    Workers,        \* worker processes, one WorkerAgent thread each
    None,
    Reasons,        \* reasons (and actors) given for a rework
    MaxAttempts,    \* max_attempts of the queue
    MaxRound,       \* bound: decision rounds of a gate
    MaxRework,      \* bound: rework attempts of one round
    MaxEdits,       \* bound: edits of the requirements
    MaxFaults,      \* bound: crashes, lapsed leases, database errors and requests
                    \* that overlap another one of their process
    Decisions,      \* bound: the <<gate, decision>> pairs users submit
    Horizon         \* bound: advance_pipeline is followed up to this state

Processes == Apis \cup Workers
Threads == Requests \cup Workers

GateIds == {"requirements", "architecture", "contracts", "release"}

ASSUME PipelineAssumption ==
    /\ Apis \cap Workers = {} /\ Requests \cap Workers = {}
    /\ HomeOf \in [Requests -> Apis]
    /\ None \notin Processes \cup Reasons
    /\ MaxAttempts \in Nat \ {0}
    /\ {MaxRound, MaxRework, MaxEdits, MaxFaults} \subseteq Nat
    /\ Decisions \subseteq GateIds \X {"approved", "rejected"}

VARIABLES
    row,        \* pipeline_runtime_states: revision and snapshot
    msg,        \* runtime_queue_messages, by task id
    mem,        \* _workflows and _tasks of each process
    rev,        \* _revision of each process's store, 0 for None
    pc,         \* where each thread is
    local,      \* the task it publishes, or the snapshot it saves
    job,        \* the task a worker has claimed
    faults

vars == <<row, msg, mem, rev, pc, local, job, faults>>

Home(t) == IF t \in Workers THEN t ELSE HomeOf[t]
ThreadsOf(p) == {t \in Threads : Home(t) = p}

----------------------------------------------------------------------------
(* The pipeline's shape.                                                   *)

StateSequence ==
    <<"REQUIREMENTS_VALIDATED", "REQUIREMENTS_APPROVED",
      "ARCHITECTURE_GENERATING", "ARCHITECTURE_GENERATED",
      "ARCHITECTURE_APPROVED", "CONTRACTS_GENERATING", "CONTRACTS_GENERATED",
      "CONTRACTS_APPROVED", "CODE_GENERATING", "CODE_GENERATED",
      "TESTS_GENERATING", "TESTS_GENERATED", "TESTS_RUNNING", "TESTS_PASSED",
      "DEPLOYING", "DEPLOYED", "RELEASE_APPROVED", "RELEASED">>

\* The position of a state; 0 is "there is no pipeline yet".
At ==
    [name \in {StateSequence[i] : i \in DOMAIN StateSequence} |->
        CHOOSE i \in DOMAIN StateSequence : StateSequence[i] = name]

Positions == 0 .. Len(StateSequence)

\* The gate of the transition that leaves a state.
GateAt ==
    [requirements |-> At["REQUIREMENTS_VALIDATED"],
     architecture |-> At["ARCHITECTURE_GENERATED"],
     contracts    |-> At["CONTRACTS_GENERATED"],
     release      |-> At["DEPLOYED"]]

\* STATE_TO_TASK: the state in which a task of each type runs.
TaskAt ==
    [generate_architecture |-> At["ARCHITECTURE_GENERATING"],
     generate_contracts    |-> At["CONTRACTS_GENERATING"],
     generate_code         |-> At["CODE_GENERATING"],
     generate_tests        |-> At["TESTS_GENERATING"],
     run_tests             |-> At["TESTS_RUNNING"],
     deploy                |-> At["DEPLOYING"],
     release               |-> At["RELEASE_APPROVED"]]

TaskTypes == DOMAIN TaskAt

\* get_next_state: what a completed task moves the workflow to.
StateAfter(type) == TaskAt[type] + 1

\* _REWORK_GATE_TASK_STATES: the work a rejected gate can send back.
ReworkType == [architecture |-> "generate_architecture",
               contracts    |-> "generate_contracts"]

Terminal(state) == state = At["RELEASED"]

----------------------------------------------------------------------------
(* Data.                                                                   *)

Gate ==
    [round    : 1 .. (MaxRound + 1),
     decision : {"none", "approved", "rejected"},
     by       : Processes \cup {None}]

\* Round 0 is the ordinary task of a type, any other a rework of that round.
TaskId ==
    [type : TaskTypes, round : {0}, attempt : {0}]
      \cup [type : {ReworkType[g] : g \in DOMAIN ReworkType},
            round : 1 .. MaxRound, attempt : 1 .. MaxRework]

\* What the properties tell apart in a workflow's context.
Context == [edits : 0 .. MaxEdits, gates : [GateIds -> Gate]]

\* What a task is published with.
Payload == [context : Context, reason : Reasons \cup {None}]

TaskStatus == {"PENDING", "RETRYING", "SUCCEEDED", "FAILED"}

Snapshot ==
    [state   : Positions,
     context : Context,
     tasks   : UNION {[T -> [status : TaskStatus, payload : Payload]] :
                        T \in SUBSET TaskId}]

Message ==
    [status   : {"pending", "leased", "completed", "dead_letter"},
     attempts : 0 .. MaxAttempts,
     worker   : Workers \cup {None},
     lapsed   : BOOLEAN,                    \* lease_until < now
     payload  : Payload]

NoSnapshot ==
    [state   |-> 0,
     context |-> [edits |-> 0,
                  gates |-> [g \in GateIds |->
                    [round |-> 1, decision |-> "none", by |-> None]]],
     tasks   |-> <<>>]

----------------------------------------------------------------------------
(* Reading a copy.                                                         *)

Decision(s, g) == s.context.gates[g].decision
Round(s, g)    == s.context.gates[g].round

\* _blocking_gate
Blocks(s, g) == GateAt[g] = s.state /\ Decision(s, g) # "approved"

\* Mutated form: a decided gate no longer blocks, whatever was decided.
HasPendingGateUndecided(s) ==
    \E g \in GateIds : GateAt[g] = s.state /\ Decision(s, g) = "none"

HasPendingGate(s) == \E g \in GateIds : Blocks(s, g)

TaskStates == {TaskAt[y] : y \in TaskTypes}
IsTaskState(state) == state \in TaskStates
OrdinaryTask(y) == [type |-> y, round |-> 0, attempt |-> 0]
TaskOf(state) == OrdinaryTask(CHOOSE y \in TaskTypes : TaskAt[y] = state)

\* advance_pipeline looks for any task of the type, a rework included.
TaskExists(s) == \E t \in DOMAIN s.tasks : TaskAt[t.type] = s.state

\* _active_rework_task
ReworksOf(s, g, r) ==
    {t \in DOMAIN s.tasks : t.type = ReworkType[g] /\ t.round = r}
ActiveRework(s, g) ==
    \E t \in (IF g \in DOMAIN ReworkType THEN ReworksOf(s, g, Round(s, g)) ELSE {}) :
        s.tasks[t].status \in {"PENDING", "RETRYING"}

GateOf(t) == CHOOSE g \in DOMAIN ReworkType : ReworkType[g] = t.type

\* Mutated form: the round of the rework is not compared.
ReworkIsCurrentRejected(s, t) == Decision(s, GateOf(t)) = "rejected"

\* A rework counts only in its own round, while that round is rejected.
ReworkIsCurrent(s, t) ==
    /\ t.round = Round(s, GateOf(t))
    /\ Decision(s, GateOf(t)) = "rejected"

----------------------------------------------------------------------------
(* Writing a copy.                                                         *)

SetGate(s, g, r, d, p) ==
    [s EXCEPT !.context.gates[g] = [round |-> r, decision |-> d, by |-> p]]

SetTask(s, t, status) == [s EXCEPT !.tasks[t].status = status]

AddTask(s, t, reason) ==
    [s EXCEPT !.tasks =
        [u \in DOMAIN @ \cup {t} |->
            IF u = t
            THEN [status  |-> "PENDING",
                  payload |-> [context |-> s.context, reason |-> reason]]
            ELSE @[u]]]

\* handle_task_completion and _handle_rework_task_completion.
Completed(s, t) ==
    LET done == SetTask(s, t, "SUCCEEDED")
    IN  IF t.round = 0 THEN [done EXCEPT !.state = StateAfter(t.type)]
        ELSE IF ReworkIsCurrent(s, t)
             THEN SetGate(done, GateOf(t), Round(s, GateOf(t)) + 1, "none", None)
             ELSE done

----------------------------------------------------------------------------
(* The shared tables.                                                      *)

\* _restore: a missing row forgets the revision and keeps the copy.
Load(p) ==
    /\ mem' = [mem EXCEPT ![p] = IF row.revision = 0 THEN @ ELSE row.snapshot]
    /\ rev' = [rev EXCEPT ![p] = row.revision]

\* publish is idempotent for an equal payload.  ack adds the result to the
\* payload, so a completed message equals no publication.
Publishable(t, payload) ==
    t \in DOMAIN msg => msg[t].status # "completed" /\ msg[t].payload = payload

NewMessage(payload) ==
    [status |-> "pending", attempts |-> 0, worker |-> None, lapsed |-> FALSE,
     payload |-> payload]

\* The messages after publishing tasks, given with their payloads.
Published(new) ==
    [t \in DOMAIN msg \cup DOMAIN new |->
        IF t \in DOMAIN msg THEN msg[t] ELSE NewMessage(new[t])]

Owned(p) == LET m == msg[job[p]] IN m.status = "leased" /\ m.worker = p

Waiting(m) == m.status = "pending" \/ (m.status = "leased" /\ m.lapsed)
Claimable(m) == Waiting(m) /\ m.attempts < MaxAttempts

\* claim first dead-letters what has no attempt left.
Swept ==
    [t \in DOMAIN msg |->
        IF Waiting(msg[t]) /\ msg[t].attempts >= MaxAttempts
        THEN [msg[t] EXCEPT !.status = "dead_letter", !.worker = None, !.lapsed = FALSE]
        ELSE msg[t]]

\* The message a claim gives to worker p.
Leased(m, p) ==
    [m EXCEPT !.status = "leased", !.worker = p, !.attempts = @ + 1, !.lapsed = FALSE]

----------------------------------------------------------------------------
Goto(t, label) == pc' = [pc EXCEPT ![t] = label]

\* Where a thread continues when advance_pipeline returns, or raises: an
\* API request ends; a worker acknowledges its message, or fails it.
Returned(t) == IF t \in Workers THEN "ack" ELSE "idle"
Raised(t)   == IF t \in Workers THEN "fail" ELSE "idle"

\* A worker reloads its copy before every claim, so an idle one keeps none.
Rest(w) ==
    /\ job' = [job EXCEPT ![w] = None]
    /\ mem' = [mem EXCEPT ![w] = NoSnapshot]
    /\ rev' = [rev EXCEPT ![w] = 0]
    /\ Goto(w, "idle")

\* _persist: the copy of t's process becomes s, and s is what save is given,
\* whatever the copy and its revision are when the database is reached.
Persist(t, s, after) ==
    /\ mem' = [mem EXCEPT ![Home(t)] = s]
    /\ local' = [local EXCEPT ![t] = [snapshot |-> s, after |-> after, base |-> 0]]
    /\ Goto(t, "save")

Init ==
    /\ row = [revision |-> 0, snapshot |-> NoSnapshot]
    /\ msg = <<>>
    /\ mem = [p \in Processes |-> NoSnapshot]
    /\ rev = [p \in Processes |-> 0]
    /\ pc  = [t \in Threads |-> "idle"]
    /\ local = [t \in Threads |-> None]
    /\ job = [w \in Workers |-> None]
    /\ faults = 0

Fault == faults < MaxFaults /\ faults' = faults + 1

----------------------------------------------------------------------------
(* save: the UPDATE (or the SELECT before the first INSERT), then the      *)
(* commit.  _revision moves before the commit, and stays moved if it fails. *)

\* Mutated form: any row that was loaded may be replaced.
IsCurrentRow(p) == rev[p] # 0 \/ row.revision = 0

IsCurrent(p) == rev[p] = row.revision

\* An UPDATE that is not committed keeps other UPDATEs of the row waiting.
RowLocked == \E u \in Threads : pc[u] = "commit" /\ local[u].base # 0

\* The save was refused: a record of a failure is dropped, as is a request.
SaveRaised(t) == IF local[t].after = "idle" THEN "idle" ELSE Raised(t)

Save(t) ==
    /\ pc[t] = "save"
    /\ IF IsCurrent(Home(t))
       THEN /\ rev[Home(t)] # 0 => ~RowLocked
            /\ local' = [local EXCEPT ![t].base = row.revision]
            /\ Goto(t, "commit")
       ELSE /\ local' = [local EXCEPT ![t] = None]
            /\ Goto(t, SaveRaised(t))
    /\ UNCHANGED <<row, msg, mem, rev, job, faults>>

\* _revision = 0, or _revision += 1 whatever it has become in the meantime.
MovedRevision(t) ==
    [rev EXCEPT ![Home(t)] = IF local[t].base = 0 THEN 1 ELSE @ + 1]

Commit(t) ==
    /\ pc[t] = "commit"
    /\ row.revision = local[t].base
    /\ row' = [revision |-> row.revision + 1, snapshot |-> local[t].snapshot]
    /\ rev' = MovedRevision(t)
    /\ local' = [local EXCEPT ![t] = None]
    /\ Goto(t, local[t].after)
    /\ UNCHANGED <<msg, mem, job, faults>>

\* The row was inserted by another, or the database fails.
CommitFails(t) ==
    /\ pc[t] = "commit"
    /\ IF row.revision = local[t].base THEN Fault ELSE faults' = faults
    /\ rev' = MovedRevision(t)
    /\ local' = [local EXCEPT ![t] = None]
    /\ Goto(t, SaveRaised(t))
    /\ UNCHANGED <<row, msg, mem, job>>

----------------------------------------------------------------------------
(* API requests.  Each works on the copy the process has.                  *)

\* A thread takes a request; one that overlaps another of its process is
\* counted with the faults.
Begin(t) ==
    /\ pc[t] = "idle"
    /\ IF \E u \in ThreadsOf(Home(t)) : pc[u] # "idle" THEN Fault ELSE faults' = faults

\* The id is fresh: no other process has heard of this workflow.
StartPipeline(t) ==
    /\ Begin(t)
    /\ row.revision = 0 /\ \A q \in Processes : mem[q].state = 0
    /\ Persist(t, [mem[Home(t)] EXCEPT !.state = At["REQUIREMENTS_VALIDATED"]], "advance")
    /\ UNCHANGED <<row, msg, rev, job>>

UpdateRequirements(t) ==
    LET s == mem[Home(t)]
    IN  /\ Begin(t)
        /\ s.state = At["REQUIREMENTS_VALIDATED"]
        /\ s.context.edits < MaxEdits
        /\ Persist(t, [s EXCEPT !.context.edits = @ + 1], "idle")
        /\ UNCHANGED <<row, msg, rev, job>>

AdvanceRequest(t) ==
    /\ Begin(t)
    /\ mem[Home(t)].state # 0
    /\ ~HasPendingGate(mem[Home(t)])
    /\ Goto(t, "advance")
    /\ UNCHANGED <<row, msg, mem, rev, local, job>>

\* Any undecided gate may be decided, the blocking one or not.
DecideGate(t, g, d) ==
    LET s == mem[Home(t)]
    IN  /\ Begin(t)
        /\ s.state # 0
        /\ Decision(s, g) = "none"
        /\ Persist(t, SetGate(s, g, Round(s, g), d, Home(t)),
                   IF d = "approved" THEN "advance" ELSE "idle")
        /\ UNCHANGED <<row, msg, rev, job>>

\* The current blocking gate, rejected and with no rework under way.
MayReopen(s, g) ==
    /\ Blocks(s, g)
    /\ Decision(s, g) = "rejected"
    /\ ~ActiveRework(s, g)

RetryGate(t, g) ==
    LET s == mem[Home(t)]
    IN  /\ Begin(t)
        /\ MayReopen(s, g)
        /\ Round(s, g) <= MaxRound
        /\ Persist(t, SetGate(s, g, Round(s, g) + 1, "none", None), "idle")
        /\ UNCHANGED <<row, msg, rev, job>>

\* The new task is in the copy before it is published.
AddAndPublish(t, id, reason) ==
    LET s == AddTask(mem[Home(t)], id, reason)
    IN  /\ mem' = [mem EXCEPT ![Home(t)] = s]
        /\ local' = [local EXCEPT ![t] = [id |-> id, payload |-> s.tasks[id].payload]]
        /\ Goto(t, "publish")

RequestRework(t, g) ==
    LET s == mem[Home(t)]
        r == Round(s, g)
        attempt == 1 + Cardinality(ReworksOf(s, g, r))
    IN  /\ Begin(t)
        /\ MayReopen(s, g)
        /\ g \in DOMAIN ReworkType
        /\ r <= MaxRound /\ attempt <= MaxRework
        /\ \E reason \in Reasons :
             AddAndPublish(t, [type |-> ReworkType[g], round |-> r, attempt |-> attempt],
                           reason)
        /\ UNCHANGED <<row, msg, rev, job>>

\* A thread of the process lists executions and reloads the copy.
Refresh(t) ==
    /\ Begin(t)
    /\ Load(Home(t))
    /\ UNCHANGED <<row, msg, pc, local, job>>

----------------------------------------------------------------------------
(* advance_pipeline, in an API process or in a worker.                     *)

AdvanceStop(t) ==
    LET s == mem[Home(t)]
    IN  /\ pc[t] = "advance"
        /\ \/ Terminal(s.state)
           \/ HasPendingGate(s)
           \/ IsTaskState(s.state) /\ TaskExists(s)
           \/ s.state >= Horizon
        /\ Goto(t, Returned(t))
        /\ UNCHANGED <<row, msg, mem, rev, local, job, faults>>

AdvanceState(t) ==
    LET s == mem[Home(t)]
    IN  /\ pc[t] = "advance"
        /\ s.state < Horizon
        /\ ~Terminal(s.state)
        /\ ~HasPendingGate(s)
        /\ ~IsTaskState(s.state)
        /\ Persist(t, [s EXCEPT !.state = @ + 1], "advance")
        /\ UNCHANGED <<row, msg, rev, job, faults>>

CreateTask(t) ==
    LET s == mem[Home(t)]
    IN  /\ pc[t] = "advance"
        /\ s.state < Horizon
        /\ IsTaskState(s.state)
        /\ ~HasPendingGate(s)
        /\ ~TaskExists(s)
        /\ AddAndPublish(t, TaskOf(s.state), None)
        /\ UNCHANGED <<row, msg, rev, job, faults>>

\* The copy is persisted next, as other threads have left it.
PublishTask(t) ==
    /\ pc[t] = "publish"
    /\ Publishable(local[t].id, local[t].payload)
    /\ msg' = Published([id \in {local[t].id} |-> local[t].payload])
    /\ Persist(t, mem[Home(t)], Returned(t))
    /\ UNCHANGED <<row, rev, job, faults>>

\* Mutated form: the task is given up with the publication.
PublishFailsTask(t) ==
    LET s == mem[Home(t)]
    IN  /\ pc[t] = "publish"
        /\ IF Publishable(local[t].id, local[t].payload) THEN Fault ELSE faults' = faults
        /\ mem' = [mem EXCEPT ![Home(t)] =
                     IF local[t].id \in DOMAIN s.tasks
                     THEN SetTask(s, local[t].id, "FAILED") ELSE s]
        /\ local' = [local EXCEPT ![t] = None]
        /\ Goto(t, Raised(t))
        /\ UNCHANGED <<row, msg, rev, job>>

\* A message that differs, or a failing database: the task stays in the copy.
PublishFails(t) ==
    /\ pc[t] = "publish"
    /\ IF Publishable(local[t].id, local[t].payload) THEN Fault ELSE faults' = faults
    /\ local' = [local EXCEPT ![t] = None]
    /\ Goto(t, Raised(t))
    /\ UNCHANGED <<row, msg, mem, rev, job>>

----------------------------------------------------------------------------
(* A worker: restore, claim, execute, complete or fail.                    *)

Poll(w) ==
    /\ pc[w] = "idle"
    /\ Load(w)
    /\ Goto(w, "polled")
    /\ UNCHANGED <<row, msg, local, job, faults>>

Claim(w) ==
    /\ pc[w] = "polled"
    /\ IF \E t \in DOMAIN msg : Claimable(msg[t])
       THEN \E t \in {u \in DOMAIN msg : Claimable(msg[u])} :
              /\ msg' = [Swept EXCEPT ![t] = Leased(msg[t], w)]
              /\ job' = [job EXCEPT ![w] = t]
              /\ Goto(w, "work")
            /\ UNCHANGED <<mem, rev>>
       ELSE msg' = Swept /\ Rest(w)
    /\ UNCHANGED <<row, local, faults>>

ExecutionFails(w) ==
    /\ pc[w] = "work"
    /\ Goto(w, "fail")
    /\ UNCHANGED <<row, msg, mem, rev, local, job, faults>>

\* complete_task: the pipeline moves first.  A task the copy does not know
\* moves nothing.
Complete(w) ==
    /\ pc[w] = "work"
    /\ IF job[w] \in DOMAIN mem[w].tasks
       THEN Persist(w, Completed(mem[w], job[w]),
                    IF job[w].round = 0 THEN "advance" ELSE "ack")
       ELSE Goto(w, "ack") /\ UNCHANGED <<mem, local>>
    /\ UNCHANGED <<row, msg, rev, job, faults>>

Ack(w) ==
    /\ pc[w] = "ack"
    /\ IF Owned(w)
       THEN /\ msg' = [msg EXCEPT ![job[w]].status = "completed", ![job[w]].lapsed = FALSE]
            /\ Rest(w)
       ELSE Goto(w, "fail") /\ UNCHANGED <<msg, mem, rev, job>>
    /\ UNCHANGED <<row, local, faults>>

Fail(w) ==
    /\ pc[w] = "fail"
    /\ IF Owned(w)
       THEN /\ msg' = [msg EXCEPT ![job[w]] =
                        [@ EXCEPT !.status = IF msg[job[w]].attempts < MaxAttempts
                                               THEN "pending" ELSE "dead_letter",
                                  !.worker = None, !.lapsed = FALSE]]
            /\ Goto(w, "failed") /\ UNCHANGED <<mem, rev, job>>
       ELSE msg' = msg /\ Rest(w)
    /\ UNCHANGED <<row, local, faults>>

\* fail_task reads the message again and aligns the domain task with it.
\* (The snapshot is all that is left of the copy: the worker rests next.)
RecordFailure(w) ==
    /\ pc[w] = "failed"
    /\ IF job[w] \in DOMAIN mem[w].tasks
       THEN /\ local' = [local EXCEPT ![w] =
                 [snapshot |-> SetTask(mem[w], job[w],
                                 IF msg[job[w]].status = "pending" THEN "RETRYING"
                                                                   ELSE "FAILED"),
                  after |-> "idle", base |-> 0]]
            /\ mem' = [mem EXCEPT ![w] = NoSnapshot]
            /\ job' = [job EXCEPT ![w] = None]
            /\ Goto(w, "save") /\ rev' = rev
       ELSE Rest(w) /\ local' = local
    /\ UNCHANGED <<row, msg, faults>>

----------------------------------------------------------------------------
(* Faults.                                                                 *)

\* The lease of a worker that crashed runs out by itself.
Lapse(t) ==
    /\ msg[t].status = "leased"
    /\ ~msg[t].lapsed
    /\ IF job[msg[t].worker] = t THEN Fault ELSE faults' = faults
    /\ msg' = [msg EXCEPT ![t].lapsed = TRUE]
    /\ UNCHANGED <<row, mem, rev, pc, local, job>>

\* (A process that crashes with no request under way only reloads its copy.)
Crash(p) ==
    /\ \E t \in ThreadsOf(p) : pc[t] \notin {"idle", "down"}
    /\ Fault
    /\ mem' = [mem EXCEPT ![p] = NoSnapshot]
    /\ rev' = [rev EXCEPT ![p] = 0]
    /\ pc' = [t \in Threads |-> IF Home(t) = p THEN "down" ELSE pc[t]]
    /\ local' = [t \in Threads |-> IF Home(t) = p THEN None ELSE local[t]]
    /\ job' = [w \in Workers |-> IF w = p THEN None ELSE job[w]]
    /\ UNCHANGED <<row, msg>>

\* Unfinished tasks are published again before the process serves anyone.
Unfinished == {t \in DOMAIN row.snapshot.tasks : row.snapshot.tasks[t].status = "PENDING"}
CanRecreate == \A t \in Unfinished : Publishable(t, row.snapshot.tasks[t].payload)

Recreate(p) ==
    /\ \E t \in ThreadsOf(p) : pc[t] = "down"
    /\ CanRecreate
    /\ Load(p)
    /\ msg' = Published([t \in Unfinished |-> row.snapshot.tasks[t].payload])
    /\ pc' = [t \in Threads |-> IF Home(t) = p THEN "idle" ELSE pc[t]]
    /\ UNCHANGED <<row, local, job, faults>>

----------------------------------------------------------------------------
RequestStep(t) ==
    \/ StartPipeline(t)
    \/ UpdateRequirements(t)
    \/ AdvanceRequest(t)
    \/ \E e \in Decisions : DecideGate(t, e[1], e[2])
    \/ \E g \in GateIds : RetryGate(t, g) \/ RequestRework(t, g)
    \/ Refresh(t)

Advance(t) ==
    \/ AdvanceStop(t) \/ AdvanceState(t)
    \/ CreateTask(t) \/ PublishTask(t) \/ PublishFails(t)

Store(t) == Save(t) \/ Commit(t) \/ CommitFails(t)

WorkerStep(w) ==
    \/ Poll(w) \/ Claim(w)
    \/ ExecutionFails(w) \/ Complete(w)
    \/ Ack(w) \/ Fail(w) \/ RecordFailure(w)

Next ==
    \/ \E t \in Requests : RequestStep(t)
    \/ \E t \in Threads : Advance(t) \/ Store(t)
    \/ \E w \in Workers : WorkerStep(w)
    \/ \E p \in Processes : Crash(p) \/ Recreate(p)
    \/ \E t \in DOMAIN msg : Lapse(t)

Spec == Init /\ [][Next]_vars

----------------------------------------------------------------------------
(* Properties.                                                             *)

PCs == {"idle", "advance", "publish", "save", "commit", "polled", "work", "ack", "fail",
        "failed", "down"}

IsSnapshot(s) ==
    /\ s.state \in Positions
    /\ s.context \in Context
    /\ DOMAIN s.tasks \subseteq TaskId
    /\ \A t \in DOMAIN s.tasks : s.tasks[t] \in [status : TaskStatus, payload : Payload]

Saving(t) == pc[t] \in {"save", "commit"}

IsLocal(t) ==
    /\ pc[t] = "publish" => local[t].id \in TaskId /\ local[t].payload \in Payload
    /\ Saving(t) => /\ IsSnapshot(local[t].snapshot)
                    /\ local[t].after \in {"idle", "advance", "ack"}
                    /\ local[t].base \in Nat

TypeOK ==
    /\ row.revision \in Nat /\ IsSnapshot(row.snapshot)
    /\ DOMAIN msg \subseteq TaskId /\ \A t \in DOMAIN msg : msg[t] \in Message
    /\ \A p \in Processes : IsSnapshot(mem[p]) /\ rev[p] \in Nat
    /\ \A t \in Threads : pc[t] \in PCs /\ IsLocal(t)
    /\ \A w \in Workers : job[w] \in TaskId \cup {None}
    /\ faults \in 0 .. MaxFaults

\* Task t has been handed to a worker.
Delivered(t) == t \in DOMAIN msg /\ msg[t].attempts > 0

\* A stored task that is no longer PENDING was delivered to a worker; so one
\* whose publication failed, or was overtaken by the save of another thread,
\* is still among those a recreated process publishes.  And the types hold.
SettledWasDelivered ==
    /\ TypeOK
    /\ \A t \in DOMAIN row.snapshot.tasks :
         row.snapshot.tasks[t].status # "PENDING" => Delivered(t)

\* The durable workflow is past a gate only with that gate's approval, and
\* past a generating state only with that state's task: no stale copy,
\* late completion or reopened round makes it skip a stage.
StageIsEarned ==
    LET s == row.snapshot
    IN  /\ \A g \in GateIds : s.state > GateAt[g] => Decision(s, g) = "approved"
        /\ \A y \in TaskTypes : s.state > TaskAt[y] => OrdinaryTask(y) \in DOMAIN s.tasks

\* Worker w stores the completion of its job, or the advance that follows.
StoresCompletion(w) ==
    /\ pc[w] = "commit" /\ local[w].after # "idle"
    /\ pc'[w] # "commit"

\* What a worker's completion stores loses or changes no gate decision that
\* was stored since the worker read the row: but for the round that its own
\* rework opens, the gates are those of the row it replaces.
CompletionKeepsDecisions ==
    [][\A w \in Workers, g \in GateIds :
         StoresCompletion(w) =>
           LET old == row.snapshot.context.gates[g]
               new == row'.snapshot.context.gates[g]
           IN  \/ new = old
               \/ /\ job[w].round # 0 /\ g = GateOf(job[w])
                  /\ old.decision = "rejected" /\ new.decision = "none"
                  /\ new.round = old.round + 1]_vars

\* A rework completion opens a decision round only for the gate and the
\* rejected round it was requested in.
ReworkOpensItsRound ==
    [][\A g \in DOMAIN ReworkType, w \in Workers :
         /\ StoresCompletion(w)
         /\ Round(row'.snapshot, g) # Round(row.snapshot, g)
         => job[w] \in ReworksOf(row.snapshot, g, Round(row.snapshot, g))]_vars

\* Recreating a process restores the snapshot and republishes its
\* unfinished tasks.
RecreateRestores == CanRecreate

=============================================================================
