--------------------------- MODULE PipelineProofs ---------------------------
(***************************************************************************)
(* The governed pipeline for every set of API and worker processes, every  *)
(* bound and every horizon.                                                *)
(*                                                                         *)
(* The argument has two halves.  Whatever a thread does to the copy of its *)
(* process keeps the copy earned: past a gate only with its approval, past *)
(* a task only with the task (CopyOK); so it does not matter whose         *)
(* snapshot is saved, or with which revision.  And a worker, whose copy no *)
(* other thread touches, is at the row's revision only if nothing was      *)
(* saved since it read the row, until a commit of its own fails; so its    *)
(* completion changes the row as it changed the copy (Tracked).            *)
(***************************************************************************)
EXTENDS Pipeline, FiniteSetTheorems, TLAPS

----------------------------------------------------------------------------
(* The pipeline's shape.                                                   *)

\* The states are distinct: each has the position it is listed at.
LEMMA Listed ==
  /\ DOMAIN StateSequence = 1 .. 18 /\ Len(StateSequence) = 18
  /\ \A i, j \in 1 .. 18 : StateSequence[i] = StateSequence[j] => i = j
  BY DEF StateSequence

\* The position of a listed state is where it is listed.
LEMMA AtListed == ASSUME NEW i \in 1 .. 18 PROVE At[StateSequence[i]] = i
  BY Listed DEF At

\* The positions of the gated and of the task states.
LEMMA Places ==
  /\ GateAt.requirements = 1 /\ GateAt.architecture = 4
  /\ GateAt.contracts = 7 /\ GateAt.release = 16
  /\ TaskAt.generate_architecture = 3 /\ TaskAt.generate_contracts = 6
  /\ TaskAt.generate_code = 9 /\ TaskAt.generate_tests = 11
  /\ TaskAt.run_tests = 13 /\ TaskAt.deploy = 15 /\ TaskAt.release = 17
  /\ At["RELEASED"] = 18 /\ At["REQUIREMENTS_VALIDATED"] = 1
<1>1. /\ StateSequence[1] = "REQUIREMENTS_VALIDATED"
      /\ StateSequence[3] = "ARCHITECTURE_GENERATING"
      /\ StateSequence[4] = "ARCHITECTURE_GENERATED"
      /\ StateSequence[6] = "CONTRACTS_GENERATING"
      /\ StateSequence[7] = "CONTRACTS_GENERATED"
      /\ StateSequence[9] = "CODE_GENERATING"
      /\ StateSequence[11] = "TESTS_GENERATING"
      /\ StateSequence[13] = "TESTS_RUNNING"
      /\ StateSequence[15] = "DEPLOYING"
      /\ StateSequence[16] = "DEPLOYED"
      /\ StateSequence[17] = "RELEASE_APPROVED"
      /\ StateSequence[18] = "RELEASED"
  BY DEF StateSequence
<1>2. \A i \in 1 .. 18 : At[StateSequence[i]] = i
  BY AtListed
<1>3. /\ At["REQUIREMENTS_VALIDATED"] = 1 /\ At["ARCHITECTURE_GENERATING"] = 3
      /\ At["ARCHITECTURE_GENERATED"] = 4 /\ At["CONTRACTS_GENERATING"] = 6
      /\ At["CONTRACTS_GENERATED"] = 7 /\ At["CODE_GENERATING"] = 9
      /\ At["TESTS_GENERATING"] = 11 /\ At["TESTS_RUNNING"] = 13
      /\ At["DEPLOYING"] = 15 /\ At["DEPLOYED"] = 16
      /\ At["RELEASE_APPROVED"] = 17 /\ At["RELEASED"] = 18
  BY <1>1, <1>2
<1> QED
  BY <1>3 DEF GateAt, TaskAt

\* What the proofs need of the shape: a state has a gate or a task, not both,
\* at most one task, and a gated rework redoes a task.
LEMMA Shape ==
  /\ Positions = 0 .. 18
  /\ At["RELEASED"] = 18 /\ At["REQUIREMENTS_VALIDATED"] = 1
  /\ \A g \in GateIds : GateAt[g] \in 1 .. 18
  /\ \A y \in TaskTypes : TaskAt[y] \in 1 .. 17 /\ StateAfter(y) = TaskAt[y] + 1
  /\ \A g \in GateIds, y \in TaskTypes : GateAt[g] # TaskAt[y]
  /\ \A y, z \in TaskTypes : TaskAt[y] = TaskAt[z] => y = z
  /\ \A g \in GateIds : GateAt[g] = 1 <=> g = "requirements"
  /\ DOMAIN ReworkType \subseteq GateIds
  /\ \A g \in DOMAIN ReworkType : ReworkType[g] \in TaskTypes
  /\ \A g, h \in DOMAIN ReworkType : ReworkType[g] = ReworkType[h] => g = h
<1>1. TaskTypes = {"generate_architecture", "generate_contracts", "generate_code",
                   "generate_tests", "run_tests", "deploy", "release"}
  BY DEF TaskTypes, TaskAt
<1>2. Positions = 0 .. 18
  BY Listed DEF Positions
<1>3. \A g \in GateIds : GateAt[g] \in {1, 4, 7, 16} /\ (GateAt[g] = 1 <=> g = "requirements")
  BY Places DEF GateIds
<1>4. /\ \A y \in TaskTypes : TaskAt[y] \in {3, 6, 9, 11, 13, 15, 17}
      /\ \A y, z \in TaskTypes : TaskAt[y] = TaskAt[z] => y = z
  BY <1>1, Places
<1>5. /\ DOMAIN ReworkType = {"architecture", "contracts"}
      /\ ReworkType["architecture"] = "generate_architecture"
      /\ ReworkType["contracts"] = "generate_contracts"
  BY DEF ReworkType
<1>6. \A g \in GateIds : GateAt[g] \in 1 .. 18
  BY <1>3
<1>7. \A y \in TaskTypes : TaskAt[y] \in 1 .. 17 /\ StateAfter(y) = TaskAt[y] + 1
  BY <1>4 DEF StateAfter
<1>8. \A g \in GateIds, y \in TaskTypes : GateAt[g] # TaskAt[y]
  BY <1>3, <1>4
<1> QED
  BY <1>1, <1>2, <1>3, <1>4, <1>5, <1>6, <1>7, <1>8, Places DEF GateIds

----------------------------------------------------------------------------
(* The inductive invariant.                                                *)

\* A well-formed copy of the snapshot.
Copy(s) == DOMAIN s = {"state", "context", "tasks"} /\ IsSnapshot(s)

\* The copy is past a gate with its approval and past a task with the task.
Earned(s) ==
    /\ \A g \in GateIds : s.state > GateAt[g] => Decision(s, g) = "approved"
    /\ \A y \in TaskTypes : s.state > TaskAt[y] => OrdinaryTask(y) \in DOMAIN s.tasks

\* So it was when a task was created: its completion may come late, and moves
\* the copy to just after the task from wherever it is.
TasksEarned(s) ==
    \A y \in TaskTypes : OrdinaryTask(y) \in DOMAIN s.tasks =>
        /\ \A g \in GateIds : GateAt[g] < TaskAt[y] => Decision(s, g) = "approved"
        /\ \A z \in TaskTypes : TaskAt[z] < TaskAt[y] => OrdinaryTask(z) \in DOMAIN s.tasks

CopyOK(s) == Copy(s) /\ Earned(s) /\ TasksEarned(s)

\* Every task of the copy that is not PENDING was delivered, says table m.
SettledIn(s, m) ==
    \A t \in DOMAIN s.tasks :
        s.tasks[t].status # "PENDING" => t \in DOMAIN m /\ m[t].attempts > 0

Good(s, m) == CopyOK(s) /\ SettledIn(s, m)

MessagesOK(m) == DOMAIN m \subseteq TaskId /\ \A t \in DOMAIN m : m[t] \in Message

\* What a thread at label l may have in its local variables.
LocalOK(l, x, m) ==
    /\ l = "publish" => x.id \in TaskId /\ x.payload \in Payload
    /\ l \in {"save", "commit"} =>
         /\ DOMAIN x = {"snapshot", "after", "base"}
         /\ Good(x.snapshot, m)
         /\ x.after \in {"idle", "advance", "ack"}
         /\ x.base \in Nat

Types ==
    /\ row.revision \in Nat
    /\ MessagesOK(msg)
    /\ DOMAIN mem = Processes /\ DOMAIN local = Threads
    /\ rev \in [Processes -> Nat]
    /\ pc \in [Threads -> PCs]
    /\ job \in [Workers -> TaskId \cup {None}]
    /\ faults \in 0 .. MaxFaults

\* Every copy is earned, wherever it is, and settles delivered tasks only.
Copies ==
    /\ Good(row.snapshot, msg)
    /\ \A p \in Processes : Good(mem[p], msg)
    /\ \A t \in Threads : LocalOK(pc[t], local[t], msg)

\* q has the gates of s, but for the round that rework t opens.
KeepsGates(s, q, t) ==
    \A g \in GateIds :
        \/ q.context.gates[g] = s.context.gates[g]
        \/ /\ g \in DOMAIN ReworkType
           /\ t \in ReworksOf(s, g, Round(s, g))
           /\ Decision(s, g) = "rejected"
           /\ Decision(q, g) = "none"
           /\ Round(q, g) = Round(s, g) + 1

\* The worker's save records a failure: its copy and its job are given up.
Recording(w) == Saving(w) /\ local[w].after = "idle"

\* The worker has a job.
Holds(w) ==
    \/ pc[w] \in {"work", "ack", "fail", "failed", "advance", "publish"}
    \/ Saving(w) /\ local[w].after # "idle"

\* The worker has loaded the row, and no save of its own has failed.
Tracks(w) ==
    \/ pc[w] \in {"polled", "work", "advance", "publish"}
    \/ Saving(w) /\ local[w].after # "idle"

\* If nobody has saved since, its copy is the row's, but for what it has done.
Tracked(w) ==
    /\ rev[w] <= row.revision
    /\ Saving(w) => local[w].snapshot = mem[w]
    /\ pc[w] = "commit" => local[w].base = rev[w]
    /\ rev[w] = row.revision =>
         /\ pc[w] \in {"polled", "work"} => mem[w] = row.snapshot
         /\ pc[w] \in {"advance", "publish"} =>
              mem[w].context.gates = row.snapshot.context.gates
         /\ Saving(w) => KeepsGates(row.snapshot, mem[w], job[w])

WorkerOK(w) ==
    /\ Holds(w) => job[w] \in TaskId /\ Delivered(job[w])
    /\ row.revision = 0 /\ (pc[w] \in {"idle", "down"} \/ Recording(w)) => mem[w] = NoSnapshot
    /\ Tracks(w) => Tracked(w)

IInv ==
    /\ Types
    /\ Copies
    /\ row.revision = 0 => row.snapshot = NoSnapshot
    /\ \A w \in Workers : WorkerOK(w)

----------------------------------------------------------------------------
(* Writing a copy.                                                         *)

TaskEntry == [status : TaskStatus, payload : Payload]

\* A copy with another state.
LEMMA StateWritten ==
  ASSUME NEW s, Copy(s), NEW n \in Positions
  PROVE  LET q == [s EXCEPT !.state = n]
         IN Copy(q) /\ q.state = n /\ q.context = s.context /\ q.tasks = s.tasks
  BY DEF Copy, IsSnapshot

\* A copy with one more edit of the requirements.
LEMMA EditWritten ==
  ASSUME NEW s, Copy(s), s.context.edits < MaxEdits
  PROVE  LET q == [s EXCEPT !.context.edits = @ + 1]
         IN /\ Copy(q) /\ q.state = s.state /\ q.tasks = s.tasks
            /\ q.context.gates = s.context.gates
<1> DEFINE c == [s.context EXCEPT !.edits = @ + 1]
<1>1. s.context \in Context /\ MaxEdits \in Nat
  BY PipelineAssumption DEF Copy, IsSnapshot
<1>2. s.context.edits + 1 \in 0 .. MaxEdits
  BY <1>1 DEF Context
<1>3. c \in Context /\ c.gates = s.context.gates
  BY <1>1, <1>2 DEF Context
<1>4. [s EXCEPT !.context.edits = @ + 1] = [s EXCEPT !.context = c]
  BY DEF Copy
<1> HIDE DEF c
<1> QED
  BY <1>3, <1>4 DEF Copy, IsSnapshot

\* A copy with one gate set, and the others as they were.
LEMMA GateWritten ==
  ASSUME NEW s, Copy(s), NEW g \in GateIds, NEW r \in 1 .. (MaxRound + 1),
         NEW d \in {"none", "approved", "rejected"},
         NEW p \in Processes \cup {None}
  PROVE  LET q == SetGate(s, g, r, d, p)
         IN /\ Copy(q) /\ q.state = s.state /\ q.tasks = s.tasks
            /\ \A h \in GateIds :
                 q.context.gates[h] = IF h = g
                                      THEN [round |-> r, decision |-> d, by |-> p]
                                      ELSE s.context.gates[h]
<1> DEFINE e == [round |-> r, decision |-> d, by |-> p]
<1> DEFINE c == [s.context EXCEPT !.gates = [@ EXCEPT ![g] = e]]
<1>1. s.context \in Context /\ e \in Gate
  BY DEF Copy, IsSnapshot, Gate
<1>2. /\ c \in Context
      /\ \A h \in GateIds : c.gates[h] = IF h = g THEN e ELSE s.context.gates[h]
  <2> HIDE DEF e
  <2> QED
    BY <1>1 DEF Context
<1>3. SetGate(s, g, r, d, p) = [s EXCEPT !.context = c]
  BY DEF SetGate, Copy
<1> HIDE DEF c, e
<1>4. LET q == [s EXCEPT !.context = c]
      IN Copy(q) /\ q.state = s.state /\ q.tasks = s.tasks /\ q.context = c
  BY <1>2 DEF Copy, IsSnapshot
<1> QED
  BY <1>2, <1>3, <1>4 DEF e

\* A copy with the status of one task set.
LEMMA TaskWritten ==
  ASSUME NEW s, Copy(s), NEW t \in DOMAIN s.tasks, NEW status \in TaskStatus
  PROVE  LET q == SetTask(s, t, status)
         IN /\ Copy(q) /\ q.state = s.state /\ q.context = s.context
            /\ DOMAIN q.tasks = DOMAIN s.tasks
            /\ \A u \in DOMAIN s.tasks : u # t => q.tasks[u] = s.tasks[u]
<1> DEFINE e == [s.tasks[t] EXCEPT !.status = status]
<1> DEFINE f == [s.tasks EXCEPT ![t] = e]
<1>1. /\ DOMAIN s.tasks \subseteq TaskId
      /\ \A u \in DOMAIN s.tasks : s.tasks[u] \in TaskEntry
  BY DEF Copy, IsSnapshot, TaskEntry
<1>2. e \in TaskEntry
  BY <1>1 DEF TaskEntry
<1>3. SetTask(s, t, status) = [s EXCEPT !.tasks = f]
  BY DEF SetTask, Copy
<1> HIDE DEF e
<1>4. /\ DOMAIN f = DOMAIN s.tasks /\ \A u \in DOMAIN f : f[u] \in TaskEntry
      /\ \A u \in DOMAIN s.tasks : u # t => f[u] = s.tasks[u]
  BY <1>1, <1>2
<1> HIDE DEF f
<1> QED
  BY <1>1, <1>3, <1>4 DEF Copy, IsSnapshot, TaskEntry

\* A copy with a new task, which carries the copy's context.
LEMMA TaskAdded ==
  ASSUME NEW s, Copy(s), NEW t \in TaskId, NEW reason \in Reasons \cup {None}
  PROVE  LET q == AddTask(s, t, reason)
         IN /\ Copy(q) /\ q.state = s.state /\ q.context = s.context
            /\ DOMAIN q.tasks = DOMAIN s.tasks \cup {t}
            /\ q.tasks[t].payload \in Payload /\ q.tasks[t].status = "PENDING"
            /\ \A u \in DOMAIN s.tasks : u # t => q.tasks[u] = s.tasks[u]
<1> DEFINE e == [status  |-> "PENDING",
                 payload |-> [context |-> s.context, reason |-> reason]]
<1> DEFINE f == [u \in DOMAIN s.tasks \cup {t} |-> IF u = t THEN e ELSE s.tasks[u]]
<1>1. /\ DOMAIN s.tasks \subseteq TaskId /\ s.context \in Context
      /\ \A u \in DOMAIN s.tasks : s.tasks[u] \in TaskEntry
  BY DEF Copy, IsSnapshot, TaskEntry
<1>2. e \in TaskEntry /\ e.payload \in Payload /\ e.status = "PENDING"
  BY <1>1 DEF TaskEntry, TaskStatus, Payload
<1>3. AddTask(s, t, reason) = [s EXCEPT !.tasks = f]
  BY DEF AddTask, Copy
<1> HIDE DEF e
<1>4. /\ DOMAIN f = DOMAIN s.tasks \cup {t} /\ f[t] = e
      /\ \A u \in DOMAIN f : f[u] \in TaskEntry
      /\ \A u \in DOMAIN s.tasks : u # t => f[u] = s.tasks[u]
  BY <1>1, <1>2
<1> HIDE DEF f
<1> QED
  BY <1>1, <1>2, <1>3, <1>4 DEF Copy, IsSnapshot, TaskEntry

----------------------------------------------------------------------------
(* What a process does to its copy keeps it earned.                        *)

\* Approvals stay.
KeepsApprovals(s, q) ==
    \A g \in GateIds : Decision(s, g) = "approved" => Decision(q, g) = "approved"

\* A change of the context, or of the status of a task, that takes back no
\* approval.
LEMMA KeptEarned ==
  ASSUME NEW s, CopyOK(s), NEW q, Copy(q), q.state = s.state,
         DOMAIN q.tasks = DOMAIN s.tasks, KeepsApprovals(s, q)
  PROVE  CopyOK(q)
  BY DEF CopyOK, Earned, TasksEarned, KeepsApprovals

\* The step to the next state, from a state with no blocking gate and no task.
LEMMA AdvanceEarned ==
  ASSUME NEW s, CopyOK(s), ~HasPendingGate(s), ~IsTaskState(s.state),
         ~Terminal(s.state)
  PROVE  CopyOK([s EXCEPT !.state = @ + 1])
<1> DEFINE q == [s EXCEPT !.state = @ + 1]
<1>1. Copy(s) /\ s.state \in 0 .. 17
  BY Shape DEF CopyOK, Copy, IsSnapshot, Terminal
<1>2. s.state + 1 \in Positions
  BY <1>1, Shape
<1>3. q = [s EXCEPT !.state = s.state + 1]
  BY <1>1 DEF Copy
<1>4. Copy(q) /\ q.state = s.state + 1 /\ q.context = s.context /\ q.tasks = s.tasks
  BY <1>1, <1>2, <1>3, StateWritten
<1> HIDE DEF q
<1>5. \A g \in GateIds : Decision(q, g) = Decision(s, g)
  BY <1>4 DEF Decision
<1>6. Earned(q)
  <2>1. ASSUME NEW g \in GateIds, q.state > GateAt[g] PROVE Decision(q, g) = "approved"
    <3>1. s.state > GateAt[g] \/ s.state = GateAt[g]
      BY <1>1, <1>4, <2>1, Shape
    <3> QED
      BY <1>5, <3>1 DEF CopyOK, Earned, HasPendingGate, Blocks
  <2>2. ASSUME NEW y \in TaskTypes, q.state > TaskAt[y]
        PROVE  OrdinaryTask(y) \in DOMAIN q.tasks
    <3>1. s.state > TaskAt[y] \/ s.state = TaskAt[y]
      BY <1>1, <1>4, <2>2, Shape
    <3> QED
      BY <1>4, <3>1 DEF CopyOK, Earned, IsTaskState, TaskStates
  <2> QED
    BY <2>1, <2>2 DEF Earned
<1>7. TasksEarned(q)
  BY <1>4, <1>5 DEF CopyOK, TasksEarned
<1> QED
  BY <1>4, <1>6, <1>7 DEF CopyOK, q

\* The task of the state the copy is in may be added, and any rework.
LEMMA AddEarned ==
  ASSUME NEW s, CopyOK(s), NEW t \in TaskId, NEW reason \in Reasons \cup {None},
         t.round # 0 \/ \E y \in TaskTypes : t = OrdinaryTask(y) /\ TaskAt[y] = s.state
  PROVE  CopyOK(AddTask(s, t, reason))
<1> DEFINE q == AddTask(s, t, reason)
<1>1. /\ Copy(q) /\ q.state = s.state /\ q.context = s.context
      /\ DOMAIN q.tasks = DOMAIN s.tasks \cup {t}
  BY TaskAdded DEF CopyOK
<1> HIDE DEF q
<1>2. \A g \in GateIds : Decision(q, g) = Decision(s, g)
  BY <1>1 DEF Decision
<1>3. Earned(q)
  BY <1>1, <1>2 DEF CopyOK, Earned
<1>4. \A y, z \in TaskTypes : OrdinaryTask(y) = OrdinaryTask(z) => y = z
  BY DEF OrdinaryTask
<1>5. \A y \in TaskTypes : OrdinaryTask(y).round = 0
  BY DEF OrdinaryTask
<1>6. ASSUME NEW y \in TaskTypes, OrdinaryTask(y) \in DOMAIN q.tasks
      PROVE  /\ \A g \in GateIds : GateAt[g] < TaskAt[y] => Decision(q, g) = "approved"
             /\ \A z \in TaskTypes : TaskAt[z] < TaskAt[y] => OrdinaryTask(z) \in DOMAIN q.tasks
  <2>1. CASE OrdinaryTask(y) \in DOMAIN s.tasks
    BY <1>1, <1>2, <2>1 DEF CopyOK, TasksEarned
  <2>2. CASE OrdinaryTask(y) = t
    <3>1. TaskAt[y] = s.state
      BY <1>4, <1>5, <2>2
    <3> QED
      BY <1>1, <1>2, <3>1, Shape DEF CopyOK, Earned
  <2> QED
    BY <1>1, <1>6, <2>1, <2>2
<1> QED
  BY <1>1, <1>3, <1>6 DEF CopyOK, TasksEarned, q

\* The gate a rework belongs to.
LEMMA ReworkGate ==
  ASSUME NEW t \in TaskId
  PROVE  /\ t.round = 0 => t.type \in TaskTypes /\ t = OrdinaryTask(t.type)
         /\ t.round # 0 => /\ GateOf(t) \in DOMAIN ReworkType
                           /\ GateOf(t) \in GateIds
                           /\ ReworkType[GateOf(t)] = t.type
                           /\ t.round \in 1 .. MaxRound
<1> DEFINE A == [type : TaskTypes, round : {0}, attempt : {0}]
<1> DEFINE B == [type : {ReworkType[g] : g \in DOMAIN ReworkType},
                 round : 1 .. MaxRound, attempt : 1 .. MaxRework]
<1>1. t \in A \/ t \in B
  BY DEF TaskId
<1>2. CASE t \in A
  BY <1>2 DEF OrdinaryTask
<1>3. CASE t \in B
  <2>1. t.round \in 1 .. MaxRound /\ \E g \in DOMAIN ReworkType : ReworkType[g] = t.type
    BY <1>3
  <2>2. GateOf(t) \in DOMAIN ReworkType /\ ReworkType[GateOf(t)] = t.type
    BY <2>1 DEF GateOf
  <2>3. t.round # 0
    BY <2>1
  <2> QED
    BY <2>1, <2>2, <2>3, Shape
<1> QED
  BY <1>1, <1>2, <1>3

\* What a completion does to a copy that knows the task: an ordinary one moves
\* the state to just after the task; a rework opens the next round of its own
\* rejected round, or nothing.
LEMMA CompletedCopy ==
  ASSUME NEW s, CopyOK(s), NEW t \in DOMAIN s.tasks
  PROVE  LET q == Completed(s, t)
         IN /\ CopyOK(q) /\ DOMAIN q.tasks = DOMAIN s.tasks
            /\ \A u \in DOMAIN s.tasks : u # t => q.tasks[u] = s.tasks[u]
            /\ KeepsGates(s, q, t)
<1> DEFINE d == SetTask(s, t, "SUCCEEDED")
<1> DEFINE q == Completed(s, t)
<1>0. t \in TaskId /\ Copy(s)
  BY DEF CopyOK, Copy, IsSnapshot
<1>1. /\ Copy(d) /\ d.state = s.state /\ d.context = s.context
      /\ DOMAIN d.tasks = DOMAIN s.tasks
      /\ \A u \in DOMAIN s.tasks : u # t => d.tasks[u] = s.tasks[u]
  BY <1>0, TaskWritten DEF TaskStatus
<1>2. CopyOK(d)
  BY <1>1, KeptEarned DEF KeepsApprovals, Decision
<1>3. CASE t.round = 0
  <2> DEFINE n == TaskAt[t.type] + 1
  <2>1. /\ t.type \in TaskTypes /\ t = OrdinaryTask(t.type)
        /\ n \in Positions /\ StateAfter(t.type) = n /\ TaskAt[t.type] \in Nat
    BY <1>0, <1>3, ReworkGate, Shape
  <2>2. q = [d EXCEPT !.state = n]
    BY <1>3, <2>1 DEF Completed
  <2> HIDE DEF d, n
  <2>3. Copy(q) /\ q.state = n /\ q.context = s.context /\ q.tasks = d.tasks
    BY <1>1, <2>1, <2>2, StateWritten
  <2> HIDE DEF q
  <2>4. \A g \in GateIds : Decision(q, g) = Decision(s, g)
    BY <2>3 DEF Decision
  <2>5. TasksEarned(q)
    BY <1>1, <2>3, <2>4 DEF CopyOK, TasksEarned
  <2>6. Earned(q)
    <3>1. /\ \A g \in GateIds : GateAt[g] < TaskAt[t.type] => Decision(q, g) = "approved"
          /\ \A z \in TaskTypes : TaskAt[z] < TaskAt[t.type] => OrdinaryTask(z) \in DOMAIN q.tasks
      BY <1>1, <2>1, <2>3, <2>5 DEF TasksEarned
    <3>2. \A g \in GateIds : n > GateAt[g] => GateAt[g] < TaskAt[t.type]
      BY <2>1, Shape DEF n
    <3>3. \A z \in TaskTypes : n > TaskAt[z] => TaskAt[z] < TaskAt[t.type] \/ z = t.type
      BY <2>1, Shape DEF n
    <3>4. OrdinaryTask(t.type) \in DOMAIN q.tasks
      BY <1>1, <2>1, <2>3
    <3> QED
      BY <2>3, <3>1, <3>2, <3>3, <3>4 DEF Earned
  <2> QED
    BY <1>1, <2>3, <2>5, <2>6 DEF CopyOK, q, KeepsGates
<1>4. CASE t.round # 0 /\ ReworkIsCurrent(s, t)
  <2> DEFINE g == GateOf(t)
  <2>1. /\ g \in GateIds /\ g \in DOMAIN ReworkType /\ ReworkType[g] = t.type
        /\ t.round \in 1 .. MaxRound
    BY <1>0, <1>4, ReworkGate
  <2>2. t.round = Round(s, g) /\ Decision(s, g) = "rejected"
    BY <1>4 DEF ReworkIsCurrent
  <2>3. q = SetGate(d, g, Round(s, g) + 1, "none", None)
    BY <1>4 DEF Completed
  <2>4. Round(s, g) + 1 \in 1 .. (MaxRound + 1)
    BY <2>1, <2>2, PipelineAssumption
  <2> HIDE DEF d, g
  <2>5. /\ Copy(q) /\ q.state = d.state /\ q.tasks = d.tasks
        /\ \A h \in GateIds :
             q.context.gates[h] = IF h = g
                    THEN [round |-> Round(s, g) + 1, decision |-> "none", by |-> None]
                    ELSE d.context.gates[h]
    BY <1>1, <2>1, <2>3, <2>4, GateWritten
  <2> HIDE DEF q
  <2>6. KeepsApprovals(d, q)
    BY <1>1, <2>1, <2>2, <2>5 DEF KeepsApprovals, Decision
  <2>7. CopyOK(q)
    BY <1>2, <2>5, <2>6, KeptEarned
  <2>8. t \in ReworksOf(s, g, Round(s, g))
    BY <2>1, <2>2 DEF ReworksOf
  <2>9. Decision(q, g) = "none" /\ Round(q, g) = Round(s, g) + 1
    BY <2>1, <2>5 DEF Decision, Round
  <2> QED
    BY <1>1, <2>1, <2>2, <2>5, <2>7, <2>8, <2>9 DEF q, KeepsGates
<1>5. CASE t.round # 0 /\ ~ReworkIsCurrent(s, t)
  <2>1. q = d
    BY <1>5 DEF Completed
  <2> QED
    BY <1>1, <1>2, <2>1 DEF KeepsGates
<1> QED
  BY <1>3, <1>4, <1>5

----------------------------------------------------------------------------
(* What a step may do to the tables and to the copy of its process.        *)

\* An unborn pipeline has nothing to earn.
LEMMA EmptyCopy == CopyOK(NoSnapshot) /\ DOMAIN NoSnapshot.tasks = {} /\ NoSnapshot.state = 0
<1> DEFINE e == [round |-> 1, decision |-> "none", by |-> None]
<1> DEFINE c == [edits |-> 0, gates |-> [g \in GateIds |-> e]]
<1>1. /\ DOMAIN NoSnapshot = {"state", "context", "tasks"} /\ NoSnapshot.state = 0
      /\ NoSnapshot.context = c /\ NoSnapshot.tasks = <<>>
  BY DEF NoSnapshot
<1>2. e \in Gate
  BY PipelineAssumption DEF Gate
<1>3. c \in Context
  <2> HIDE DEF e
  <2> QED
    BY <1>2, PipelineAssumption DEF Context
<1>4. DOMAIN <<>> = {}
  OBVIOUS
<1> HIDE DEF c
<1>5. Copy(NoSnapshot)
  BY <1>1, <1>3, <1>4, Shape DEF Copy, IsSnapshot
<1>6. Earned(NoSnapshot) /\ TasksEarned(NoSnapshot)
  BY <1>1, <1>4, Shape DEF Earned, TasksEarned
<1> QED
  BY <1>1, <1>4, <1>5, <1>6 DEF CopyOK

\* What was delivered stays delivered.
Keeps(m, n) ==
    \A t \in DOMAIN m : m[t].attempts > 0 => t \in DOMAIN n /\ n[t].attempts > 0

\* A copy stays good, and so do the local variables of a thread.
LEMMA StaysGood ==
  ASSUME NEW m, NEW n, Keeps(m, n)
  PROVE  /\ \A s : Good(s, m) => Good(s, n)
         /\ \A l, x : LocalOK(l, x, m) => LocalOK(l, x, n)
  BY DEF Good, SettledIn, LocalOK, Keeps

\* Where a thread's copy is: a request thread has no worker's.
LEMMA Homes ==
  /\ \A t \in Workers : Home(t) = t /\ t \in Threads /\ t \in Processes
  /\ \A t \in Requests : Home(t) \in Apis /\ t \notin Workers /\ t \in Threads
                         /\ Home(t) \notin Workers
  /\ \A t \in Threads : Home(t) \in Processes
  BY PipelineAssumption DEF Home, Threads, Processes

\* A worker that takes no step, while the row is replaced at most.
LEMMA OtherWorker ==
  ASSUME IInv, NEW w \in Workers, WorkerOK(w),
         mem'[w] = mem[w], rev'[w] = rev[w], pc'[w] = pc[w], local'[w] = local[w],
         job'[w] = job[w], Keeps(msg, msg'),
         row' = row \/ \E z : row' = [revision |-> row.revision + 1, snapshot |-> z]
  PROVE  WorkerOK(w)'
<1>1. row.revision \in Nat /\ rev[w] \in Nat
  BY Homes DEF IInv, Types
<1>2. Delivered(job[w]) => Delivered(job[w])'
  BY DEF Delivered, Keeps
<1>3. CASE row' = row
  BY <1>2, <1>3 DEF WorkerOK, Holds, Recording, Tracks, Tracked, Saving, KeepsGates, Decision,
     Round, ReworksOf
<1>4. CASE \E z : row' = [revision |-> row.revision + 1, snapshot |-> z]
  <2>1. row'.revision = row.revision + 1
    BY <1>4
  <2>2. row'.revision # 0 /\ (rev[w] <= row.revision =>
          rev[w] <= row'.revision /\ rev[w] # row'.revision)
    BY <1>1, <2>1
  <2> QED
    BY <1>2, <2>2 DEF WorkerOK, Holds, Recording, Tracks, Tracked, Saving
<1> QED
  BY <1>3, <1>4

\* A step of the threads in U, which touches no copy but that of process p:
\* what it must show for the rest of the invariant to be kept.
LEMMA ProcessStep ==
  ASSUME IInv, NEW U, NEW p,
         pc' \in [Threads -> PCs], DOMAIN local' = Threads,
         DOMAIN mem' = Processes, rev' \in [Processes -> Nat],
         \A u \in Threads : u \notin U => pc'[u] = pc[u] /\ local'[u] = local[u],
         \A q \in Processes : q # p => mem'[q] = mem[q] /\ rev'[q] = rev[q],
         MessagesOK(msg'), Keeps(msg, msg'),
         p \in Processes => Good(mem'[p], msg'),
         \A u \in Threads : u \in U => LocalOK(pc'[u], local'[u], msg'),
         job' \in [Workers -> TaskId \cup {None}],
         \A w \in Workers : w \notin U => job'[w] = job[w],
         faults' \in 0 .. MaxFaults,
         \/ row' = row
         \/ \E z : Good(z, msg') /\ row' = [revision |-> row.revision + 1, snapshot |-> z],
         \A w \in Workers : w \in U \/ w = p => WorkerOK(w)'
  PROVE  IInv'
<1>0. row.revision \in Nat
  BY DEF IInv, Types
<1>3. row'.revision \in Nat
  BY <1>0
<1>4. Types'
  BY <1>0, <1>3 DEF IInv, Types, MessagesOK
<1>5. PICK m : m = msg'
  OBVIOUS
<1>6. Good(row'.snapshot, m)
  <2>1. CASE row' = row
    BY <1>5, <2>1, StaysGood DEF IInv, Copies
  <2>2. CASE row' # row
    <3>1. PICK z : Good(z, m) /\ row' = [revision |-> row.revision + 1, snapshot |-> z]
      BY <1>5, <2>2
    <3>2. row'.snapshot = z
      BY <3>1
    <3> QED
      BY <3>1, <3>2
  <2> QED
    BY <2>1, <2>2
<1>7. \A q \in Processes : Good(mem'[q], m)
  BY <1>5, StaysGood DEF IInv, Copies
<1>8. \A u \in Threads : LocalOK(pc'[u], local'[u], m)
  BY <1>5, StaysGood DEF IInv, Copies
<1>9. Copies'
  <2>1. Good(row.snapshot, msg)'
    BY <1>5, <1>6 DEF Good, CopyOK, Copy, IsSnapshot, Earned, TasksEarned, Decision, SettledIn
  <2>2. ASSUME NEW q \in Processes PROVE Good(mem[q], msg)'
    <3>1. PICK z : z = mem'[q] /\ Good(z, m)
      BY <1>7
    <3> QED
      BY <1>5, <3>1 DEF Good, CopyOK, Copy, IsSnapshot, Earned, TasksEarned, Decision, SettledIn
  <2>3. ASSUME NEW u \in Threads PROVE LocalOK(pc[u], local[u], msg)'
    <3>1. PICK k, y : k = pc'[u] /\ y = local'[u] /\ LocalOK(k, y, m)
      BY <1>8
    <3>2. ASSUME pc'[u] \in {"save", "commit"} PROVE Good(local[u].snapshot, msg)'
      <4>1. PICK z : z = local'[u].snapshot /\ Good(z, m)
        BY <3>1, <3>2 DEF LocalOK
      <4> QED
        BY <1>5, <4>1 DEF Good, CopyOK, Copy, IsSnapshot, Earned, TasksEarned, Decision, SettledIn
    <3>3. /\ k = "publish" => y.id \in TaskId /\ y.payload \in Payload
          /\ k \in {"save", "commit"} => /\ DOMAIN y = {"snapshot", "after", "base"}
                                        /\ y.after \in {"idle", "advance", "ack"}
                                        /\ y.base \in Nat
      BY <3>1 DEF LocalOK
    <3> QED
      BY <3>1, <3>2, <3>3 DEF LocalOK
  <2> QED
    BY <2>1, <2>2, <2>3 DEF Copies
<1>10. row'.revision = 0 => row'.snapshot = NoSnapshot
  BY <1>0 DEF IInv
<1>11. ASSUME NEW w \in Workers, w \notin U, w # p PROVE WorkerOK(w)'
  <2>1. w \in Processes /\ w \in Threads
    BY <1>11, Homes
  <2>2. /\ mem'[w] = mem[w] /\ rev'[w] = rev[w] /\ pc'[w] = pc[w] /\ local'[w] = local[w]
        /\ job'[w] = job[w] /\ WorkerOK(w)
    BY <1>11, <2>1 DEF IInv
  <2>3. row' = row \/ \E z : row' = [revision |-> row.revision + 1, snapshot |-> z]
    OBVIOUS
  <2> QED
    BY <2>2, <2>3, OtherWorker
<1>12. \A w \in Workers : WorkerOK(w)'
  BY <1>11
<1>13. (row.revision = 0 => row.snapshot = NoSnapshot)'
  BY <1>10 DEF NoSnapshot
<1> QED
  BY <1>4, <1>9, <1>12, <1>13 DEF IInv

\* A step of one thread.
LEMMA ThreadStep ==
  ASSUME IInv, NEW t \in Threads, NEW l \in PCs, NEW x, NEW s, NEW n \in Nat,
         pc' = [pc EXCEPT ![t] = l],
         local' = [local EXCEPT ![t] = x] \/ (local' = local /\ x = local[t]),
         mem' = [mem EXCEPT ![Home(t)] = s] \/ (mem' = mem /\ s = mem[Home(t)]),
         rev' = [rev EXCEPT ![Home(t)] = n],
         MessagesOK(msg'), Keeps(msg, msg'),
         Good(s, msg'), LocalOK(l, x, msg'),
         job' \in [Workers -> TaskId \cup {None}],
         \A w \in Workers : w # t => job'[w] = job[w],
         faults' \in 0 .. MaxFaults,
         \/ row' = row
         \/ \E z : Good(z, msg') /\ row' = [revision |-> row.revision + 1, snapshot |-> z],
         t \in Workers => WorkerOK(t)'
  PROVE  IInv'
<1>1. PICK p : p = Home(t)
  OBVIOUS
<1>2. /\ p \in Processes /\ DOMAIN mem = Processes /\ DOMAIN local = Threads
      /\ rev \in [Processes -> Nat] /\ pc \in [Threads -> PCs]
      /\ \A w \in Workers : w = p => w = t
  BY <1>1, Homes DEF IInv, Types, Threads
<1>3. PICK U : U = {t}
  OBVIOUS
<1>4. /\ pc' \in [Threads -> PCs] /\ DOMAIN local' = Threads
      /\ DOMAIN mem' = Processes /\ rev' \in [Processes -> Nat]
  BY <1>1, <1>2
<1>5. \A u \in Threads : u \notin U => pc'[u] = pc[u] /\ local'[u] = local[u]
  BY <1>2, <1>3
<1>6. \A q \in Processes : q # p => mem'[q] = mem[q] /\ rev'[q] = rev[q]
  BY <1>1, <1>2
<1>7. mem'[p] = s /\ pc'[t] = l /\ local'[t] = x
  BY <1>1, <1>2
<1>8. \A u \in Threads : u \in U => LocalOK(pc'[u], local'[u], msg')
  BY <1>3, <1>7
<1>9. \A w \in Workers : w \in U \/ w = p => WorkerOK(w)'
  <2>1. ASSUME NEW w \in Workers, w \in U \/ w = p PROVE WorkerOK(w)'
    <3>1. w = t
      BY <1>2, <1>3, <2>1
    <3> QED
      BY <3>1
  <2> QED
    BY <2>1
<1>10. \A w \in Workers : w \notin U => job'[w] = job[w]
  BY <1>3
<1> QED
  BY <1>4, <1>5, <1>6, <1>7, <1>8, <1>9, <1>10, ProcessStep
\* The faults are counted up to their bound.
LEMMA FaultCounted ==
  ASSUME IInv, Fault \/ faults' = faults
  PROVE  faults' \in 0 .. MaxFaults
  BY PipelineAssumption DEF IInv, Types, Fault

\* A step that leaves the copies, their revisions and the row alone.
LEMMA QuietStep ==
  ASSUME IInv, NEW t \in Threads, NEW l \in PCs,
         pc' = [pc EXCEPT ![t] = l], DOMAIN local' = Threads,
         \A u \in Threads : u # t => local'[u] = local[u],
         mem' = mem, rev' = rev, row' = row,
         MessagesOK(msg'), Keeps(msg, msg'), LocalOK(l, local'[t], msg'),
         job' \in [Workers -> TaskId \cup {None}],
         \A w \in Workers : w # t => job'[w] = job[w],
         faults' \in 0 .. MaxFaults,
         t \in Workers => WorkerOK(t)'
  PROVE  IInv'
<1>1. PICK p, U : p = Home(t) /\ U = {t}
  OBVIOUS
<1>2. p \in Processes /\ \A w \in Workers : w = p => w = t
  BY <1>1, Homes DEF Threads
<1>3. /\ pc' \in [Threads -> PCs] /\ DOMAIN mem' = Processes /\ rev' \in [Processes -> Nat]
      /\ pc'[t] = l /\ \A u \in Threads : u # t => pc'[u] = pc[u]
  BY DEF IInv, Types
<1>4. Good(mem'[p], msg')
  BY <1>2, StaysGood DEF IInv, Copies
<1>5. \A u \in Threads : u \notin U => pc'[u] = pc[u] /\ local'[u] = local[u]
  BY <1>1, <1>3
<1>6. \A u \in Threads : u \in U => LocalOK(pc'[u], local'[u], msg')
  BY <1>1, <1>3
<1>7. \A w \in Workers : w \notin U => job'[w] = job[w]
  BY <1>1
<1>8. \A w \in Workers : w \in U \/ w = p => WorkerOK(w)'
  <2>1. ASSUME NEW w \in Workers, w \in U \/ w = p PROVE WorkerOK(w)'
    <3>1. w = t
      BY <1>1, <1>2, <2>1
    <3> QED
      BY <3>1
  <2> QED
    BY <2>1
<1> QED
  BY <1>3, <1>4, <1>5, <1>6, <1>7, <1>8, ProcessStep

\* A step that moves a thread on to a label without local variables.
LEMMA MoveStep ==
  ASSUME IInv, NEW t \in Threads, NEW l \in PCs, l \notin {"publish", "save", "commit"},
         pc' = [pc EXCEPT ![t] = l], local' = local \/ local' = [local EXCEPT ![t] = None],
         mem' = mem, rev' = rev, row' = row,
         MessagesOK(msg'), Keeps(msg, msg'),
         job' \in [Workers -> TaskId \cup {None}],
         \A w \in Workers : w # t => job'[w] = job[w],
         faults' \in 0 .. MaxFaults,
         t \in Workers => WorkerOK(t)'
  PROVE  IInv'
<1>1. DOMAIN local' = Threads /\ \A u \in Threads : u # t => local'[u] = local[u]
  BY DEF IInv, Types
<1>2. LocalOK(l, local'[t], msg')
  BY DEF LocalOK
<1> QED
  BY <1>1, <1>2, QuietStep

\* What a step that leaves the messages and the jobs alone need not show.
LEMMA SameTables ==
  ASSUME IInv
  PROVE  /\ msg' = msg => MessagesOK(msg') /\ Keeps(msg, msg')
         /\ job' = job => job' \in [Workers -> TaskId \cup {None}]
  BY DEF IInv, Types, MessagesOK, Keeps

\* A worker that has nothing in hand.
LEMMA IdleWorker ==
  ASSUME IInv, NEW w \in Workers, pc'[w] \in {"idle", "down"}, row' = row,
         row.revision = 0 => mem'[w] = NoSnapshot
  PROVE  WorkerOK(w)'
  BY DEF WorkerOK, Holds, Recording, Tracks, Saving, NoSnapshot

\* A thread that has changed its copy and asks for it to be saved: a worker
\* does so only with gates as its own rework may leave them.
LEMMA PersistStep ==
  ASSUME IInv, NEW t \in Threads, NEW s, NEW after \in {"idle", "advance", "ack"},
         Persist(t, s, after), Good(s, msg'), MessagesOK(msg'), Keeps(msg, msg'),
         row' = row, rev' = rev, job' = job, faults' \in 0 .. MaxFaults,
         t \in Workers => /\ after # "idle" /\ Holds(t) /\ Tracks(t)
                          /\ rev[t] = row.revision => KeepsGates(row.snapshot, s, job[t])
  PROVE  IInv'
<1>1. PICK x : x = [snapshot |-> s, after |-> after, base |-> 0]
  OBVIOUS
<1>2. PICK l : l = "save"
  OBVIOUS
<1>3. PICK n : n = rev[Home(t)]
  OBVIOUS
<1>4. /\ pc' = [pc EXCEPT ![t] = l] /\ local' = [local EXCEPT ![t] = x]
      /\ mem' = [mem EXCEPT ![Home(t)] = s]
  BY <1>1, <1>2 DEF Persist, Goto
<1>5. Home(t) \in Processes
  BY Homes
<1>6. rev' = [rev EXCEPT ![Home(t)] = n] /\ n \in Nat /\ l \in PCs
  BY <1>2, <1>3, <1>5 DEF IInv, Types, PCs
<1>7. LocalOK(l, x, msg')
  BY <1>1, <1>2 DEF LocalOK
<1>8. job' \in [Workers -> TaskId \cup {None}] /\ \A w \in Workers : w # t => job'[w] = job[w]
  BY DEF IInv, Types
<1>9. ASSUME t \in Workers PROVE WorkerOK(t)'
  <2>1. Home(t) = t /\ t \in Processes /\ WorkerOK(t)
    BY <1>9, Homes DEF IInv
  <2>2. /\ pc'[t] = "save" /\ mem'[t] = s /\ rev'[t] = rev[t] /\ job'[t] = job[t]
        /\ local'[t].snapshot = s /\ local'[t].after = after
    BY <1>1, <1>2, <1>4, <2>1 DEF IInv, Types
  <2>3. job[t] \in TaskId /\ Delivered(job[t]) /\ rev[t] <= row.revision
    BY <1>9, <2>1 DEF WorkerOK, Tracked
  <2>4. Delivered(job[t])'
    BY <2>2, <2>3 DEF Delivered, Keeps
  <2>5. (rev[t] = row.revision => KeepsGates(row.snapshot, mem[t], job[t]))'
    <3>1. rev[t] = row.revision => KeepsGates(row.snapshot, s, job[t])
      BY <1>9
    <3> QED
      BY <2>2, <3>1 DEF KeepsGates, Decision, Round, ReworksOf
  <2> QED
    BY <1>9, <2>2, <2>3, <2>4, <2>5 DEF WorkerOK, Holds, Recording, Tracks, Tracked, Saving
<1> QED
  BY <1>4, <1>6, <1>7, <1>8, <1>9, ThreadStep

----------------------------------------------------------------------------
(* The messages.                                                           *)

\* Publishing adds messages, and keeps the ones there are.
LEMMA PublishedOK ==
  ASSUME IInv, NEW new, DOMAIN new \subseteq TaskId, \A t \in DOMAIN new : new[t] \in Payload
  PROVE  MessagesOK(Published(new)) /\ Keeps(msg, Published(new))
<1>1. DOMAIN msg \subseteq TaskId /\ \A t \in DOMAIN msg : msg[t] \in Message
  BY DEF IInv, Types, MessagesOK
<1>2. \A x \in Payload : NewMessage(x) \in Message
  BY PipelineAssumption DEF NewMessage, Message
<1>3. \A t \in DOMAIN new : NewMessage(new[t]) \in Message
  BY <1>2
<1>4. /\ DOMAIN Published(new) = DOMAIN msg \cup DOMAIN new
      /\ \A t \in DOMAIN msg : Published(new)[t] = msg[t]
      /\ \A t \in DOMAIN new : t \notin DOMAIN msg => Published(new)[t] = NewMessage(new[t])
  BY DEF Published
<1> QED
  BY <1>1, <1>3, <1>4 DEF MessagesOK, Keeps

\* The sweep of claim keeps every message, dead-lettered or as it was.
LEMMA SweptOK ==
  ASSUME IInv
  PROVE  MessagesOK(Swept) /\ Keeps(msg, Swept) /\ DOMAIN Swept = DOMAIN msg
<1>1. DOMAIN msg \subseteq TaskId /\ \A t \in DOMAIN msg : msg[t] \in Message
  BY DEF IInv, Types, MessagesOK
<1>2. ASSUME NEW m \in Message
      PROVE  LET n == [m EXCEPT !.status = "dead_letter", !.worker = None, !.lapsed = FALSE]
             IN  n \in Message /\ n.attempts = m.attempts
  BY DEF Message
<1>3. DOMAIN Swept = DOMAIN msg
  BY DEF Swept
<1>4. \A t \in DOMAIN msg : Swept[t] \in Message /\ Swept[t].attempts = msg[t].attempts
  BY <1>1, <1>2 DEF Swept
<1> QED
  BY <1>1, <1>3, <1>4 DEF MessagesOK, Keeps

\* Writing one message, with no fewer attempts.
LEMMA MessageWritten ==
  ASSUME NEW m, MessagesOK(m), NEW t \in DOMAIN m, NEW e \in Message,
         e.attempts >= m[t].attempts
  PROVE  MessagesOK([m EXCEPT ![t] = e]) /\ Keeps(m, [m EXCEPT ![t] = e])
<1>1. e.attempts \in Nat /\ m[t].attempts \in Nat
  BY DEF MessagesOK, Message
<1>2. m[t].attempts > 0 => e.attempts > 0
  BY <1>1
<1> QED
  BY <1>2 DEF MessagesOK, Keeps
----------------------------------------------------------------------------
(* API requests.                                                           *)

\* A request that saves a copy with the tasks of the one it found.
LEMMA RequestSave ==
  ASSUME IInv, NEW t \in Requests, NEW s, CopyOK(s), s.tasks = mem[Home(t)].tasks,
         NEW after \in {"idle", "advance", "ack"}, Begin(t), Persist(t, s, after),
         UNCHANGED <<row, msg, rev, job>>
  PROVE  IInv'
<1>1. t \in Threads /\ t \notin Workers /\ Home(t) \in Processes
  BY Homes
<1>2. Good(s, msg')
  <2>1. SettledIn(mem[Home(t)], msg)
    BY <1>1 DEF IInv, Copies, Good
  <2> QED
    BY <2>1 DEF Good, SettledIn
<1>3. faults' \in 0 .. MaxFaults
  BY FaultCounted DEF Begin
<1>4. MessagesOK(msg') /\ Keeps(msg, msg')
  BY SameTables
<1> QED
  BY <1>1, <1>2, <1>3, <1>4, PersistStep

\* start_pipeline: the first state is behind no gate and no task.
LEMMA StartStep ==
  ASSUME IInv, NEW t \in Requests, StartPipeline(t)
  PROVE  IInv'
<1>1. PICK c : c = mem[Home(t)]
  OBVIOUS
<1>2. PICK s : s = [c EXCEPT !.state = 1]
  OBVIOUS
<1>3. CopyOK(c) /\ 1 \in Positions /\ At["REQUIREMENTS_VALIDATED"] = 1
  BY <1>1, Homes, Shape DEF IInv, Copies, Good
<1>4. Copy(s) /\ s.state = 1 /\ s.context = c.context /\ s.tasks = c.tasks
  BY <1>2, <1>3, StateWritten DEF CopyOK
<1>5. Earned(s)
  <2>1. \A g \in GateIds : ~(1 > GateAt[g])
    BY Shape
  <2>2. \A y \in TaskTypes : ~(1 > TaskAt[y])
    BY Shape
  <2> QED
    BY <1>4, <2>1, <2>2 DEF Earned
<1>6. TasksEarned(s)
  BY <1>3, <1>4 DEF CopyOK, TasksEarned, Decision
<1>7. CopyOK(s)
  BY <1>4, <1>5, <1>6 DEF CopyOK
<1>8. PICK after : after = "advance"
  OBVIOUS
<1>9. Begin(t) /\ Persist(t, s, after) /\ UNCHANGED <<row, msg, rev, job>>
  BY <1>1, <1>2, <1>3, <1>8 DEF StartPipeline
<1> QED
  BY <1>1, <1>4, <1>7, <1>8, <1>9, RequestSave

\* update_requirements
LEMMA UpdateStep ==
  ASSUME IInv, NEW t \in Requests, UpdateRequirements(t)
  PROVE  IInv'
<1>1. PICK c : c = mem[Home(t)]
  OBVIOUS
<1>2. PICK s : s = [c EXCEPT !.context.edits = @ + 1]
  OBVIOUS
<1>3. CopyOK(c) /\ c.context.edits < MaxEdits
  BY <1>1, Homes DEF UpdateRequirements, IInv, Copies, Good
<1>4. Copy(s) /\ s.state = c.state /\ s.tasks = c.tasks /\ s.context.gates = c.context.gates
  BY <1>2, <1>3, EditWritten DEF CopyOK
<1>5. CopyOK(s)
  BY <1>3, <1>4, KeptEarned DEF KeepsApprovals, Decision
<1>6. PICK after : after = "idle"
  OBVIOUS
<1>7. Begin(t) /\ Persist(t, s, after) /\ UNCHANGED <<row, msg, rev, job>>
  BY <1>1, <1>2, <1>6 DEF UpdateRequirements
<1> QED
  BY <1>1, <1>4, <1>5, <1>6, <1>7, RequestSave

\* A request that sets one gate that is not approved.
LEMMA SetGateStep ==
  ASSUME IInv, NEW t \in Requests, NEW g \in GateIds, NEW r \in 1 .. (MaxRound + 1),
         NEW d \in {"none", "approved", "rejected"}, NEW by \in Processes \cup {None},
         NEW after \in {"idle", "advance", "ack"},
         Decision(mem[Home(t)], g) # "approved",
         Begin(t), Persist(t, SetGate(mem[Home(t)], g, r, d, by), after),
         UNCHANGED <<row, msg, rev, job>>
  PROVE  IInv'
<1>1. PICK c : c = mem[Home(t)]
  OBVIOUS
<1>2. PICK s : s = SetGate(c, g, r, d, by)
  OBVIOUS
<1>3. CopyOK(c)
  BY <1>1, Homes DEF IInv, Copies, Good
<1>4. /\ Copy(s) /\ s.state = c.state /\ s.tasks = c.tasks
      /\ \A h \in GateIds :
           s.context.gates[h] = IF h = g
                                THEN [round |-> r, decision |-> d, by |-> by]
                                ELSE c.context.gates[h]
  BY <1>2, <1>3, GateWritten DEF CopyOK
<1>5. KeepsApprovals(c, s)
  BY <1>1, <1>4 DEF KeepsApprovals, Decision
<1>6. CopyOK(s)
  BY <1>3, <1>4, <1>5, KeptEarned
<1>7. Persist(t, s, after)
  BY <1>1, <1>2
<1> QED
  BY <1>1, <1>4, <1>6, <1>7, RequestSave

\* The gates of a copy are typed.
LEMMA GateTyped ==
  ASSUME NEW s, CopyOK(s), NEW g \in GateIds
  PROVE  s.context.gates[g] \in Gate /\ Round(s, g) \in 1 .. (MaxRound + 1)
  BY DEF CopyOK, Copy, IsSnapshot, Context, Round, Gate

\* approve_gate and reject_gate
LEMMA DecideStep ==
  ASSUME IInv, NEW t \in Requests, NEW e \in Decisions, DecideGate(t, e[1], e[2])
  PROVE  IInv'
<1>1. PICK g, d, p : g = e[1] /\ d = e[2] /\ p = Home(t)
  OBVIOUS
<1>2. g \in GateIds /\ d \in {"none", "approved", "rejected"} /\ p \in Processes
  BY <1>1, PipelineAssumption, Homes
<1>3. CopyOK(mem[p])
  BY <1>2 DEF IInv, Copies, Good
<1>4. PICK r : r = Round(mem[p], g)
  OBVIOUS
<1>5. r \in 1 .. (MaxRound + 1) /\ p \in Processes \cup {None}
  BY <1>2, <1>3, <1>4, GateTyped
<1>6. PICK after : after = IF d = "approved" THEN "advance" ELSE "idle"
  OBVIOUS
<1>7. after \in {"idle", "advance", "ack"}
  BY <1>6
<1>8. /\ Decision(mem[p], g) # "approved" /\ Begin(t)
      /\ Persist(t, SetGate(mem[p], g, r, d, p), after)
      /\ UNCHANGED <<row, msg, rev, job>>
  BY <1>1, <1>4, <1>6 DEF DecideGate
<1> QED
  BY <1>1, <1>2, <1>5, <1>7, <1>8, SetGateStep

\* retry_gate
LEMMA RetryStep ==
  ASSUME IInv, NEW t \in Requests, NEW g \in GateIds, RetryGate(t, g)
  PROVE  IInv'
<1>1. PICK p : p = Home(t)
  OBVIOUS
<1>2. CopyOK(mem[p])
  BY <1>1, Homes DEF IInv, Copies, Good
<1>3. PICK r : r = Round(mem[p], g) + 1
  OBVIOUS
<1>4. r \in 1 .. (MaxRound + 1)
  BY <1>1, <1>2, <1>3, GateTyped, PipelineAssumption DEF RetryGate
<1>5. PICK d, by, after : d = "none" /\ by = None /\ after = "idle"
  OBVIOUS
<1>6. /\ d \in {"none", "approved", "rejected"} /\ by \in Processes \cup {None}
      /\ after \in {"idle", "advance", "ack"}
  BY <1>5
<1>7. /\ Decision(mem[p], g) # "approved" /\ Begin(t)
      /\ Persist(t, SetGate(mem[p], g, r, d, by), after)
      /\ UNCHANGED <<row, msg, rev, job>>
  BY <1>1, <1>3, <1>5 DEF RetryGate, MayReopen
<1> QED
  BY <1>1, <1>4, <1>6, <1>7, SetGateStep

\* A new task enters the copy, with the gates as they were.
LEMMA AddStep ==
  ASSUME IInv, NEW t \in Threads, NEW id \in TaskId, NEW reason \in Reasons \cup {None},
         id.round # 0
           \/ \E y \in TaskTypes : id = OrdinaryTask(y) /\ TaskAt[y] = mem[Home(t)].state,
         AddAndPublish(t, id, reason), t \in Workers => pc[t] = "advance",
         row' = row, msg' = msg, rev' = rev, job' = job, faults' \in 0 .. MaxFaults
  PROVE  IInv'
<1>1. PICK c, n : c = mem[Home(t)] /\ n = rev[Home(t)]
  OBVIOUS
<1>2. PICK s : s = AddTask(c, id, reason)
  OBVIOUS
<1>3. Home(t) \in Processes
  BY Homes
<1>4. CopyOK(c) /\ SettledIn(c, msg) /\ n \in Nat
  BY <1>1, <1>3 DEF IInv, Types, Copies, Good
<1>5. CopyOK(s)
  BY <1>1, <1>2, <1>4, AddEarned
<1>6. /\ s.context = c.context /\ DOMAIN s.tasks = DOMAIN c.tasks \cup {id}
      /\ s.tasks[id].payload \in Payload /\ s.tasks[id].status = "PENDING"
      /\ \A u \in DOMAIN c.tasks : u # id => s.tasks[u] = c.tasks[u]
  BY <1>2, <1>4, TaskAdded DEF CopyOK
<1>7. Good(s, msg')
  BY <1>4, <1>5, <1>6 DEF Good, SettledIn
<1>8. PICK x, l : x = [id |-> id, payload |-> s.tasks[id].payload] /\ l = "publish"
  OBVIOUS
<1>9. /\ pc' = [pc EXCEPT ![t] = l] /\ local' = [local EXCEPT ![t] = x]
      /\ mem' = [mem EXCEPT ![Home(t)] = s] /\ rev' = [rev EXCEPT ![Home(t)] = n]
  BY <1>1, <1>2, <1>3, <1>8 DEF AddAndPublish, Goto, IInv, Types
<1>10. LocalOK(l, x, msg') /\ l \in PCs
  BY <1>6, <1>8 DEF LocalOK, PCs
<1>11. /\ MessagesOK(msg') /\ Keeps(msg, msg') /\ job' \in [Workers -> TaskId \cup {None}]
       /\ \A w \in Workers : w # t => job'[w] = job[w]
  BY SameTables
<1>12. ASSUME t \in Workers PROVE WorkerOK(t)'
  <2>1. Home(t) = t /\ t \in Processes /\ WorkerOK(t) /\ pc[t] = "advance"
    BY <1>12, Homes DEF IInv
  <2>2. pc'[t] = "publish" /\ mem'[t] = s /\ rev'[t] = rev[t] /\ job'[t] = job[t]
    BY <1>8, <1>9, <2>1 DEF IInv, Types
  <2>3. /\ job[t] \in TaskId /\ Delivered(job[t]) /\ rev[t] <= row.revision
        /\ rev[t] = row.revision => mem[t].context.gates = row.snapshot.context.gates
    BY <2>1 DEF WorkerOK, Holds, Tracks, Tracked
  <2>4. Delivered(job[t])' /\ s.context = mem[t].context
    BY <1>1, <1>6, <2>1, <2>2, <2>3 DEF Delivered
  <2> QED
    BY <2>2, <2>3, <2>4 DEF WorkerOK, Holds, Recording, Tracks, Tracked, Saving
<1> QED
  BY <1>4, <1>7, <1>9, <1>10, <1>11, <1>12, ThreadStep

\* The reworks of one round are numbered from 1, so there are finitely many.
LEMMA ReworksFinite ==
  ASSUME NEW s, Copy(s), NEW g \in DOMAIN ReworkType, NEW r \in Nat \ {0}
  PROVE  Cardinality(ReworksOf(s, g, r)) \in Nat
<1> DEFINE K == 1 .. MaxRework
<1> DEFINE f == [k \in K |-> [type |-> ReworkType[g], round |-> r, attempt |-> k]]
<1> DEFINE T == {f[k] : k \in K}
<1>1. MaxRework \in Int /\ 1 \in Int
  BY PipelineAssumption
<1>2. IsFiniteSet(K)
  BY <1>1, FS_Interval
<1>3. f \in Surjection(K, T)
  <2> HIDE DEF K
  <2> QED
    BY DEF Surjection
<1>4. IsFiniteSet(T)
  <2> HIDE DEF K, f, T
  <2> QED
    BY <1>2, <1>3, FS_Surjection
<1>5. ASSUME NEW t \in ReworksOf(s, g, r) PROVE t \in T
  <2>1. t \in TaskId /\ t.type = ReworkType[g] /\ t.round = r /\ r # 0
    BY DEF ReworksOf, Copy, IsSnapshot
  <2>2. t \in [type : {ReworkType[h] : h \in DOMAIN ReworkType},
              round : 1 .. MaxRound, attempt : 1 .. MaxRework]
    BY <2>1 DEF TaskId
  <2>3. t.attempt \in K /\ t = [type |-> ReworkType[g], round |-> r, attempt |-> t.attempt]
    BY <2>1, <2>2
  <2>4. t = f[t.attempt]
    BY <2>3
  <2> QED
    BY <2>3, <2>4
<1>6. ReworksOf(s, g, r) \in SUBSET T
  BY <1>5
<1>7. IsFiniteSet(ReworksOf(s, g, r))
  <2> HIDE DEF T
  <2> QED
    BY <1>4, <1>6, FS_Subset
<1> QED
  BY <1>7, FS_CardinalityType

\* request_rework
LEMMA ReworkStep ==
  ASSUME IInv, NEW t \in Requests, NEW g \in GateIds, RequestRework(t, g)
  PROVE  IInv'
<1>0. PICK p : p = Home(t)
  OBVIOUS
<1>1. PICK r : r = Round(mem[p], g)
  OBVIOUS
<1>2. PICK n : n = 1 + Cardinality(ReworksOf(mem[p], g, r))
  OBVIOUS
<1>3. PICK id : id = [type |-> ReworkType[g], round |-> r, attempt |-> n]
  OBVIOUS
<1>4. /\ Begin(t) /\ g \in DOMAIN ReworkType /\ r <= MaxRound /\ n <= MaxRework
      /\ row' = row /\ msg' = msg /\ rev' = rev /\ job' = job
  BY <1>0, <1>1, <1>2 DEF RequestRework
<1>5. PICK reason \in Reasons : AddAndPublish(t, id, reason)
  BY <1>0, <1>1, <1>2, <1>3 DEF RequestRework
<1>6. CopyOK(mem[p])
  BY <1>0, Homes DEF IInv, Copies, Good
<1>7. r \in 1 .. MaxRound
  BY <1>1, <1>4, <1>6, GateTyped, PipelineAssumption
<1>8. Cardinality(ReworksOf(mem[p], g, r)) \in Nat
  BY <1>4, <1>6, <1>7, ReworksFinite DEF CopyOK
<1>9. n \in 1 .. MaxRework
  BY <1>2, <1>4, <1>8, PipelineAssumption
<1>10. id \in TaskId /\ id.round # 0
  BY <1>3, <1>4, <1>7, <1>9 DEF TaskId
<1>11. /\ t \in Threads /\ t \notin Workers /\ reason \in Reasons \cup {None}
       /\ faults' \in 0 .. MaxFaults
  BY <1>4, Homes, FaultCounted DEF Begin
<1> QED
  BY <1>4, <1>5, <1>10, <1>11, AddStep

\* advance_pipeline as a request.
LEMMA AdvanceRequestStep ==
  ASSUME IInv, NEW t \in Requests, AdvanceRequest(t)
  PROVE  IInv'
<1>1. PICK l : l = "advance"
  OBVIOUS
<1>2. /\ t \in Threads /\ t \notin Workers /\ l \in PCs /\ l \notin {"publish", "save", "commit"}
  BY <1>1, Homes DEF PCs
<1>3. /\ pc' = [pc EXCEPT ![t] = l] /\ UNCHANGED <<row, msg, mem, rev, local, job>>
      /\ faults' \in 0 .. MaxFaults
  BY <1>1, FaultCounted DEF AdvanceRequest, Begin, Goto
<1>4. /\ MessagesOK(msg') /\ Keeps(msg, msg') /\ job' \in [Workers -> TaskId \cup {None}]
  BY <1>3, SameTables
<1> QED
  BY <1>2, <1>3, <1>4, MoveStep

\* A request thread that reloads the copy of its process.
LEMMA RefreshStep ==
  ASSUME IInv, NEW t \in Requests, Refresh(t)
  PROVE  IInv'
<1>1. PICK s, n : /\ s = IF row.revision = 0 THEN mem[Home(t)] ELSE row.snapshot
                  /\ n = row.revision
  OBVIOUS
<1>2. t \in Threads /\ t \notin Workers /\ Home(t) \in Processes
  BY Homes
<1>3. Good(s, msg) /\ n \in Nat
  BY <1>1, <1>2 DEF IInv, Types, Copies
<1>4. /\ mem' = [mem EXCEPT ![Home(t)] = s] /\ rev' = [rev EXCEPT ![Home(t)] = n]
      /\ UNCHANGED <<row, msg, pc, local, job>>
  BY <1>1 DEF Refresh, Load
<1>5. PICK p, U : p = Home(t) /\ U = {}
  OBVIOUS
<1>6. /\ pc' \in [Threads -> PCs] /\ DOMAIN local' = Threads
      /\ DOMAIN mem' = Processes /\ rev' \in [Processes -> Nat]
      /\ \A q \in Processes : q # p => mem'[q] = mem[q] /\ rev'[q] = rev[q]
      /\ mem'[p] = s
  BY <1>2, <1>3, <1>4, <1>5 DEF IInv, Types
<1>7. /\ MessagesOK(msg') /\ Keeps(msg, msg') /\ job' \in [Workers -> TaskId \cup {None}]
      /\ faults' \in 0 .. MaxFaults
  BY <1>4, SameTables, FaultCounted DEF Refresh, Begin
<1>8. \A w \in Workers : w \notin U /\ w # p
  BY <1>5, Homes
<1> QED
  BY <1>3, <1>4, <1>5, <1>6, <1>7, <1>8, ProcessStep

\* The requests of an API process.
LEMMA RequestStepOK ==
  ASSUME IInv, NEW t \in Requests, RequestStep(t)
  PROVE  IInv'
  BY StartStep, UpdateStep, AdvanceRequestStep, DecideStep, RetryStep, ReworkStep, RefreshStep
  DEF RequestStep
----------------------------------------------------------------------------
(* advance_pipeline.                                                       *)

\* The labels at which advance_pipeline leaves a thread.
LEMMA Labels ==
  ASSUME NEW t \in Threads
  PROVE  /\ Returned(t) \in {"idle", "advance", "ack"}
         /\ {Returned(t), Raised(t)} \subseteq PCs
         /\ \A l \in {Returned(t), Raised(t)} : l \notin {"publish", "save", "commit"}
         /\ t \in Workers => Returned(t) = "ack" /\ Raised(t) = "fail"
  BY DEF Returned, Raised, PCs

\* A worker that has done with its copy keeps its job.
LEMMA JobKept ==
  ASSUME IInv, NEW w \in Workers, Holds(w), pc'[w] \in {"ack", "fail", "failed"},
         job'[w] = job[w], Keeps(msg, msg')
  PROVE  WorkerOK(w)'
<1>1. job[w] \in TaskId /\ Delivered(job[w])
  BY DEF IInv, WorkerOK
<1>2. Delivered(job[w])'
  BY <1>1 DEF Delivered, Keeps
<1> QED
  BY <1>1, <1>2 DEF WorkerOK, Holds, Recording, Tracks, Saving

\* The step to the next state.
LEMMA AdvanceStateStep ==
  ASSUME IInv, NEW t \in Threads, AdvanceState(t)
  PROVE  IInv'
<1>1. PICK c : c = mem[Home(t)]
  OBVIOUS
<1>2. PICK s : s = [c EXCEPT !.state = @ + 1]
  OBVIOUS
<1>3. /\ CopyOK(c) /\ ~HasPendingGate(c) /\ ~IsTaskState(c.state) /\ ~Terminal(c.state)
      /\ SettledIn(c, msg)
  BY <1>1, Homes DEF AdvanceState, IInv, Copies, Good
<1>4. CopyOK(s)
  BY <1>2, <1>3, AdvanceEarned
<1>5. s.context = c.context /\ s.tasks = c.tasks
  BY <1>2, <1>3 DEF CopyOK, Copy
<1>6. PICK after : after = "advance"
  OBVIOUS
<1>7. /\ Persist(t, s, after) /\ UNCHANGED <<row, msg, rev, job, faults>> /\ pc[t] = "advance"
  BY <1>1, <1>2, <1>6 DEF AdvanceState
<1>8. Good(s, msg')
  BY <1>3, <1>4, <1>5, <1>7 DEF Good, SettledIn
<1>9. MessagesOK(msg') /\ Keeps(msg, msg') /\ faults' \in 0 .. MaxFaults
  BY <1>7, SameTables, FaultCounted
<1>10. ASSUME t \in Workers, rev[t] = row.revision PROVE KeepsGates(row.snapshot, s, job[t])
  <2>1. mem[t].context.gates = row.snapshot.context.gates /\ c = mem[t]
    BY <1>1, <1>7, <1>10, Homes DEF IInv, WorkerOK, Tracks, Tracked
  <2> QED
    BY <1>5, <2>1 DEF KeepsGates
<1>11. Holds(t) /\ Tracks(t) /\ after # "idle" /\ after \in {"idle", "advance", "ack"}
  BY <1>6, <1>7 DEF Holds, Tracks
<1> QED
  BY <1>7, <1>8, <1>9, <1>10, <1>11, PersistStep

\* The task of a task state.
LEMMA CreateTaskStep ==
  ASSUME IInv, NEW t \in Threads, CreateTask(t)
  PROVE  IInv'
<1>0. PICK p : p = Home(t)
  OBVIOUS
<1>1. PICK y : y = CHOOSE z \in TaskTypes : TaskAt[z] = mem[p].state
  OBVIOUS
<1>2. \E z \in TaskTypes : TaskAt[z] = mem[p].state
  BY <1>0 DEF CreateTask, IsTaskState, TaskStates
<1>3. y \in TaskTypes /\ TaskAt[y] = mem[p].state
  BY <1>1, <1>2
<1>4. PICK id : id = OrdinaryTask(y)
  OBVIOUS
<1>5. TaskOf(mem[p].state) = id
  BY <1>1, <1>4 DEF TaskOf
<1>6. id \in TaskId
  BY <1>3, <1>4 DEF TaskId, OrdinaryTask
<1>7. PICK reason : reason = None
  OBVIOUS
<1>8. /\ AddAndPublish(t, id, reason) /\ row' = row /\ msg' = msg /\ rev' = rev /\ job' = job
      /\ faults' = faults /\ pc[t] = "advance"
  BY <1>0, <1>5, <1>7 DEF CreateTask
<1>9. reason \in Reasons \cup {None} /\ faults' \in 0 .. MaxFaults
  BY <1>7, <1>8, FaultCounted
<1> QED
  BY <1>0, <1>3, <1>4, <1>6, <1>8, <1>9, AddStep

\* A publication, and the copy as the other threads have left it.
LEMMA PublishStep ==
  ASSUME IInv, NEW t \in Threads, PublishTask(t)
  PROVE  IInv'
<1>1. PICK new : new = [id \in {local[t].id} |-> local[t].payload]
  OBVIOUS
<1>2. PICK s, after : s = mem[Home(t)] /\ after = Returned(t)
  OBVIOUS
<1>3. /\ pc[t] = "publish" /\ msg' = Published(new) /\ Persist(t, s, after)
      /\ UNCHANGED <<row, rev, job, faults>>
  BY <1>1, <1>2 DEF PublishTask
<1>4. local[t].id \in TaskId /\ local[t].payload \in Payload
  BY <1>3 DEF IInv, Copies, LocalOK
<1>5. DOMAIN new \subseteq TaskId /\ \A id \in DOMAIN new : new[id] \in Payload
  BY <1>1, <1>4
<1>6. MessagesOK(msg') /\ Keeps(msg, msg')
  BY <1>3, <1>5, PublishedOK
<1>7. Good(s, msg')
  BY <1>2, <1>6, Homes, StaysGood DEF IInv, Copies
<1>8. /\ after \in {"idle", "advance", "ack"} /\ faults' \in 0 .. MaxFaults
      /\ t \in Workers => after # "idle"
  BY <1>2, <1>3, Labels, FaultCounted
<1>9. ASSUME t \in Workers, rev[t] = row.revision PROVE KeepsGates(row.snapshot, s, job[t])
  <2>1. mem[t].context.gates = row.snapshot.context.gates /\ s = mem[t]
    BY <1>2, <1>3, <1>9, Homes DEF IInv, WorkerOK, Tracks, Tracked
  <2> QED
    BY <2>1 DEF KeepsGates
<1>10. Holds(t) /\ Tracks(t)
  BY <1>3 DEF Holds, Tracks
<1> QED
  BY <1>3, <1>6, <1>7, <1>8, <1>9, <1>10, PersistStep

\* advance_pipeline ends, or the publication raises: a worker has a message
\* to acknowledge, or to fail.
LEMMA AdvanceEnds ==
  ASSUME IInv, NEW t \in Threads, AdvanceStop(t) \/ PublishFails(t)
  PROVE  IInv'
<1>1. PICK l : l \in {Returned(t), Raised(t)} /\ pc' = [pc EXCEPT ![t] = l]
  BY DEF AdvanceStop, PublishFails, Goto
<1>2. /\ pc[t] \in {"advance", "publish"} /\ UNCHANGED <<row, msg, mem, rev, job>>
      /\ local' = local \/ local' = [local EXCEPT ![t] = None]
      /\ Fault \/ faults' = faults
  BY DEF AdvanceStop, PublishFails
<1>3. l \in PCs /\ l \notin {"publish", "save", "commit"}
  BY <1>1, Labels
<1>4. /\ MessagesOK(msg') /\ Keeps(msg, msg') /\ job' \in [Workers -> TaskId \cup {None}]
      /\ \A w \in Workers : w # t => job'[w] = job[w]
      /\ faults' \in 0 .. MaxFaults
  BY <1>2, SameTables, FaultCounted
<1>5. ASSUME t \in Workers PROVE WorkerOK(t)'
  <2>1. pc'[t] \in {"ack", "fail", "failed"} /\ job'[t] = job[t] /\ Holds(t)
    BY <1>1, <1>2, <1>5, Labels DEF IInv, Types, Holds
  <2> QED
    BY <1>4, <1>5, <2>1, JobKept
<1> QED
  BY <1>1, <1>2, <1>3, <1>4, <1>5, MoveStep

\* A step of advance_pipeline.
LEMMA AdvanceOK ==
  ASSUME IInv, NEW t \in Threads, Advance(t)
  PROVE  IInv'
  BY AdvanceStateStep, CreateTaskStep, PublishStep, AdvanceEnds DEF Advance

----------------------------------------------------------------------------
(* save.                                                                   *)

\* The snapshot a thread saves.
LEMMA SavedOK ==
  ASSUME IInv, NEW t \in Threads, Saving(t)
  PROVE  /\ DOMAIN local[t] = {"snapshot", "after", "base"} /\ Good(local[t].snapshot, msg)
         /\ local[t].after \in {"idle", "advance", "ack"} /\ local[t].base \in Nat
  BY DEF IInv, Copies, LocalOK, Saving

\* A save that raises: a request, or the record of a failure, is dropped; a
\* worker's message is failed.
LEMMA RaisedWorker ==
  ASSUME IInv, NEW w \in Workers, Saving(w), pc'[w] = SaveRaised(w), mem'[w] = mem[w],
         job'[w] = job[w], row' = row, Keeps(msg, msg')
  PROVE  WorkerOK(w)'
<1>1. w \in Threads
  BY Homes
<1>2. CASE local[w].after = "idle"
  <2>1. pc'[w] = "idle" /\ (row.revision = 0 => mem[w] = NoSnapshot)
    BY <1>2 DEF SaveRaised, IInv, WorkerOK, Recording
  <2> QED
    BY <2>1, IdleWorker
<1>3. CASE local[w].after # "idle"
  <2>1. pc'[w] = "fail" /\ Holds(w)
    BY <1>1, <1>3, Labels DEF SaveRaised, Holds
  <2> QED
    BY <2>1, JobKept
<1> QED
  BY <1>2, <1>3

\* Where a save that raises leaves its thread.
LEMMA RaisedLabel ==
  ASSUME NEW t \in Threads
  PROVE  SaveRaised(t) \in PCs /\ SaveRaised(t) \notin {"publish", "save", "commit"}
  BY Labels DEF SaveRaised, PCs

\* The UPDATE, or the SELECT of a first save.
LEMMA SaveStep ==
  ASSUME IInv, NEW t \in Threads, Save(t)
  PROVE  IInv'
<1>1. pc[t] = "save" /\ Saving(t) /\ UNCHANGED <<row, msg, mem, rev, job, faults>>
  BY DEF Save, Saving
<1>2. /\ MessagesOK(msg') /\ Keeps(msg, msg') /\ job' \in [Workers -> TaskId \cup {None}]
      /\ \A w \in Workers : w # t => job'[w] = job[w]
      /\ faults' \in 0 .. MaxFaults
  BY <1>1, SameTables, FaultCounted
<1>3. CASE IsCurrent(Home(t))
  <2>1. PICK l : l = "commit"
    OBVIOUS
  <2>2. /\ pc' = [pc EXCEPT ![t] = l] /\ l \in PCs
        /\ local' = [local EXCEPT ![t].base = row.revision]
    BY <1>3, <2>1 DEF Save, Goto, PCs
  <2>3. /\ DOMAIN local' = Threads /\ \A u \in Threads : u # t => local'[u] = local[u]
        /\ local'[t] = [local[t] EXCEPT !.base = row.revision]
    BY <2>2 DEF IInv, Types
  <2>4. /\ DOMAIN local'[t] = {"snapshot", "after", "base"}
        /\ local'[t].snapshot = local[t].snapshot /\ local'[t].after = local[t].after
        /\ local'[t].base = row.revision
    BY <1>1, <2>3, SavedOK
  <2>5. LocalOK(l, local'[t], msg')
    BY <1>1, <2>1, <2>4, SavedOK DEF LocalOK, IInv, Types
  <2>6. ASSUME t \in Workers PROVE WorkerOK(t)'
    <3>1. WorkerOK(t) /\ rev[t] = row.revision /\ pc'[t] = "commit"
      BY <1>3, <2>1, <2>2, <2>6, Homes DEF IInv, Types, IsCurrent
    <3>2. Delivered(job[t]) => Delivered(job[t])'
      BY <1>1 DEF Delivered
    <3>3. KeepsGates(row.snapshot, mem[t], job[t]) => KeepsGates(row.snapshot, mem[t], job[t])'
      BY <1>1 DEF KeepsGates, Decision, Round, ReworksOf
    <3> QED
      BY <1>1, <2>4, <3>1, <3>2, <3>3 DEF WorkerOK, Holds, Recording, Tracks, Tracked, Saving
  <2> QED
    BY <1>1, <1>2, <2>2, <2>3, <2>5, <2>6, QuietStep
<1>4. CASE ~IsCurrent(Home(t))
  <2>1. PICK l : l = SaveRaised(t)
    OBVIOUS
  <2>2. pc' = [pc EXCEPT ![t] = l] /\ local' = [local EXCEPT ![t] = None]
    BY <1>4, <2>1 DEF Save, Goto
  <2>3. l \in PCs /\ l \notin {"publish", "save", "commit"}
    BY <2>1, RaisedLabel
  <2>4. ASSUME t \in Workers PROVE WorkerOK(t)'
    <3>1. pc'[t] = SaveRaised(t)
      BY <2>1, <2>2 DEF IInv, Types
    <3> QED
      BY <1>1, <1>2, <2>4, <3>1, RaisedWorker
  <2> QED
    BY <1>1, <1>2, <2>2, <2>3, <2>4, MoveStep
<1> QED
  BY <1>3, <1>4

\* The commit: the row is the snapshot, whatever the copy has become.  A
\* worker's copy is the snapshot.
LEMMA CommitStep ==
  ASSUME IInv, NEW t \in Threads, Commit(t)
  PROVE  IInv'
<1>1. /\ pc[t] = "commit" /\ Saving(t) /\ row.revision = local[t].base
      /\ UNCHANGED <<msg, mem, job, faults>>
  BY DEF Commit, Saving
<1>2. /\ MessagesOK(msg') /\ Keeps(msg, msg') /\ job' \in [Workers -> TaskId \cup {None}]
      /\ \A w \in Workers : w # t => job'[w] = job[w]
      /\ faults' \in 0 .. MaxFaults
  BY <1>1, SameTables, FaultCounted
<1>3. PICK z, l, x : z = local[t].snapshot /\ l = local[t].after /\ x = None
  OBVIOUS
<1>4. PICK s : s = mem[Home(t)]
  OBVIOUS
<1>5. PICK n : n = IF local[t].base = 0 THEN 1 ELSE rev[Home(t)] + 1
  OBVIOUS
<1>6. Home(t) \in Processes /\ rev[Home(t)] \in Nat /\ row.revision \in Nat
  BY Homes DEF IInv, Types
<1>7. n \in Nat
  BY <1>5, <1>6
<1>8. /\ Good(z, msg') /\ Good(s, msg') /\ l \in {"idle", "advance", "ack"}
  BY <1>1, <1>3, <1>4, <1>6, SavedOK DEF IInv, Copies
<1>9. /\ row' = [revision |-> row.revision + 1, snapshot |-> z]
      /\ pc' = [pc EXCEPT ![t] = l] /\ local' = [local EXCEPT ![t] = x]
  BY <1>3 DEF Commit, Goto
<1>10. mem' = mem /\ s = mem[Home(t)] /\ rev' = [rev EXCEPT ![Home(t)] = n]
  BY <1>1, <1>4, <1>5 DEF Commit, MovedRevision
<1>11. LocalOK(l, x, msg') /\ l \in PCs
  BY <1>8 DEF LocalOK, PCs
<1>12. ASSUME t \in Workers PROVE WorkerOK(t)'
  <2>1. WorkerOK(t) /\ Home(t) = t /\ t \in Processes
    BY <1>12, Homes DEF IInv
  <2>2. /\ pc'[t] = l /\ row'.revision = row.revision + 1 /\ row'.snapshot = z
        /\ mem'[t] = mem[t] /\ rev'[t] = n /\ job'[t] = job[t]
    BY <1>1, <1>9, <1>10, <2>1 DEF IInv, Types
  <2>3. row'.revision # 0
    BY <1>6, <2>2
  <2>4. CASE l = "idle"
    BY <2>2, <2>3, <2>4 DEF WorkerOK, Holds, Recording, Tracks, Saving
  <2>5. CASE l # "idle"
    <3>1. /\ job[t] \in TaskId /\ Delivered(job[t]) /\ z = mem[t] /\ local[t].base = rev[t]
      BY <1>1, <1>3, <2>1, <2>5 DEF WorkerOK, Holds, Tracks, Tracked, Saving
    <3>2. n = row.revision + 1
      BY <1>1, <1>5, <1>6, <2>1, <3>1
    <3>3. Delivered(job[t])'
      BY <1>1, <3>1 DEF Delivered
    <3>4. rev'[t] <= row'.revision
      BY <1>6, <2>2, <3>2
    <3>5. l \in {"advance", "ack"}
      BY <1>8, <2>5
    <3> QED
      BY <2>2, <2>3, <3>1, <3>3, <3>4, <3>5 DEF WorkerOK, Holds, Recording, Tracks, Tracked, Saving
  <2> QED
    BY <2>4, <2>5
<1> QED
  BY <1>2, <1>7, <1>8, <1>9, <1>10, <1>11, <1>12, ThreadStep

\* A commit that fails: the revision has moved all the same.
LEMMA CommitFailsStep ==
  ASSUME IInv, NEW t \in Threads, CommitFails(t)
  PROVE  IInv'
<1>1. /\ Saving(t) /\ UNCHANGED <<row, msg, mem, job>>
      /\ Fault \/ faults' = faults
  BY DEF CommitFails, Saving
<1>2. /\ MessagesOK(msg') /\ Keeps(msg, msg') /\ job' \in [Workers -> TaskId \cup {None}]
      /\ \A w \in Workers : w # t => job'[w] = job[w]
      /\ faults' \in 0 .. MaxFaults
  BY <1>1, SameTables, FaultCounted
<1>3. PICK l, x : l = SaveRaised(t) /\ x = None
  OBVIOUS
<1>4. PICK s : s = mem[Home(t)]
  OBVIOUS
<1>5. PICK n : n = IF local[t].base = 0 THEN 1 ELSE rev[Home(t)] + 1
  OBVIOUS
<1>6. Home(t) \in Processes /\ rev[Home(t)] \in Nat
  BY Homes DEF IInv, Types
<1>7. n \in Nat
  BY <1>5, <1>6
<1>8. Good(s, msg')
  BY <1>1, <1>4, <1>6 DEF IInv, Copies
<1>9. pc' = [pc EXCEPT ![t] = l] /\ local' = [local EXCEPT ![t] = x]
  BY <1>3 DEF CommitFails, Goto
<1>10. mem' = mem /\ s = mem[Home(t)] /\ rev' = [rev EXCEPT ![Home(t)] = n]
  BY <1>1, <1>4, <1>5 DEF CommitFails, MovedRevision
<1>11. LocalOK(l, x, msg') /\ l \in PCs
  BY <1>3, RaisedLabel DEF LocalOK
<1>12. ASSUME t \in Workers PROVE WorkerOK(t)'
  <2>1. pc'[t] = SaveRaised(t) /\ mem'[t] = mem[t] /\ job'[t] = job[t]
    BY <1>1, <1>3, <1>9 DEF IInv, Types
  <2> QED
    BY <1>1, <1>2, <1>12, <2>1, RaisedWorker
<1> QED
  BY <1>1, <1>2, <1>7, <1>8, <1>9, <1>10, <1>11, <1>12, ThreadStep

\* A step of save.
LEMMA StoreOK ==
  ASSUME IInv, NEW t \in Threads, Store(t)
  PROVE  IInv'
  BY SaveStep, CommitStep, CommitFailsStep DEF Store
----------------------------------------------------------------------------
(* A worker.                                                               *)

\* A worker that ends its work forgets its copy.
LEMMA RestStep ==
  ASSUME IInv, NEW w \in Workers, Rest(w), row' = row, local' = local,
         MessagesOK(msg'), Keeps(msg, msg'), faults' = faults
  PROVE  IInv'
<1>1. w \in Threads /\ Home(w) = w
  BY Homes
<1>2. PICK l, x, s, n : l = "idle" /\ x = local[w] /\ s = NoSnapshot /\ n = 0
  OBVIOUS
<1>3. /\ pc' = [pc EXCEPT ![w] = l] /\ mem' = [mem EXCEPT ![Home(w)] = s]
      /\ rev' = [rev EXCEPT ![Home(w)] = n] /\ job' = [job EXCEPT ![w] = None]
  BY <1>1, <1>2 DEF Rest, Goto
<1>4. /\ n \in Nat /\ l \in PCs /\ LocalOK(l, x, msg') /\ faults' \in 0 .. MaxFaults
      /\ job' \in [Workers -> TaskId \cup {None}]
      /\ \A u \in Workers : u # w => job'[u] = job[u]
  BY <1>2, <1>3, FaultCounted DEF PCs, LocalOK, IInv, Types
<1>5. Good(s, msg')
  BY <1>2, EmptyCopy DEF Good, SettledIn
<1>6. WorkerOK(w)'
  <2>1. pc'[w] = "idle" /\ mem'[w] = NoSnapshot
    BY <1>1, <1>2, <1>3, Homes DEF IInv, Types
  <2> QED
    BY <2>1, IdleWorker
<1> QED
  BY <1>1, <1>2, <1>3, <1>4, <1>5, <1>6, ThreadStep

\* A worker restores the row: its copy is the row's, an unborn one too.
LEMMA PollStep ==
  ASSUME IInv, NEW w \in Workers, Poll(w)
  PROVE  IInv'
<1>1. w \in Threads /\ Home(w) = w /\ w \in Processes /\ WorkerOK(w)
  BY Homes DEF IInv
<1>2. PICK l, x, s, n : l = "polled" /\ x = local[w] /\ s = row.snapshot /\ n = row.revision
  OBVIOUS
<1>3. row.revision = 0 => mem[w] = NoSnapshot /\ s = NoSnapshot
  BY <1>1, <1>2 DEF Poll, WorkerOK, IInv
<1>4. /\ pc' = [pc EXCEPT ![w] = l] /\ mem' = [mem EXCEPT ![Home(w)] = s]
      /\ rev' = [rev EXCEPT ![Home(w)] = n]
      /\ UNCHANGED <<row, msg, local, job, faults>>
  BY <1>1, <1>2, <1>3 DEF Poll, Load, Goto
<1>5. /\ MessagesOK(msg') /\ Keeps(msg, msg') /\ job' \in [Workers -> TaskId \cup {None}]
      /\ \A u \in Workers : u # w => job'[u] = job[u]
      /\ faults' \in 0 .. MaxFaults /\ n \in Nat /\ l \in PCs /\ LocalOK(l, x, msg')
      /\ Good(s, msg')
  BY <1>2, <1>4, SameTables, FaultCounted DEF PCs, LocalOK, IInv, Types, Copies
<1>6. WorkerOK(w)'
  <2>1. /\ pc'[w] = "polled" /\ mem'[w] = row.snapshot /\ rev'[w] = row.revision
    BY <1>1, <1>2, <1>4 DEF IInv, Types
  <2>2. rev'[w] <= row'.revision
    BY <1>2, <1>4, <1>5, <2>1
  <2> QED
    BY <1>4, <2>1, <2>2 DEF WorkerOK, Holds, Recording, Tracks, Tracked, Saving
<1> QED
  BY <1>1, <1>2, <1>4, <1>5, <1>6, ThreadStep

\* claim: the worker's copy is the one it polled.
LEMMA ClaimStep ==
  ASSUME IInv, NEW w \in Workers, Claim(w)
  PROVE  IInv'
<1>1. /\ w \in Threads /\ pc[w] = "polled" /\ UNCHANGED <<row, local, faults>> /\ WorkerOK(w)
  BY Homes DEF Claim, IInv
<1>2. faults' \in 0 .. MaxFaults
  BY <1>1, FaultCounted
<1>3. CASE \E t \in DOMAIN msg : Claimable(msg[t])
  <2>1. PICK t \in {u \in DOMAIN msg : Claimable(msg[u])} :
              /\ msg' = [Swept EXCEPT ![t] = Leased(msg[t], w)]
              /\ job' = [job EXCEPT ![w] = t]
              /\ pc' = [pc EXCEPT ![w] = "work"]
              /\ UNCHANGED <<mem, rev>>
    BY <1>3 DEF Claim, Goto
  <2>2. PICK m : m = msg[t]
    OBVIOUS
  <2>3. m \in Message /\ m.attempts < MaxAttempts /\ t \in DOMAIN Swept /\ t \in TaskId
    BY <2>1, <2>2, SweptOK DEF Claimable, IInv, Types, MessagesOK
  <2>4. PICK e : e = Leased(m, w)
    OBVIOUS
  <2>5. m.attempts + 1 \in 0 .. MaxAttempts /\ m.attempts + 1 > 0
    BY <2>3, PipelineAssumption DEF Message
  <2>6. e \in Message /\ e.attempts = m.attempts + 1
    BY <2>3, <2>4, <2>5 DEF Leased, Message
  <2>7. PICK sw : sw = Swept
    OBVIOUS
  <2>8. sw[t].attempts = m.attempts
    <3>1. sw[t] = m \/ sw[t] = [m EXCEPT !.status = "dead_letter", !.worker = None,
                                       !.lapsed = FALSE]
      BY <2>1, <2>2, <2>7 DEF Swept
    <3> QED
      BY <2>3, <3>1 DEF Message
  <2>9. e.attempts >= sw[t].attempts
    BY <2>3, <2>6, <2>8 DEF Message
  <2>10. MessagesOK(sw) /\ Keeps(msg, sw) /\ t \in DOMAIN sw /\ msg' = [sw EXCEPT ![t] = e]
    BY <2>1, <2>2, <2>3, <2>4, <2>7, SweptOK
  <2>11. MessagesOK(msg') /\ Keeps(sw, msg')
    BY <2>6, <2>9, <2>10, MessageWritten
  <2>12. Keeps(msg, msg')
    BY <2>10, <2>11 DEF Keeps
  <2>13. /\ job' \in [Workers -> TaskId \cup {None}] /\ job'[w] = t
         /\ \A u \in Workers : u # w => job'[u] = job[u]
    BY <2>1, <2>3 DEF IInv, Types
  <2>14. Delivered(job[w])'
    BY <2>5, <2>6, <2>10, <2>13 DEF Delivered
  <2>15. WorkerOK(w)'
    <3>1. /\ pc'[w] = "work" /\ mem'[w] = mem[w] /\ rev'[w] = rev[w] /\ row' = row
      BY <1>1, <2>1 DEF IInv, Types
    <3>2. rev[w] <= row.revision /\ (rev[w] = row.revision => mem[w] = row.snapshot)
      BY <1>1 DEF WorkerOK, Tracks, Tracked
    <3> QED
      BY <2>3, <2>13, <2>14, <3>1, <3>2 DEF WorkerOK, Holds, Recording, Tracks, Tracked, Saving
  <2>16. PICK l : l = "work"
    OBVIOUS
  <2>17. l \in PCs /\ l \notin {"publish", "save", "commit"}
    BY <2>16 DEF PCs
  <2> QED
    BY <1>1, <1>2, <2>1, <2>11, <2>12, <2>13, <2>15, <2>16, <2>17, MoveStep
<1>4. CASE ~\E t \in DOMAIN msg : Claimable(msg[t])
  <2>1. msg' = Swept /\ Rest(w)
    BY <1>4 DEF Claim
  <2> QED
    BY <1>1, <2>1, SweptOK, RestStep
<1> QED
  BY <1>3, <1>4

\* A worker's job is no longer PENDING in a copy: it was delivered.
LEMMA JobSettled ==
  ASSUME IInv, NEW w \in Workers, Holds(w), NEW s, CopyOK(s),
         DOMAIN s.tasks = DOMAIN mem[w].tasks,
         \A u \in DOMAIN mem[w].tasks : u # job[w] => s.tasks[u] = mem[w].tasks[u]
  PROVE  Good(s, msg)
<1>1. SettledIn(mem[w], msg) /\ Delivered(job[w])
  BY Homes DEF IInv, Copies, Good, WorkerOK
<1> QED
  BY <1>1 DEF Good, SettledIn, Delivered

\* complete_task saves the moved copy before it acknowledges.
LEMMA CompleteStep ==
  ASSUME IInv, NEW w \in Workers, Complete(w)
  PROVE  IInv'
<1>1. /\ w \in Threads /\ w \in Processes /\ Home(w) = w /\ pc[w] = "work"
      /\ UNCHANGED <<row, msg, rev, job, faults>> /\ WorkerOK(w) /\ Holds(w) /\ Tracks(w)
  BY Homes DEF Complete, IInv, Holds, Tracks
<1>2. /\ MessagesOK(msg') /\ Keeps(msg, msg') /\ job' \in [Workers -> TaskId \cup {None}]
      /\ \A u \in Workers : u # w => job'[u] = job[u]
      /\ faults' \in 0 .. MaxFaults
  BY <1>1, SameTables, FaultCounted
<1>3. CASE job[w] \in DOMAIN mem[w].tasks
  <2>1. PICK c, t : c = mem[w] /\ t = job[w]
    OBVIOUS
  <2>2. PICK s, after : /\ s = Completed(c, t)
                        /\ after = IF t.round = 0 THEN "advance" ELSE "ack"
    OBVIOUS
  <2>3. CopyOK(c) /\ t \in DOMAIN c.tasks
    BY <1>1, <1>3, <2>1 DEF IInv, Copies, Good
  <2>4. /\ CopyOK(s) /\ DOMAIN s.tasks = DOMAIN c.tasks
        /\ \A u \in DOMAIN c.tasks : u # t => s.tasks[u] = c.tasks[u]
        /\ KeepsGates(c, s, t)
    BY <2>2, <2>3, CompletedCopy
  <2>5. Good(s, msg')
    BY <1>1, <2>1, <2>4, JobSettled
  <2>6. Persist(w, s, after)
    BY <1>3, <2>1, <2>2 DEF Complete
  <2>7. after \in {"idle", "advance", "ack"} /\ after # "idle"
    BY <2>2
  <2>8. rev[w] = row.revision => KeepsGates(row.snapshot, s, job[w])
    <3>1. rev[w] = row.revision => c = row.snapshot
      BY <1>1, <2>1 DEF WorkerOK, Tracked
    <3> QED
      BY <2>1, <2>4, <3>1
  <2> QED
    BY <1>1, <1>2, <2>5, <2>6, <2>7, <2>8, PersistStep
<1>4. CASE job[w] \notin DOMAIN mem[w].tasks
  <2>1. PICK l : l = "ack"
    OBVIOUS
  <2>2. /\ pc' = [pc EXCEPT ![w] = l] /\ mem' = mem /\ local' = local /\ l \in PCs
        /\ l \notin {"publish", "save", "commit"}
    BY <1>4, <2>1 DEF Complete, Goto, PCs
  <2>3. WorkerOK(w)'
    <3>1. pc'[w] \in {"ack", "fail", "failed"} /\ job'[w] = job[w]
      BY <1>1, <2>1, <2>2 DEF IInv, Types
    <3> QED
      BY <1>1, <1>2, <3>1, JobKept
  <2> QED
    BY <1>1, <1>2, <2>2, <2>3, MoveStep
<1> QED
  BY <1>3, <1>4

\* The executor raises.
LEMMA ExecutionFailsStep ==
  ASSUME IInv, NEW w \in Workers, ExecutionFails(w)
  PROVE  IInv'
<1>1. PICK l : l = "fail"
  OBVIOUS
<1>2. /\ w \in Threads /\ Holds(w) /\ pc' = [pc EXCEPT ![w] = l]
      /\ UNCHANGED <<row, msg, mem, rev, local, job, faults>>
      /\ l \in PCs /\ l \notin {"publish", "save", "commit"}
  BY <1>1, Homes DEF ExecutionFails, Goto, PCs, Holds
<1>3. /\ MessagesOK(msg') /\ Keeps(msg, msg') /\ job' \in [Workers -> TaskId \cup {None}]
      /\ \A u \in Workers : u # w => job'[u] = job[u]
      /\ faults' \in 0 .. MaxFaults
  BY <1>2, SameTables, FaultCounted
<1>4. WorkerOK(w)'
  <2>1. pc'[w] \in {"ack", "fail", "failed"} /\ job'[w] = job[w]
    BY <1>1, <1>2 DEF IInv, Types
  <2> QED
    BY <1>2, <1>3, <2>1, JobKept
<1> QED
  BY <1>2, <1>3, <1>4, MoveStep

\* ack completes the worker's own message, or finds that it has lost it.
LEMMA AckStep ==
  ASSUME IInv, NEW w \in Workers, Ack(w)
  PROVE  IInv'
<1>1. /\ w \in Threads /\ UNCHANGED <<row, local, faults>> /\ Holds(w) /\ MessagesOK(msg)
  BY Homes DEF Ack, Holds, IInv, Types
<1>2. job[w] \in DOMAIN msg
  BY <1>1 DEF IInv, WorkerOK, Delivered
<1>3. CASE Owned(w)
  <2>1. PICK t, e : t = job[w] /\ e = [msg[t] EXCEPT !.status = "completed", !.lapsed = FALSE]
    OBVIOUS
  <2>2. e \in Message /\ e.attempts >= msg[t].attempts
    <3>1. e \in Message /\ e.attempts = msg[t].attempts
      BY <1>1, <1>2, <2>1 DEF MessagesOK, Message
    <3>2. e.attempts \in Nat
      BY <3>1 DEF Message
    <3> QED
      BY <3>1, <3>2
  <2>3. msg' = [msg EXCEPT ![t] = e] /\ Rest(w)
    BY <1>1, <1>2, <1>3, <2>1 DEF Ack, MessagesOK, Message
  <2>4. MessagesOK(msg') /\ Keeps(msg, msg')
    BY <1>1, <1>2, <2>1, <2>2, <2>3, MessageWritten
  <2> QED
    BY <1>1, <2>3, <2>4, RestStep
<1>4. CASE ~Owned(w)
  <2>1. PICK l : l = "fail"
    OBVIOUS
  <2>2. /\ pc' = [pc EXCEPT ![w] = l] /\ UNCHANGED <<msg, mem, rev, job>>
        /\ l \in PCs /\ l \notin {"publish", "save", "commit"}
    BY <1>4, <2>1 DEF Ack, Goto, PCs
  <2>3. /\ MessagesOK(msg') /\ Keeps(msg, msg') /\ job' \in [Workers -> TaskId \cup {None}]
        /\ \A u \in Workers : u # w => job'[u] = job[u]
        /\ faults' \in 0 .. MaxFaults
    BY <1>1, <2>2, SameTables, FaultCounted
  <2>4. WorkerOK(w)'
    <3>1. pc'[w] \in {"ack", "fail", "failed"} /\ job'[w] = job[w]
      BY <1>1, <2>1, <2>2 DEF IInv, Types
    <3> QED
      BY <1>1, <2>3, <3>1, JobKept
  <2> QED
    BY <1>1, <2>2, <2>3, <2>4, MoveStep
<1> QED
  BY <1>3, <1>4

\* fail gives the worker's own message back, or dead-letters it.
LEMMA FailStep ==
  ASSUME IInv, NEW w \in Workers, Fail(w)
  PROVE  IInv'
<1>1. /\ w \in Threads /\ UNCHANGED <<row, local, faults>> /\ Holds(w) /\ MessagesOK(msg)
  BY Homes DEF Fail, Holds, IInv, Types
<1>2. job[w] \in DOMAIN msg
  BY <1>1 DEF IInv, WorkerOK, Delivered
<1>3. CASE Owned(w)
  <2>1. PICK t, k : /\ t = job[w]
                    /\ k = IF msg[job[w]].attempts < MaxAttempts THEN "pending" ELSE "dead_letter"
    OBVIOUS
  <2>2. PICK e : e = [msg[t] EXCEPT !.status = k, !.worker = None, !.lapsed = FALSE]
    OBVIOUS
  <2>3. k \in {"pending", "dead_letter"} /\ msg[t] \in Message
    BY <1>1, <1>2, <2>1 DEF MessagesOK
  <2>4. e \in Message /\ e.attempts >= msg[t].attempts
    <3>1. e \in Message /\ e.attempts = msg[t].attempts
      BY <2>2, <2>3 DEF Message
    <3>2. e.attempts \in Nat
      BY <3>1 DEF Message
    <3> QED
      BY <3>1, <3>2
  <2>5. PICK l : l = "failed"
    OBVIOUS
  <2>6. /\ msg' = [msg EXCEPT ![t] = e] /\ pc' = [pc EXCEPT ![w] = l]
        /\ UNCHANGED <<mem, rev, job>> /\ l \in PCs /\ l \notin {"publish", "save", "commit"}
    BY <1>3, <2>1, <2>2, <2>5 DEF Fail, Goto, PCs
  <2>7. MessagesOK(msg') /\ Keeps(msg, msg')
    BY <1>1, <1>2, <2>1, <2>4, <2>6, MessageWritten
  <2>8. /\ job' \in [Workers -> TaskId \cup {None}]
        /\ \A u \in Workers : u # w => job'[u] = job[u]
        /\ faults' \in 0 .. MaxFaults
    BY <1>1, <2>6, SameTables, FaultCounted
  <2>9. WorkerOK(w)'
    <3>1. pc'[w] \in {"ack", "fail", "failed"} /\ job'[w] = job[w]
      BY <1>1, <2>5, <2>6 DEF IInv, Types
    <3> QED
      BY <1>1, <2>7, <3>1, JobKept
  <2> QED
    BY <1>1, <2>6, <2>7, <2>8, <2>9, MoveStep
<1>4. CASE ~Owned(w)
  <2>1. msg' = msg /\ Rest(w)
    BY <1>4 DEF Fail
  <2> QED
    BY <1>1, <2>1, SameTables, RestStep
<1> QED
  BY <1>3, <1>4

\* fail_task aligns the task with its message, in a snapshot that is all that
\* is left of the copy.
LEMMA RecordStep ==
  ASSUME IInv, NEW w \in Workers, RecordFailure(w)
  PROVE  IInv'
<1>1. /\ w \in Threads /\ w \in Processes /\ Home(w) = w /\ Holds(w)
      /\ UNCHANGED <<row, msg, faults>>
  BY Homes DEF RecordFailure, Holds
<1>2. MessagesOK(msg') /\ Keeps(msg, msg') /\ faults' \in 0 .. MaxFaults
  BY <1>1, SameTables, FaultCounted
<1>3. CASE job[w] \in DOMAIN mem[w].tasks
  <2>1. PICK c, t, k : /\ c = mem[w] /\ t = job[w]
                       /\ k = IF msg[job[w]].status = "pending" THEN "RETRYING" ELSE "FAILED"
    OBVIOUS
  <2>2. PICK q : q = SetTask(c, t, k)
    OBVIOUS
  <2>3. CopyOK(c) /\ t \in DOMAIN c.tasks /\ k \in TaskStatus
    BY <1>1, <1>3, <2>1 DEF IInv, Copies, Good, TaskStatus
  <2>4. /\ Copy(q) /\ q.state = c.state /\ q.context = c.context
        /\ DOMAIN q.tasks = DOMAIN c.tasks
        /\ \A u \in DOMAIN c.tasks : u # t => q.tasks[u] = c.tasks[u]
    BY <2>2, <2>3, TaskWritten DEF CopyOK
  <2>5. CopyOK(q)
    BY <2>3, <2>4, KeptEarned DEF KeepsApprovals, Decision
  <2>6. Good(q, msg')
    BY <1>1, <2>1, <2>4, <2>5, JobSettled
  <2>7. PICK x, l, s, n : /\ x = [snapshot |-> q, after |-> "idle", base |-> 0]
                          /\ l = "save" /\ s = NoSnapshot /\ n = rev[w]
    OBVIOUS
  <2>8. /\ pc' = [pc EXCEPT ![w] = l] /\ local' = [local EXCEPT ![w] = x]
        /\ mem' = [mem EXCEPT ![Home(w)] = s] /\ rev' = rev
        /\ job' = [job EXCEPT ![w] = None]
    BY <1>1, <1>3, <2>1, <2>2, <2>7 DEF RecordFailure, Goto
  <2>9. /\ rev' = [rev EXCEPT ![Home(w)] = n] /\ n \in Nat /\ l \in PCs
        /\ job' \in [Workers -> TaskId \cup {None}]
        /\ \A u \in Workers : u # w => job'[u] = job[u]
    BY <1>1, <2>7, <2>8 DEF IInv, Types, PCs
  <2>10. LocalOK(l, x, msg')
    BY <2>6, <2>7 DEF LocalOK
  <2>11. Good(s, msg')
    BY <2>7, EmptyCopy DEF Good, SettledIn
  <2>12. WorkerOK(w)'
    <3>1. pc'[w] = "save" /\ local'[w].after = "idle" /\ mem'[w] = NoSnapshot
      BY <1>1, <2>7, <2>8 DEF IInv, Types
    <3> QED
      BY <3>1 DEF WorkerOK, Holds, Recording, Tracks, Saving, NoSnapshot
  <2> QED
    BY <1>1, <1>2, <2>8, <2>9, <2>10, <2>11, <2>12, ThreadStep
<1>4. CASE job[w] \notin DOMAIN mem[w].tasks
  <2>1. Rest(w) /\ local' = local
    BY <1>4 DEF RecordFailure
  <2> QED
    BY <1>1, <1>2, <2>1, RestStep
<1> QED
  BY <1>3, <1>4

\* A step of a worker.
LEMMA WorkerStepOK ==
  ASSUME IInv, NEW w \in Workers, WorkerStep(w)
  PROVE  IInv'
  BY PollStep, ClaimStep, ExecutionFailsStep, CompleteStep, AckStep, FailStep, RecordStep
  DEF WorkerStep
----------------------------------------------------------------------------
(* Faults.                                                                 *)

\* A lease that lapses.
LEMMA LapseStep ==
  ASSUME IInv, NEW t \in DOMAIN msg, Lapse(t)
  PROVE  IInv'
<1>1. /\ msg' = [msg EXCEPT ![t].lapsed = TRUE] /\ UNCHANGED <<row, mem, rev, pc, local, job>>
      /\ Fault \/ faults' = faults
  BY DEF Lapse
<1>2. PICK e : e = [msg[t] EXCEPT !.lapsed = TRUE]
  OBVIOUS
<1>3. MessagesOK(msg) /\ msg[t] \in Message
  BY DEF IInv, Types, MessagesOK
<1>4. e \in Message /\ e.attempts = msg[t].attempts
  BY <1>2, <1>3 DEF Message
<1>5. e.attempts \in Nat
  BY <1>4 DEF Message
<1>6. e.attempts >= msg[t].attempts /\ msg' = [msg EXCEPT ![t] = e]
  BY <1>1, <1>2, <1>4, <1>5
<1>7. MessagesOK(msg') /\ Keeps(msg, msg')
  BY <1>3, <1>4, <1>6, MessageWritten
<1>8. /\ job' \in [Workers -> TaskId \cup {None}] /\ faults' \in 0 .. MaxFaults
      /\ pc' \in [Threads -> PCs] /\ DOMAIN local' = Threads
      /\ DOMAIN mem' = Processes /\ rev' \in [Processes -> Nat]
  BY <1>1, FaultCounted DEF IInv, Types
<1>9. PICK p : p \notin Processes
  BY PipelineAssumption
<1>10. PICK U : U = {}
  OBVIOUS
<1>11. /\ \A w \in Workers : w \in U \/ w = p => WorkerOK(w)'
       /\ \A u \in Threads : u \in U => LocalOK(pc'[u], local'[u], msg')
       /\ p \in Processes => Good(mem'[p], msg')
  BY <1>9, <1>10, Homes
<1>12. /\ row' = row /\ \A u \in Threads : pc'[u] = pc[u] /\ local'[u] = local[u]
       /\ \A q \in Processes : mem'[q] = mem[q] /\ rev'[q] = rev[q]
       /\ \A w \in Workers : job'[w] = job[w]
  BY <1>1
<1> QED
  BY <1>7, <1>8, <1>11, <1>12, ProcessStep

\* The threads of one process, a worker among them only as its process.
LEMMA ProcessThreads ==
  ASSUME NEW p \in Processes, NEW w \in Workers, w \in ThreadsOf(p) \/ w = p
  PROVE  w = p /\ Home(w) = p /\ w \in Threads
  BY Homes DEF ThreadsOf

\* A process that crashes.
LEMMA CrashStep ==
  ASSUME IInv, NEW p \in Processes, Crash(p)
  PROVE  IInv'
<1>1. /\ mem' = [mem EXCEPT ![p] = NoSnapshot] /\ rev' = [rev EXCEPT ![p] = 0]
      /\ pc' = [t \in Threads |-> IF Home(t) = p THEN "down" ELSE pc[t]]
      /\ local' = [t \in Threads |-> IF Home(t) = p THEN None ELSE local[t]]
      /\ job' = [w \in Workers |-> IF w = p THEN None ELSE job[w]]
      /\ UNCHANGED <<row, msg>> /\ Fault
  BY DEF Crash
<1>2. PICK U : U = ThreadsOf(p)
  OBVIOUS
<1>3. /\ pc' \in [Threads -> PCs] /\ DOMAIN local' = Threads
      /\ DOMAIN mem' = Processes /\ rev' \in [Processes -> Nat]
      /\ \A q \in Processes : q # p => mem'[q] = mem[q] /\ rev'[q] = rev[q]
      /\ mem'[p] = NoSnapshot
  BY <1>1 DEF IInv, Types, PCs
<1>4. \A u \in Threads : u \notin U => pc'[u] = pc[u] /\ local'[u] = local[u]
  BY <1>1, <1>2 DEF ThreadsOf
<1>5. \A u \in Threads : u \in U => LocalOK(pc'[u], local'[u], msg')
  BY <1>1, <1>2 DEF ThreadsOf, LocalOK
<1>6. Good(mem'[p], msg')
  BY <1>3, EmptyCopy DEF Good, SettledIn
<1>7. /\ MessagesOK(msg') /\ Keeps(msg, msg') /\ faults' \in 0 .. MaxFaults
      /\ job' \in [Workers -> TaskId \cup {None}]
  BY <1>1, SameTables, FaultCounted DEF IInv, Types
<1>8. \A w \in Workers : w \notin U => job'[w] = job[w]
  BY <1>1, <1>2, Homes DEF ThreadsOf
<1>9. ASSUME NEW w \in Workers, w \in U \/ w = p PROVE WorkerOK(w)'
  <2>1. w = p /\ Home(w) = p /\ w \in Threads
    BY <1>2, <1>9, ProcessThreads
  <2>2. pc'[w] = "down" /\ mem'[w] = NoSnapshot
    BY <1>1, <1>3, <2>1
  <2> QED
    BY <1>1, <2>2, IdleWorker
<1> QED
  BY <1>1, <1>3, <1>4, <1>5, <1>6, <1>7, <1>8, <1>9, ProcessStep

\* A process that is created again.
LEMMA RecreateStep ==
  ASSUME IInv, NEW p \in Processes, Recreate(p)
  PROVE  IInv'
<1>1. PICK s, n, new : /\ s = IF row.revision = 0 THEN mem[p] ELSE row.snapshot
                       /\ n = row.revision
                       /\ new = [t \in Unfinished |-> row.snapshot.tasks[t].payload]
  OBVIOUS
<1>2. /\ mem' = [mem EXCEPT ![p] = s] /\ rev' = [rev EXCEPT ![p] = n]
      /\ msg' = Published(new)
      /\ pc' = [t \in Threads |-> IF Home(t) = p THEN "idle" ELSE pc[t]]
      /\ UNCHANGED <<row, local, job, faults>>
  BY <1>1 DEF Recreate, Load
<1>3. Copy(row.snapshot) /\ n \in Nat
  BY <1>1 DEF IInv, Types, Copies, Good, CopyOK
<1>4. DOMAIN new \subseteq TaskId /\ \A t \in DOMAIN new : new[t] \in Payload
  BY <1>1, <1>3 DEF Copy, IsSnapshot, Unfinished
<1>5. MessagesOK(msg') /\ Keeps(msg, msg')
  BY <1>2, <1>4, PublishedOK
<1>6. Good(s, msg')
  BY <1>1, <1>5, StaysGood DEF IInv, Copies
<1>7. PICK U : U = ThreadsOf(p)
  OBVIOUS
<1>8. /\ pc' \in [Threads -> PCs] /\ DOMAIN local' = Threads
      /\ DOMAIN mem' = Processes /\ rev' \in [Processes -> Nat]
      /\ \A q \in Processes : q # p => mem'[q] = mem[q] /\ rev'[q] = rev[q]
      /\ mem'[p] = s
  BY <1>2, <1>3 DEF IInv, Types, PCs
<1>9. \A u \in Threads : u \notin U => pc'[u] = pc[u] /\ local'[u] = local[u]
  BY <1>2, <1>7 DEF ThreadsOf
<1>10. \A u \in Threads : u \in U => LocalOK(pc'[u], local'[u], msg')
  BY <1>2, <1>7 DEF ThreadsOf, LocalOK
<1>11. /\ job' \in [Workers -> TaskId \cup {None}] /\ faults' \in 0 .. MaxFaults
       /\ \A w \in Workers : w \notin U => job'[w] = job[w]
  BY <1>2, SameTables, FaultCounted
<1>12. ASSUME NEW w \in Workers, w \in U \/ w = p PROVE WorkerOK(w)'
  <2>1. w = p /\ Home(w) = p /\ w \in Threads
    BY <1>7, <1>12, ProcessThreads
  <2>2. \E t \in ThreadsOf(p) : pc[t] = "down"
    BY DEF Recreate
  <2>3. pc[w] = "down"
    BY <2>1, <2>2, Homes DEF ThreadsOf, Threads
  <2>4. row.revision = 0 => mem[w] = NoSnapshot
    BY <2>3 DEF IInv, WorkerOK
  <2>5. pc'[w] = "idle" /\ (row.revision = 0 => mem'[w] = NoSnapshot)
    BY <1>1, <1>2, <1>8, <2>1, <2>4
  <2> QED
    BY <1>2, <2>5, IdleWorker
<1> QED
  BY <1>2, <1>5, <1>6, <1>8, <1>9, <1>10, <1>11, <1>12, ProcessStep

----------------------------------------------------------------------------
(* The theorems.                                                           *)

\* Every step keeps the invariant.
LEMMA NextStep == IInv /\ [Next]_vars => IInv'
<1> SUFFICES ASSUME IInv, [Next]_vars PROVE IInv'
  OBVIOUS
<1>1. CASE \E t \in Requests : RequestStep(t)
  BY <1>1, RequestStepOK
<1>2. CASE \E t \in Threads : Advance(t) \/ Store(t)
  BY <1>2, AdvanceOK, StoreOK
<1>3. CASE \E w \in Workers : WorkerStep(w)
  BY <1>3, WorkerStepOK
<1>4. CASE \E p \in Processes : Crash(p) \/ Recreate(p)
  BY <1>4, CrashStep, RecreateStep
<1>5. CASE \E t \in DOMAIN msg : Lapse(t)
  BY <1>5, LapseStep
<1>6. CASE UNCHANGED vars
  <2>1. UNCHANGED <<row, msg, mem, rev, pc, local, job, faults>>
    BY <1>6 DEF vars
  <2>2. /\ MessagesOK(msg') /\ Keeps(msg, msg') /\ faults' \in 0 .. MaxFaults
        /\ job' \in [Workers -> TaskId \cup {None}]
        /\ pc' \in [Threads -> PCs] /\ DOMAIN local' = Threads
        /\ DOMAIN mem' = Processes /\ rev' \in [Processes -> Nat]
    BY <2>1, SameTables, FaultCounted DEF IInv, Types
  <2>3. PICK U, p : U = {} /\ p = CHOOSE q : q \notin Processes
    OBVIOUS
  <2>4. p \notin Processes /\ \A w \in Workers : w \notin U /\ w # p
    <3>1. \E q : q \notin Processes
      BY PipelineAssumption
    <3> QED
      BY <2>3, <3>1, Homes
  <2> QED
    BY <2>1, <2>2, <2>3, <2>4, ProcessStep
<1> QED
  BY <1>1, <1>2, <1>3, <1>4, <1>5, <1>6 DEF Next

\* Initially there is no pipeline.
LEMMA InitOK == Init => IInv
<1> SUFFICES ASSUME Init PROVE IInv
  OBVIOUS
<1>1. /\ row.revision = 0 /\ row.snapshot = NoSnapshot /\ msg = <<>> /\ faults = 0
      /\ DOMAIN mem = Processes /\ \A p \in Processes : mem[p] = NoSnapshot
      /\ rev \in [Processes -> {0}] /\ pc \in [Threads -> {"idle"}]
      /\ DOMAIN local = Threads /\ job \in [Workers -> {None}]
  BY DEF Init
<1>2. DOMAIN msg = {}
  BY <1>1
<1>3. Types
  BY <1>1, <1>2, PipelineAssumption DEF Types, PCs, MessagesOK
<1>4. Copies
  BY <1>1, EmptyCopy DEF Copies, Good, SettledIn, LocalOK
<1>5. \A w \in Workers : WorkerOK(w)
  BY <1>1, Homes DEF WorkerOK, Holds, Recording, Tracks, Saving
<1> QED
  BY <1>1, <1>3, <1>4, <1>5 DEF IInv

\* Every copy of the snapshot, every snapshot on its way to the row and the
\* row itself are well formed and earned and settle delivered tasks only; and
\* a worker whose revision is the row's has the row's gates, but for the round
\* its rework opens.
THEOREM InductiveInvariant == Spec => []IInv
  BY InitOK, NextStep, PTL DEF Spec

\* A stored task that is no longer PENDING was delivered to a worker, whoever
\* saved it after a failed publication; and the types hold.
THEOREM DeliverySafety == Spec => []SettledWasDelivered
<1>1. IInv => SettledWasDelivered
  <2> SUFFICES ASSUME IInv PROVE SettledWasDelivered
    OBVIOUS
  <2>1. \A s, m : Good(s, m) => IsSnapshot(s)
    BY DEF Good, CopyOK, Copy
  <2>2. \A t \in Threads : IsLocal(t)
    BY <2>1 DEF IInv, Copies, LocalOK, IsLocal, Saving
  <2>3. TypeOK
    BY <2>1, <2>2, Homes DEF IInv, Types, Copies, MessagesOK, TypeOK
  <2> QED
    BY <2>3 DEF IInv, Copies, Good, SettledIn, SettledWasDelivered, Delivered
<1> QED
  BY InductiveInvariant, <1>1, PTL

\* The durable workflow is past a gate only with that gate's approval and past
\* a generating state only with that state's task, whichever stale copy, late
\* completion or reopened round was saved.
THEOREM StageSafety == Spec => []StageIsEarned
<1>1. IInv => StageIsEarned
  BY DEF IInv, Copies, Good, CopyOK, Earned, StageIsEarned
<1> QED
  BY InductiveInvariant, <1>1, PTL

\* Only a commit writes the row.
LEMMA RowKept == [Next]_vars => row' = row \/ \E t \in Threads : Commit(t)
<1> SUFFICES ASSUME [Next]_vars PROVE row' = row \/ \E t \in Threads : Commit(t)
  OBVIOUS
<1>1. CASE \E t \in Requests : RequestStep(t)
  BY <1>1 DEF RequestStep, StartPipeline, UpdateRequirements, AdvanceRequest, DecideGate, RetryGate,
     RequestRework, Refresh
<1>2. CASE \E t \in Threads : Advance(t)
  BY <1>2 DEF Advance, AdvanceStop, AdvanceState, CreateTask, PublishTask, PublishFails
<1>3. CASE \E t \in Threads : Store(t)
  BY <1>3 DEF Store, Save, CommitFails
<1>4. CASE \E w \in Workers : WorkerStep(w)
  BY <1>4 DEF WorkerStep, Poll, Claim, ExecutionFails, Complete, Ack, Fail, RecordFailure
<1>5. CASE \E p \in Processes : Crash(p) \/ Recreate(p)
  BY <1>5 DEF Crash, Recreate
<1>6. CASE \E t \in DOMAIN msg : Lapse(t)
  BY <1>6 DEF Lapse
<1>7. CASE UNCHANGED vars
  BY <1>7 DEF vars
<1> QED
  BY <1>1, <1>2, <1>3, <1>4, <1>5, <1>6, <1>7 DEF Next

\* What a worker's completion does to the stored gates is what it did to the
\* gates of the row it read.
LEMMA CompletionStored ==
  ASSUME IInv, [Next]_vars, NEW w \in Workers, StoresCompletion(w)
  PROVE  KeepsGates(row.snapshot, row'.snapshot, job[w])
<1>1. CASE row' = row
  BY <1>1 DEF KeepsGates
<1>2. CASE row' # row
  <2>1. PICK t \in Threads : Commit(t)
    BY <1>2, RowKept
  <2>2. t = w
    <3>1. pc' = [pc EXCEPT ![t] = local[t].after]
      BY <2>1 DEF Commit, Goto
    <3> QED
      BY <3>1, Homes DEF StoresCompletion, IInv, Types
  <2>3. /\ pc[w] = "commit" /\ local[w].after # "idle" /\ row.revision = local[w].base
        /\ row' = [revision |-> row.revision + 1, snapshot |-> local[w].snapshot]
    BY <2>1, <2>2 DEF StoresCompletion, Commit
  <2>4. Tracked(w) /\ Saving(w)
    BY <2>3 DEF IInv, WorkerOK, Tracks, Saving
  <2>5. KeepsGates(row.snapshot, mem[w], job[w]) /\ local[w].snapshot = mem[w]
    BY <2>3, <2>4 DEF Tracked
  <2>6. row'.snapshot = mem[w]
    BY <2>3, <2>5
  <2> QED
    BY <2>5, <2>6
<1> QED
  BY <1>1, <1>2

\* What a worker's completion stores loses or changes no gate decision that
\* was stored since the worker read the row.
THEOREM DecisionSafety == Spec => CompletionKeepsDecisions
<1>1. ASSUME IInv, [Next]_vars
      PROVE  [\A w \in Workers, g \in GateIds :
                StoresCompletion(w) =>
                  LET old == row.snapshot.context.gates[g]
                      new == row'.snapshot.context.gates[g]
                  IN  \/ new = old
                      \/ /\ job[w].round # 0 /\ g = GateOf(job[w])
                         /\ old.decision = "rejected" /\ new.decision = "none"
                         /\ new.round = old.round + 1]_vars
  <2> SUFFICES ASSUME NEW w \in Workers, NEW g \in GateIds, StoresCompletion(w),
                      row'.snapshot.context.gates[g] # row.snapshot.context.gates[g]
               PROVE  /\ job[w].round # 0 /\ g = GateOf(job[w])
                      /\ row.snapshot.context.gates[g].decision = "rejected"
                      /\ row'.snapshot.context.gates[g].decision = "none"
                      /\ row'.snapshot.context.gates[g].round
                           = row.snapshot.context.gates[g].round + 1
    OBVIOUS
  <2>1. KeepsGates(row.snapshot, row'.snapshot, job[w])
    BY <1>1, CompletionStored
  <2>2. /\ g \in DOMAIN ReworkType /\ job[w] \in ReworksOf(row.snapshot, g, Round(row.snapshot, g))
        /\ Decision(row.snapshot, g) = "rejected" /\ Decision(row'.snapshot, g) = "none"
        /\ Round(row'.snapshot, g) = Round(row.snapshot, g) + 1
    BY <2>1 DEF KeepsGates
  <2>3. CopyOK(row.snapshot)
    BY <1>1 DEF IInv, Copies, Good
  <2>4. Round(row.snapshot, g) # 0
    BY <2>3, GateTyped
  <2>5. /\ job[w] \in TaskId /\ job[w].type = ReworkType[g] /\ job[w].round # 0
    BY <2>2, <2>3, <2>4 DEF ReworksOf, CopyOK, Copy, IsSnapshot
  <2>6. GateOf(job[w]) \in DOMAIN ReworkType /\ ReworkType[GateOf(job[w])] = job[w].type
    BY <2>5, ReworkGate
  <2>7. g = GateOf(job[w])
    BY <2>2, <2>5, <2>6, Shape
  <2> QED
    BY <2>2, <2>5, <2>7 DEF Decision, Round
<1> QED
  BY InductiveInvariant, <1>1, PTL DEF Spec, CompletionKeepsDecisions

\* A rework completion opens a decision round only for the gate and the
\* rejected round it was requested in.
THEOREM ReworkSafety == Spec => ReworkOpensItsRound
<1>1. ASSUME IInv, [Next]_vars
      PROVE  [\A g \in DOMAIN ReworkType, w \in Workers :
                /\ StoresCompletion(w)
                /\ Round(row'.snapshot, g) # Round(row.snapshot, g)
                => job[w] \in ReworksOf(row.snapshot, g, Round(row.snapshot, g))]_vars
  <2> SUFFICES ASSUME NEW g \in DOMAIN ReworkType, NEW w \in Workers, StoresCompletion(w),
                      Round(row'.snapshot, g) # Round(row.snapshot, g)
               PROVE  job[w] \in ReworksOf(row.snapshot, g, Round(row.snapshot, g))
    OBVIOUS
  <2>1. KeepsGates(row.snapshot, row'.snapshot, job[w]) /\ g \in GateIds
    BY <1>1, CompletionStored, Shape
  <2>2. row'.snapshot.context.gates[g] # row.snapshot.context.gates[g]
    BY DEF Round
  <2> QED
    BY <2>1, <2>2 DEF KeepsGates
<1> QED
  BY InductiveInvariant, <1>1, PTL DEF Spec, ReworkOpensItsRound
----------------------------------------------------------------------------
(* The refinement: the messages are an at-least-once queue of tasks.       *)

Phase == [pending |-> "offered", leased |-> "held",
          completed |-> "completed", dead_letter |-> "dead"]

\* What a message shows of its task.
Shown(m) ==
    [phase |-> Phase[m.status], deliveries |-> m.attempts,
     holder |-> IF m.status = "leased" THEN m.worker ELSE None]

NotShown == [phase |-> "absent", deliveries |-> 0, holder |-> None]

\* The task behind every id a message may have.
Tasks == [t \in TaskId |-> IF t \in DOMAIN msg THEN Shown(msg[t]) ELSE NotShown]

Queue == INSTANCE TaskQueue WITH Messages <- TaskId, task <- Tasks

\* The processes use the message table as an at-least-once queue and no other
\* way: a restarted process publishes again only what is not there, a worker
\* that lost its lease settles nothing, and what is completed or dead-lettered
\* stays so whatever the snapshot's copies say of the task.
MessagesAreTaskQueue == Queue!Spec

\* The phase of each status.
LEMMA Phases ==
  /\ Phase["pending"] = "offered" /\ Phase["leased"] = "held"
  /\ Phase["completed"] = "completed" /\ Phase["dead_letter"] = "dead"
  BY DEF Phase

\* What a message shows of itself.
LEMMA ShownFacts ==
  ASSUME NEW m \in Message
  PROVE  /\ Shown(m).phase # "absent"
         /\ Shown(m).phase = "held" <=> m.status = "leased"
         /\ Shown(m).phase \in {"offered", "held"}
              <=> m.status \in {"pending", "leased"}
         /\ Shown(m).deliveries = m.attempts
  BY Phases DEF Shown, Message

\* A message that is leased once more.
LEMMA ShownLeased ==
  ASSUME NEW m \in Message, NEW p, NEW n, n = m.attempts + 1
  PROVE  Shown(Leased(m, p)) = [phase |-> "held", deliveries |-> n, holder |-> p]
<1>1. /\ Leased(m, p).status = "leased" /\ Leased(m, p).attempts = n
      /\ Leased(m, p).worker = p
  BY DEF Leased, Message
<1> QED
  BY <1>1, Phases DEF Shown

\* The other operations on a message, as they are shown.
LEMMA ShownWritten ==
  ASSUME NEW m \in Message
  PROVE  /\ Shown([m EXCEPT !.status = "dead_letter", !.worker = None, !.lapsed = FALSE])
              = [phase |-> "dead", deliveries |-> m.attempts, holder |-> None]
         /\ Shown([m EXCEPT !.status = "pending", !.worker = None, !.lapsed = FALSE])
              = [phase |-> "offered", deliveries |-> m.attempts, holder |-> None]
         /\ Shown([m EXCEPT !.status = "completed", !.lapsed = FALSE])
              = [phase |-> "completed", deliveries |-> m.attempts, holder |-> None]
         /\ Shown([m EXCEPT !.lapsed = TRUE]) = Shown(m)
<1> USE Phases
<1>1. Shown([m EXCEPT !.status = "dead_letter", !.worker = None, !.lapsed = FALSE])
        = [phase |-> "dead", deliveries |-> m.attempts, holder |-> None]
  BY DEF Shown, Message
<1>2. Shown([m EXCEPT !.status = "pending", !.worker = None, !.lapsed = FALSE])
        = [phase |-> "offered", deliveries |-> m.attempts, holder |-> None]
  BY DEF Shown, Message
<1>3. Shown([m EXCEPT !.status = "completed", !.lapsed = FALSE])
        = [phase |-> "completed", deliveries |-> m.attempts, holder |-> None]
  BY DEF Shown, Message
<1>4. Shown([m EXCEPT !.lapsed = TRUE]) = Shown(m)
  BY DEF Shown, Message
<1> QED
  BY <1>1, <1>2, <1>3, <1>4

\* The tasks shown before and after a step.
LEMMA TasksAre ==
  /\ Tasks = [t \in TaskId |-> IF t \in DOMAIN msg THEN Shown(msg[t]) ELSE NotShown]
  /\ Tasks' = [t \in TaskId |-> IF t \in DOMAIN msg' THEN Shown(msg'[t]) ELSE NotShown]
  BY DEF Tasks

\* Publishing, for the first time or again, enters the tasks that are absent.
LEMMA PublishShown ==
  ASSUME IInv, NEW tasks, msg' = Published(tasks)
  PROVE  Queue!Publish
<1> DEFINE new == {t \in TaskId : t \in DOMAIN tasks /\ t \notin DOMAIN msg}
<1>1. DOMAIN msg' = DOMAIN msg \cup DOMAIN tasks
  BY DEF Published
<1>2. ASSUME NEW x PROVE Shown(NewMessage(x)) = Queue!Offered
  <2>1. NewMessage(x).status = "pending" /\ NewMessage(x).attempts = 0
    BY DEF NewMessage
  <2> QED
    BY <2>1, Phases DEF Shown, Queue!Offered
<1>3. ASSUME NEW t \in TaskId
      PROVE  Tasks'[t] = IF t \in new THEN Queue!Offered ELSE Tasks[t]
  <2>1. CASE t \in DOMAIN msg
    BY <1>1, <2>1, TasksAre DEF Published
  <2>2. CASE t \in new
    <3>1. msg'[t] = NewMessage(tasks[t]) /\ t \in DOMAIN msg'
      BY <1>1, <2>2 DEF Published
    <3> QED
      BY <1>2, <2>2, <3>1, TasksAre
  <2>3. CASE t \notin DOMAIN msg /\ t \notin DOMAIN tasks
    BY <1>1, <2>3, TasksAre
  <2> QED
    BY <2>1, <2>2, <2>3
<1>4. new \in SUBSET {t \in TaskId : Tasks[t].phase = "absent"}
  BY TasksAre DEF NotShown
<1> HIDE DEF new
<1>5. Tasks' = [t \in TaskId |-> IF t \in new THEN Queue!Offered ELSE Tasks[t]]
  BY <1>3, TasksAre
<1> QED
  BY <1>4, <1>5 DEF Queue!Publish

\* What the claim's sweep makes of the tasks: it buries exhausted ones only.
LEMMA SweepShown ==
  ASSUME IInv
  PROVE  \E dead \in SUBSET {t \in TaskId : Queue!Exhausted(t)} :
           \A t \in DOMAIN msg :
             Shown(Swept[t]) = IF t \in dead THEN Queue!Released(t, "dead") ELSE Tasks[t]
<1>0. \A t \in DOMAIN msg : t \in TaskId /\ msg[t] \in Message /\ Tasks[t] = Shown(msg[t])
  BY TasksAre DEF IInv, Types, MessagesOK
<1> DEFINE dead == {t \in DOMAIN msg : Waiting(msg[t]) /\ msg[t].attempts >= MaxAttempts}
<1>1. ASSUME NEW t \in dead PROVE Queue!Exhausted(t)
  <2>1. msg[t].status \in {"pending", "leased"} /\ msg[t].attempts = MaxAttempts
    BY <1>0, PipelineAssumption DEF Waiting, Message
  <2> QED
    BY <1>0, <2>1, ShownFacts DEF Queue!Exhausted, Queue!Live
<1>2. dead \in SUBSET {t \in TaskId : Queue!Exhausted(t)}
  BY <1>0, <1>1
<1>3. ASSUME NEW t \in DOMAIN msg
      PROVE  Shown(Swept[t]) = IF t \in dead THEN Queue!Released(t, "dead") ELSE Tasks[t]
  <2>1. CASE t \in dead
    <3>1. Swept[t] = [msg[t] EXCEPT !.status = "dead_letter", !.worker = None,
                                    !.lapsed = FALSE]
      BY <2>1 DEF Swept
    <3>2. Tasks[t].deliveries = msg[t].attempts
      BY <1>0, ShownFacts
    <3> QED
      BY <1>0, <2>1, <3>1, <3>2, ShownWritten DEF Queue!Released
  <2>2. CASE t \notin dead
    BY <1>0, <2>2 DEF Swept
  <2> QED
    BY <2>1, <2>2
<1> QED
  BY <1>2, <1>3

\* A claim delivers one task, or none, and buries what has no delivery left.
LEMMA ClaimShown ==
  ASSUME IInv, NEW w \in Workers, Claim(w)
  PROVE  Queue!Sweep \/ \E d \in TaskId : Queue!Deliver(w, d)
<1>0. \A t \in DOMAIN msg : t \in TaskId /\ msg[t] \in Message /\ Tasks[t] = Shown(msg[t])
  BY TasksAre DEF IInv, Types, MessagesOK
<1>1. PICK dead \in SUBSET {t \in TaskId : Queue!Exhausted(t)} :
        \A t \in DOMAIN msg :
          Shown(Swept[t]) = IF t \in dead THEN Queue!Released(t, "dead") ELSE Tasks[t]
  BY SweepShown
<1>2. ASSUME NEW t \in dead PROVE t \in DOMAIN msg
  <2>1. t \in TaskId /\ Tasks[t].phase \in {"offered", "held"}
    BY <1>1, <1>2 DEF Queue!Exhausted, Queue!Live
  <2> QED
    BY <2>1, TasksAre DEF NotShown
<1>3. ASSUME NEW t \in TaskId, t \notin DOMAIN msg PROVE t \notin dead /\ Tasks[t] = NotShown
  BY <1>2, <1>3, TasksAre
<1>4. DOMAIN Swept = DOMAIN msg
  BY DEF Swept
<1>5. CASE msg' = Swept
  <2>1. ASSUME NEW t \in TaskId
        PROVE  Tasks'[t] = IF t \in dead THEN Queue!Released(t, "dead") ELSE Tasks[t]
    <3>1. CASE t \in DOMAIN msg
      BY <1>1, <1>4, <1>5, <3>1, TasksAre
    <3>2. CASE t \notin DOMAIN msg
      BY <1>3, <1>4, <1>5, <3>2, TasksAre
    <3> QED
      BY <3>1, <3>2
  <2>2. Tasks' = [t \in TaskId |->
                    IF t \in dead THEN Queue!Released(t, "dead") ELSE Tasks[t]]
    BY <2>1, TasksAre
  <2> QED
    BY <1>1, <2>2 DEF Queue!Sweep
<1>6. CASE \E d \in DOMAIN msg : Claimable(msg[d])
  <2>1. PICK d \in DOMAIN msg :
          Claimable(msg[d]) /\ msg' = [Swept EXCEPT ![d] = Leased(msg[d], w)]
    BY <1>6 DEF Claim
  <2>2. d \in TaskId /\ Tasks[d].deliveries = msg[d].attempts /\ msg[d] \in Message
    BY <1>0, ShownFacts
  <2>3. Queue!Live(d) /\ Tasks[d].deliveries < MaxAttempts
    BY <1>0, <2>1, <2>2, ShownFacts DEF Queue!Live, Claimable, Waiting
  <2>4. PICK n : n = msg[d].attempts + 1
    OBVIOUS
  <2>5. Shown(Leased(msg[d], w)) = [phase |-> "held", deliveries |-> n, holder |-> w]
    BY <2>2, <2>4, ShownLeased
  <2>6. PICK R : R = Leased(msg[d], w)
    OBVIOUS
  <2>7. Shown(R) = Queue!Delivered(d, w)
    BY <2>2, <2>4, <2>5, <2>6 DEF Queue!Delivered
  <2>8. msg' = [Swept EXCEPT ![d] = R] /\ DOMAIN msg' = DOMAIN msg
    BY <1>4, <2>1, <2>6
  <2>9. ASSUME NEW t \in TaskId
        PROVE  Tasks'[t] = IF t = d THEN Queue!Delivered(t, w)
                           ELSE IF t \in dead THEN Queue!Released(t, "dead") ELSE Tasks[t]
    <3>1. CASE t = d
      <4>1. msg'[t] = R /\ t \in DOMAIN msg'
        BY <1>4, <2>8, <3>1
      <4> QED
        BY <2>7, <3>1, <4>1, TasksAre
    <3>2. CASE t # d /\ t \in DOMAIN msg
      <4>1. msg'[t] = Swept[t] /\ t \in DOMAIN msg'
        BY <1>4, <2>8, <3>2
      <4> QED
        BY <1>1, <3>2, <4>1, TasksAre
    <3>3. CASE t # d /\ t \notin DOMAIN msg
      BY <1>3, <2>8, <3>3, TasksAre
    <3> QED
      BY <3>1, <3>2, <3>3
  <2>10. Tasks' = [t \in TaskId |->
                     IF t = d THEN Queue!Delivered(t, w)
                     ELSE IF t \in dead THEN Queue!Released(t, "dead") ELSE Tasks[t]]
    BY <2>9, TasksAre
  <2>11. Queue!Deliver(w, d)
    BY <1>1, <2>3, <2>10 DEF Queue!Deliver
  <2> QED
    BY <2>2, <2>11
<1> QED
  BY <1>5, <1>6 DEF Claim

\* A worker that still holds its message settles it.
LEMMA SettleShown ==
  ASSUME IInv, NEW d \in DOMAIN msg, NEW R, NEW phase, msg' = [msg EXCEPT ![d] = R],
         msg[d].status = "leased",
         Shown(R) = [phase |-> phase, deliveries |-> msg[d].attempts, holder |-> None],
         phase = "offered" => msg[d].attempts < MaxAttempts
  PROVE  d \in TaskId /\ Queue!Settle(d, phase)
<1>1. d \in TaskId /\ msg[d] \in Message /\ Tasks[d] = Shown(msg[d])
  BY TasksAre DEF IInv, Types, MessagesOK
<1>2. Tasks[d].phase = "held" /\ Tasks[d].deliveries = msg[d].attempts
  BY <1>1, ShownFacts
<1>3. Shown(R) = Queue!Released(d, phase)
  BY <1>2 DEF Queue!Released
<1>4. DOMAIN msg' = DOMAIN msg /\ msg'[d] = R /\ \A t \in DOMAIN msg : t # d => msg'[t] = msg[t]
  OBVIOUS
<1>5. Tasks' = [Tasks EXCEPT ![d] = Queue!Released(d, phase)]
  BY <1>1, <1>3, <1>4, TasksAre
<1> QED
  BY <1>1, <1>2, <1>5 DEF Queue!Settle

\* ack and fail settle the worker's own message, or touch none.
LEMMA FinishShown ==
  ASSUME IInv, NEW w \in Workers, Ack(w) \/ Fail(w)
  PROVE  \/ Tasks' = Tasks
         \/ \E d \in TaskId, phase \in {"completed", "dead", "offered"} : Queue!Settle(d, phase)
<1>1. CASE msg' = msg
  BY <1>1, TasksAre
<1>2. CASE Owned(w) /\ job[w] \in DOMAIN msg
  <2>1. PICK d \in DOMAIN msg : d = job[w]
    BY <1>2
  <2>2. msg[d].status = "leased" /\ msg[d] \in Message
    BY <1>2, <2>1 DEF Owned, IInv, Types, MessagesOK
  <2>3. CASE Ack(w)
    <3>1. PICK R : R = [msg[d] EXCEPT !.status = "completed", !.lapsed = FALSE]
      OBVIOUS
    <3>2. msg' = [msg EXCEPT ![d] = R]
      BY <1>2, <2>1, <2>2, <2>3, <3>1 DEF Ack, Message
    <3>3. PICK phase \in {"completed", "dead", "offered"} : phase = "completed"
      OBVIOUS
    <3>4. Shown(R) = [phase |-> phase, deliveries |-> msg[d].attempts, holder |-> None]
      BY <2>2, <3>1, <3>3, ShownWritten
    <3> QED
      BY <2>2, <3>2, <3>3, <3>4, SettleShown
  <2>4. CASE Fail(w)
    <3>1. PICK x : x = IF msg[d].attempts < MaxAttempts THEN "pending" ELSE "dead_letter"
      OBVIOUS
    <3>2. PICK R : R = [msg[d] EXCEPT !.status = x, !.worker = None, !.lapsed = FALSE]
      OBVIOUS
    <3>3. msg' = [msg EXCEPT ![d] = [@ EXCEPT !.status = x, !.worker = None, !.lapsed = FALSE]]
      BY <1>2, <2>1, <2>4, <3>1 DEF Fail
    <3>4. msg' = [msg EXCEPT ![d] = R]
      BY <3>2, <3>3
    <3>5. PICK phase \in {"completed", "dead", "offered"} :
            phase = IF msg[d].attempts < MaxAttempts THEN "offered" ELSE "dead"
      OBVIOUS
    <3>6. Shown(R) = [phase |-> phase, deliveries |-> msg[d].attempts, holder |-> None]
      BY <2>2, <3>1, <3>2, <3>5, ShownWritten
    <3>7. phase = "offered" => msg[d].attempts < MaxAttempts
      BY <3>5
    <3> QED
      BY <2>2, <3>4, <3>6, <3>7, SettleShown
  <2> QED
    BY <2>3, <2>4
<1>3. CASE Owned(w) /\ job[w] \notin DOMAIN msg
  <2>1. DOMAIN msg' = DOMAIN msg /\ \A t \in DOMAIN msg : msg'[t] = msg[t]
    BY <1>3 DEF Ack, Fail
  <2> QED
    BY <2>1, TasksAre
<1> QED
  BY <1>1, <1>2, <1>3 DEF Ack, Fail

\* The other steps of the pipeline leave the messages alone, but for a lease
\* that lapses, which no task shows.
LEMMA MessagesStep ==
  ASSUME IInv, [Next]_vars
  PROVE  Queue!Next \/ Tasks' = Tasks
<1>1. ASSUME NEW t \in Requests, RequestStep(t) PROVE msg' = msg
  BY <1>1 DEF RequestStep, StartPipeline, UpdateRequirements, AdvanceRequest, DecideGate,
     RetryGate, RequestRework, Refresh
<1>2. ASSUME NEW t \in Threads, Advance(t) \/ Store(t) PROVE Queue!Publish \/ msg' = msg
  <2>1. CASE PublishTask(t)
    BY <2>1, PublishShown DEF PublishTask
  <2>2. CASE AdvanceStop(t) \/ AdvanceState(t) \/ CreateTask(t) \/ PublishFails(t)
    BY <2>2 DEF AdvanceStop, AdvanceState, CreateTask, PublishFails
  <2>3. CASE Store(t)
    BY <2>3 DEF Store, Save, Commit, CommitFails
  <2> QED
    BY <1>2, <2>1, <2>2, <2>3 DEF Advance
<1>3. ASSUME NEW p \in Processes, Crash(p) \/ Recreate(p) PROVE Queue!Publish \/ msg' = msg
  <2>1. CASE Crash(p)
    BY <2>1 DEF Crash
  <2>2. CASE Recreate(p)
    BY <2>2, PublishShown DEF Recreate
  <2> QED
    BY <1>3, <2>1, <2>2
<1>4. ASSUME NEW w \in Workers, WorkerStep(w) PROVE Queue!Next \/ Tasks' = Tasks
  <2>1. CASE Claim(w)
    BY <2>1, ClaimShown DEF Queue!Next
  <2>2. CASE Ack(w) \/ Fail(w)
    BY <2>2, FinishShown DEF Queue!Next
  <2>3. CASE Poll(w) \/ ExecutionFails(w) \/ Complete(w) \/ RecordFailure(w)
    <3>1. msg' = msg
      BY <2>3 DEF Poll, ExecutionFails, Complete, RecordFailure
    <3> QED
      BY <3>1, TasksAre
  <2> QED
    BY <1>4, <2>1, <2>2, <2>3 DEF WorkerStep
<1>5. ASSUME NEW d \in DOMAIN msg, Lapse(d) PROVE Tasks' = Tasks
  <2>1. msg[d] \in Message /\ msg' = [msg EXCEPT ![d].lapsed = TRUE]
    BY <1>5 DEF Lapse, IInv, Types, MessagesOK
  <2>2. PICK R : R = [msg[d] EXCEPT !.lapsed = TRUE]
    OBVIOUS
  <2>3. msg' = [msg EXCEPT ![d] = R] /\ Shown(R) = Shown(msg[d])
    BY <2>1, <2>2, ShownWritten
  <2>4. DOMAIN msg' = DOMAIN msg /\ \A t \in DOMAIN msg : Shown(msg'[t]) = Shown(msg[t])
    BY <2>3
  <2> QED
    BY <2>4, TasksAre
<1>6. ASSUME UNCHANGED vars PROVE msg' = msg
  BY <1>6 DEF vars
<1>7. ASSUME msg' = msg PROVE Tasks' = Tasks
  BY <1>7, TasksAre
<1> QED
  BY <1>1, <1>2, <1>3, <1>4, <1>5, <1>6, <1>7 DEF Next, Queue!Next

\* The pipeline's processes use the message table as an at-least-once queue,
\* for every set of processes: however they crash, publish again, lose a lease
\* or hold a stale copy, a message is delivered at most max_attempts times, to
\* one worker at a time, and a completed or dead-lettered one never comes back.
THEOREM MessageTable == Spec => MessagesAreTaskQueue
<1>1. Init => Queue!Init
  <2> SUFFICES ASSUME Init PROVE Queue!Init
    OBVIOUS
  <2>1. DOMAIN msg = {}
    BY DEF Init
  <2> QED
    BY <2>1 DEF Queue!Init, Queue!Unpublished, Tasks, NotShown
<1>2. IInv /\ [Next]_vars => [Queue!Next]_Tasks
  BY MessagesStep
<1> QED
  BY InductiveInvariant, <1>1, <1>2, PTL DEF Spec, MessagesAreTaskQueue, Queue!Spec

=============================================================================
