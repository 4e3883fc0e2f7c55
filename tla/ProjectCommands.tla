-------------------------- MODULE ProjectCommands --------------------------
(***************************************************************************)
(* The command runtimes of the Project aggregate (create, launch, scope    *)
(* activation, completion, cancellation, archive, continuation).           *)
(*                                                                         *)
(* A command is one transaction of several statements: it reads the        *)
(* receipts and the project, adds a new project or completion record,      *)
(* appends its audit and its domain event (each with a number it computes  *)
(* first), looks for the project row with the revision it expects, writes  *)
(* the row by primary key, and inserts its receipt.  At READ COMMITTED the *)
(* reads lock nothing.  What keeps two commands from both writing are the  *)
(* unique keys: the second inserter of a project, of a completion record   *)
(* or of an (aggregate, sequence) waits for the first transaction, and     *)
(* fails if it commits.                                                    *)
(***************************************************************************)
EXTENDS ProjectAggregate, Sequences

CONSTANTS
    Sessions,       \* concurrent transactions
    CommandIds,     \* command_id values, reused by retries
    Denied,         \* the ids of commands whose principal lacks the grant
    NoTx,           \* the session runs no command
    MaxEvents       \* bound on the events of one project

ASSUME CommandsAssumption == MaxEvents \in Nat /\ Denied \subseteq CommandIds

VARIABLES
    events,         \* domain_events: the committed events of each project
    receipts,       \* command_executions: committed command ids
    tx              \* the open transaction of each session

vars == <<project, certified, events, receipts, tx>>

----------------------------------------------------------------------------
\* An authorization event leaves no project state; a domain event records the
\* aggregate after its command.
Event ==
    [kind    : {"authorization", "domain"},
     command : CommandIds,
     after   : Project]

\* adding: a project or a completion record is inserted next.  reading: the
\* number of an event is computed next.  inserting: that event is inserted
\* next.  checking: the events are inserted.  writing: the row was found.
Tx ==
    [pc       : {"adding", "reading", "inserting", "checking", "writing"},
     command  : CommandIds,
     project  : Projects,
     audit    : Projects,    \* resource_id of the authorization decision
     denied   : BOOLEAN,     \* only the denial is recorded
     expected : Nat,         \* expected_revision
     after    : Project,     \* the aggregate the command computed
     sequence : Nat,         \* of the event that is inserted next
     held     : [Projects -> Nat]]  \* its first inserted number, or 0

TypeOK ==
    /\ project \in [Projects -> Project]
    /\ certified \subseteq (Projects \X Plans)
    /\ events \in [Projects -> Seq(Event)]
    /\ receipts \subseteq CommandIds
    /\ tx \in [Sessions -> Tx \cup {NoTx}]

Init ==
    /\ AggregateInit
    /\ events = [p \in Projects |-> <<>>]
    /\ receipts = {}
    /\ tx = [s \in Sessions |-> NoTx]

Is(s, pc) == tx[s] # NoTx /\ tx[s].pc = pc

Rollback(s) ==
    /\ tx' = [tx EXCEPT ![s] = NoTx]
    /\ UNCHANGED <<project, certified, events, receipts>>

----------------------------------------------------------------------------
(* The statements of one command.                                          *)

\* The commands that add a row before they append events.
AddsRow(after) == after.status \in {"created", "completed"}

Begin(s, c, p, audit, denied, after) ==
    /\ tx[s] = NoTx
    /\ Len(events[p]) < MaxEvents /\ Len(events[audit]) < MaxEvents
    /\ tx' = [tx EXCEPT ![s] =
                [pc |-> IF AddsRow(after) THEN "adding" ELSE "reading",
                 command |-> c, project |-> p, audit |-> audit,
                 denied |-> denied, expected |-> project[p].revision,
                 after |-> after, sequence |-> 0,
                 held |-> [q \in Projects |-> 0]]]
    /\ UNCHANGED <<project, certified, events, receipts>>

\* Authorized, no receipt yet, the caller's expected_revision is the one read
\* and the aggregate accepts the command.  The decision is about the source:
\* for a continuation another project than the one it creates.
Read(s, c, p, op, plan, source) ==
    /\ tx[s] = NoTx
    /\ c \notin Denied
    /\ c \notin receipts
    /\ Allowed(p, op, plan, source)
    /\ project[p].revision < MaxRevision
    /\ Begin(s, c, p, source, FALSE, After(project[p], op, plan, source))

\* A denial opens a transaction of its own for its audit event.
Deny(s, c, p) == c \in Denied /\ Begin(s, c, p, p, TRUE, AbsentProject)

\* Another transaction has inserted the same project or record.
KeyHeld(s) ==
    \E z \in Sessions :
        /\ z # s /\ tx[z] # NoTx /\ tx[z].pc # "adding"
        /\ tx[z].project = tx[s].project
        /\ tx[z].after.status = tx[s].after.status

KeyFree(t) ==
    IF t.after.status = "created" THEN project[t.project].status = "absent"
                                  ELSE project[t.project].record = None

\* INSERT of the new project, or of the completion record of the project.
AddRow(s) ==
    /\ Is(s, "adding")
    /\ ~KeyHeld(s)
    /\ KeyFree(tx[s])
    /\ tx' = [tx EXCEPT ![s].pc = "reading"]
    /\ UNCHANGED <<project, certified, events, receipts>>

RowExists(s) ==
    /\ Is(s, "adding")
    /\ ~KeyFree(tx[s])
    /\ Rollback(s)

\* The history of the next event: the audit event comes first.
Stream(t) == IF t.held[t.audit] = 0 THEN t.audit ELSE t.project

\* SELECT max(sequence) of that history.
NextSequence(s) ==
    /\ Is(s, "reading")
    /\ tx' = [tx EXCEPT ![s].pc = "inserting",
                        ![s].sequence = Len(events[Stream(tx[s])]) + 1]
    /\ UNCHANGED <<project, certified, events, receipts>>

\* An uncommitted event of another transaction has the sequence number.
Contended(s) ==
    \E z \in Sessions :
        /\ z # s /\ tx[z] # NoTx
        /\ tx[z].held[Stream(tx[s])] = tx[s].sequence

\* A command's second event in the same history takes the number after the
\* first, which nobody else can have computed, and is inserted with it.  A new
\* project was written before its events.
Inserted(t) ==
    [t EXCEPT !.held = [t.held EXCEPT ![Stream(t)] = t.sequence],
              !.pc = IF Stream(t) # t.project THEN "reading"
                     ELSE IF t.after.status = "created" THEN "writing"
                     ELSE "checking"]

\* Mutated form: the table has no unique constraint.
InsertEventsAnyway(s) ==
    /\ Is(s, "inserting")
    /\ tx' = [tx EXCEPT ![s] = Inserted(tx[s])]
    /\ UNCHANGED <<project, certified, events, receipts>>

\* INSERT waits for a transaction that holds the number and fails if the
\* number is committed.
InsertEvents(s) ==
    /\ Is(s, "inserting")
    /\ ~Contended(s)
    /\ tx[s].sequence > Len(events[Stream(tx[s])])
    /\ tx' = [tx EXCEPT ![s] = Inserted(tx[s])]
    /\ UNCHANGED <<project, certified, events, receipts>>

\* IntegrityError: the transaction rolls back, and the caller may retry.
SequenceTaken(s) ==
    /\ Is(s, "inserting")
    /\ tx[s].sequence <= Len(events[Stream(tx[s])])
    /\ Rollback(s)

\* Mutated form: the update does not look for the expected revision.
RevisionUnchecked(t) == TRUE

\* SELECT ... WHERE revision = expected_revision.
RevisionFound(t) ==
    /\ project[t.project].status # "absent"
    /\ project[t.project].revision = t.expected

CheckRevision(s) ==
    /\ Is(s, "checking")
    /\ ~tx[s].denied
    /\ RevisionFound(tx[s])
    /\ tx' = [tx EXCEPT ![s].pc = "writing"]
    /\ UNCHANGED <<project, certified, events, receipts>>

RevisionConflict(s) ==
    /\ Is(s, "checking")
    /\ ~tx[s].denied
    /\ ~RevisionFound(tx[s])
    /\ Rollback(s)

Entry(t, kind) == [kind |-> kind, command |-> t.command, after |-> t.after]

\* The histories with the audit event of a command, and with both its events.
\* (The second event of a continuation, PROJECT_CONTINUED, says no more than
\* its PROJECT_CREATED and is one entry with it.)
Audited(t) ==
    [events EXCEPT ![t.audit] = Append(events[t.audit], Entry(t, "authorization"))]

Recorded(t) ==
    [Audited(t) EXCEPT ![t.project] =
        Append(Audited(t)[t.project], Entry(t, "domain"))]

\* Mutated form: the receipt is an upsert.
ReceiptOverwritten(t) == TRUE

\* The primary key of command_executions is free.
ReceiptFree(t) == t.command \notin receipts

\* The row, the receipt and the events become visible together.
Commit(s) ==
    LET t == tx[s] IN
    /\ Is(s, "writing")
    /\ ReceiptFree(t)
    /\ project' = [project EXCEPT ![t.project] = t.after]
    /\ events' = Recorded(t)
    /\ receipts' = receipts \cup {t.command}
    /\ tx' = [tx EXCEPT ![s] = NoTx]
    /\ UNCHANGED certified

ReceiptTaken(s) ==
    /\ Is(s, "writing")
    /\ ~ReceiptFree(tx[s])
    /\ Rollback(s)

CommitDenial(s) ==
    /\ Is(s, "checking")
    /\ tx[s].denied
    /\ events' = Audited(tx[s])
    /\ tx' = [tx EXCEPT ![s] = NoTx]
    /\ UNCHANGED <<project, certified, receipts>>

\* The process or its connection is lost before the commit.
Crash(s) == tx[s] # NoTx /\ Rollback(s)

----------------------------------------------------------------------------
Evidence ==
    /\ \E p \in Projects, plan \in Plans :
         <<p, plan>> \notin certified /\ Certify(p, plan)
    /\ UNCHANGED <<events, receipts, tx>>

Start(s) ==
    \E c \in CommandIds, p \in Projects :
        \/ \E op \in Operation, plan \in Plans, source \in Projects :
             Read(s, c, p, op, plan, source)
        \/ Deny(s, c, p)

Step(s) ==
    \/ AddRow(s) \/ RowExists(s)
    \/ NextSequence(s) \/ InsertEvents(s) \/ SequenceTaken(s)
    \/ CheckRevision(s) \/ RevisionConflict(s)
    \/ Commit(s) \/ ReceiptTaken(s) \/ CommitDenial(s)

Next ==
    \/ \E s \in Sessions : Start(s) \/ Step(s) \/ Crash(s)
    \/ Evidence

Spec == Init /\ [][Next]_vars

----------------------------------------------------------------------------
(* Safety.                                                                 *)

\* Append-only domain events retain the history of the project: there is one
\* event per revision, in order, and the newest one is the current state.
\* (The types hold.)
HistoryMirrorsProject ==
    /\ TypeOK
    /\ \A p \in Projects :
        LET domain == {i \in DOMAIN events[p] : events[p][i].kind = "domain"}
        IN /\ \A i, j \in domain : i < j =>
                events[p][i].after.revision < events[p][j].after.revision
           /\ {events[p][i].after.revision : i \in domain} =
                IF project[p].status = "absent" THEN {} ELSE 0..project[p].revision
           /\ \A i \in domain :
                events[p][i].after.revision = project[p].revision =>
                    events[p][i].after = project[p]

\* A command id changes one project once, however often and on whatever
\* project its callers retry it.
CommandOnce ==
    \A p, q \in Projects : \A i \in DOMAIN events[p], j \in DOMAIN events[q] :
        LET e == events[p][i]
            f == events[q][j]
        IN e.kind = "domain" /\ f.kind = "domain" /\ e.command = f.command
             => p = q /\ i = j

\* "Completed" is never claimed without proof: the record binds the plan that
\* is active and certified, at the revision that was verified; a cancelled
\* project has no record, and an archived one keeps which of the two it was.
CompletionIsProven ==
    \A p \in Projects :
        LET r == project[p]
            final == IF r.status = "archived" THEN r.from ELSE r.status
        IN /\ r.record # None <=> final = "completed"
           /\ r.record # None => /\ r.record.plan = r.plan
                                 /\ <<p, r.plan>> \in certified
                                 /\ r.record.revision < r.revision
           /\ r.status = "archived" => r.from \in {"completed", "cancelled"}

\* A continuation descends from a project that was completed, and still is.
LineageIsCompleted ==
    \A p \in Projects : project[p].source # None =>
        /\ project[project[p].source].record # None
        /\ project[project[p].source].status \in {"completed", "archived"}

----------------------------------------------------------------------------
(* What a step may never do.                                               *)

\* "concurrent activations cannot both win": a write of the project row was
\* computed from the row it replaces.
NoLostUpdate ==
    [][\A s \in Sessions :
         Is(s, "writing") /\ tx'[s] = NoTx /\ project' # project =>
           LET p == tx[s].project IN
           /\ project[p].revision = tx[s].expected
           /\ project[p].status # "absent" => project'[p].revision = tx[s].expected + 1]_vars

=============================================================================
