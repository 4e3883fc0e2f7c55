----------------------- MODULE ProjectCommandsProofs -----------------------
(***************************************************************************)
(* The command runtimes of the Project aggregate for every set of          *)
(* projects, plans, commands and concurrent sessions.                      *)
(*                                                                         *)
(* The argument: a transaction's inserted numbers are the next ones of     *)
(* their histories, so the unique (aggregate, sequence) of the event table *)
(* lets one transaction per project past its insertion, and the revision   *)
(* it finds is still there when it writes (the primary key does the same   *)
(* for a new project); and the revision identifies the row it decided on.  *)
(* A continuation holds numbers of two histories at once.  Each commit is  *)
(* then one atomic command of the aggregate, every other statement a       *)
(* stutter, and what the aggregate keeps true is true of the tables.       *)
(***************************************************************************)
EXTENDS ProjectCommands, TLAPS

----------------------------------------------------------------------------
(* The aggregate.                                                          *)

AggregateTypeOK ==
    /\ project \in [Projects -> Project]
    /\ certified \subseteq (Projects \X Plans)

AggregateInv ==
    /\ AggregateTypeOK
    /\ CompletionIsProven
    /\ LineageIsCompleted

\* What the method of each command returns, one equation per command.
LEMMA AfterEach ==
  ASSUME NEW r, NEW plan, NEW source
  PROVE  /\ After(r, "create", plan, source) = Created(r)
         /\ After(r, "continue", plan, source) = Continued(r, source)
         /\ After(r, "launch", plan, source) = Launched(r)
         /\ After(r, "activate", plan, source) = Activated(r, plan)
         /\ After(r, "request_completion", plan, source) = CompletionRequested(r)
         /\ After(r, "complete", plan, source) = Completed(r)
         /\ After(r, "cancel", plan, source) = Cancelled(r)
         /\ After(r, "archive", plan, source) = Archived(r)
  BY DEF After

\* The statuses from which each command is accepted, one line per command.
LEMMA AcceptsEach ==
         /\ Accepts("create") = {"absent"} /\ Accepts("continue") = {"absent"}
         /\ Accepts("launch") = {"created"}
         /\ Accepts("activate") = {"launch_requested", "active"}
         /\ Accepts("request_completion") = {"active"}
         /\ Accepts("complete") = {"completion_pending"}
         /\ Accepts("cancel") = {"active", "completion_pending"}
         /\ Accepts("archive") = {"completed", "cancelled"}
  BY DEF Accepts

\* The row a command is decided on and the row it computes, field by field:
\* later proofs use this and never the methods themselves.
Outcome(r, q, op, plan, source) ==
    /\ q \in Project
    /\ q.status # "absent"
    /\ r.status = "absent" <=> op \in {"create", "continue"}
    /\ q.status = "created" <=> op \in {"create", "continue"}
    /\ q.revision = IF r.status = "absent" THEN r.revision
                                           ELSE r.revision + 1
    /\ q.source = IF op = "continue" THEN source ELSE r.source
    /\ q.plan = IF op = "activate" THEN plan ELSE r.plan
    /\ q.record = IF op = "complete"
                  THEN [plan |-> r.plan, revision |-> r.revision]
                  ELSE r.record
    /\ q.from = IF op = "archive" THEN r.status ELSE r.from
    /\ q.status = "completed" <=> op = "complete"
    /\ q.status = "archived" <=> op = "archive"
    /\ op = "complete" => r.status = "completion_pending"
    /\ op = "activate" => r.status \in {"launch_requested", "active"}
    /\ op = "archive" => r.status \in {"completed", "cancelled"}
    /\ r.status \in {"completed", "cancelled"} => op = "archive"
    /\ r.status # "archived"

\* The methods of the aggregate, on the row they accept, have that outcome.
LEMMA CommandResult ==
  ASSUME AggregateTypeOK, NEW p \in Projects, NEW op \in Operation,
         NEW plan \in Plans, NEW source \in Projects,
         Allowed(p, op, plan, source)
  PROVE  Outcome(project[p], After(project[p], op, plan, source), op, plan, source)
<1> DEFINE r == project[p]
<1> DEFINE q == After(r, op, plan, source)
<1>0. r \in Project /\ r.status \in Accepts(op) /\ r.revision + 1 \in Nat
  BY DEF AggregateTypeOK, Allowed, Project
<1>1. CASE op = "create"
  <2>1. q = Created(r)
    BY <1>1, AfterEach
  <2>2. r.status = "absent"
    BY <1>0, <1>1, AcceptsEach
  <2> QED
    BY <1>0, <1>1, <2>1, <2>2 DEF Created, Outcome, Project, ProjectStatus
<1>2. CASE op = "continue"
  <2>1. q = Continued(r, source)
    BY <1>2, AfterEach
  <2>2. r.status = "absent"
    BY <1>0, <1>2, AcceptsEach
  <2> QED
    BY <1>0, <1>2, <2>1, <2>2 DEF Continued, Outcome, Project, ProjectStatus
<1>3. CASE op = "launch"
  <2>1. q = Launched(r)
    BY <1>3, AfterEach
  <2>2. r.status = "created"
    BY <1>0, <1>3, AcceptsEach
  <2> QED
    BY <1>0, <1>3, <2>1, <2>2 DEF Launched, Outcome, Project, ProjectStatus
<1>4. CASE op = "activate"
  <2>1. q = Activated(r, plan)
    BY <1>4, AfterEach
  <2>2. r.status \in {"launch_requested", "active"}
    BY <1>0, <1>4, AcceptsEach
  <2> QED
    BY <1>0, <1>4, <2>1, <2>2 DEF Activated, Outcome, Project, ProjectStatus
<1>5. CASE op = "request_completion"
  <2>1. q = CompletionRequested(r)
    BY <1>5, AfterEach
  <2>2. r.status = "active"
    BY <1>0, <1>5, AcceptsEach
  <2> QED
    BY <1>0, <1>5, <2>1, <2>2 DEF CompletionRequested, Outcome, Project, ProjectStatus
<1>6. CASE op = "complete"
  <2>1. q = Completed(r)
    BY <1>6, AfterEach
  <2>2. r.status = "completion_pending"
    BY <1>0, <1>6, AcceptsEach
  <2>3. [plan |-> r.plan, revision |-> r.revision] \in CompletionRecord
    BY <1>0, <1>6 DEF Allowed, CompletionRecord, Project
  <2> QED
    BY <1>0, <1>6, <2>1, <2>2, <2>3 DEF Completed, Outcome, Project, ProjectStatus
<1>7. CASE op = "cancel"
  <2>1. q = Cancelled(r)
    BY <1>7, AfterEach
  <2>2. r.status \in {"active", "completion_pending"}
    BY <1>0, <1>7, AcceptsEach
  <2> QED
    BY <1>0, <1>7, <2>1, <2>2 DEF Cancelled, Outcome, Project, ProjectStatus
<1>8. CASE op = "archive"
  <2>1. q = Archived(r)
    BY <1>8, AfterEach
  <2>2. r.status \in {"completed", "cancelled"}
    BY <1>0, <1>8, AcceptsEach
  <2> QED
    BY <1>0, <1>8, <2>1, <2>2 DEF Archived, Outcome, Project, ProjectStatus
<1> HIDE DEF q
<1> QED
  BY <1>1, <1>2, <1>3, <1>4, <1>5, <1>6, <1>7, <1>8 DEF Operation

\* A command keeps the aggregate well-formed and changes one project.
LEMMA CommandTypes ==
  ASSUME AggregateTypeOK, NEW p \in Projects, NEW op \in Operation,
         NEW plan \in Plans, NEW source \in Projects,
         Command(p, op, plan, source)
  PROVE  /\ AggregateTypeOK'
         /\ Allowed(p, op, plan, source) /\ certified' = certified
         /\ Outcome(project[p], project'[p], op, plan, source)
         /\ \A x \in Projects : x # p => project'[x] = project[x]
<1>1. /\ Allowed(p, op, plan, source) /\ certified' = certified
      /\ project' = [project EXCEPT ![p] = After(project[p], op, plan, source)]
  BY DEF Command
<1>2. Outcome(project[p], After(project[p], op, plan, source), op, plan, source)
  BY <1>1, CommandResult
<1>3. After(project[p], op, plan, source) \in Project
  BY <1>2 DEF Outcome
<1>4. project'[p] = After(project[p], op, plan, source)
  BY <1>1 DEF AggregateTypeOK
<1>5. Outcome(project[p], project'[p], op, plan, source)
  BY <1>2, <1>4
<1> QED
  BY <1>1, <1>3, <1>5 DEF AggregateTypeOK

\* A completed project can only be archived, and keeps what made it complete:
\* once a project can be continued from, it always can.
LEMMA ContinuableStays ==
  ASSUME AggregateTypeOK, NEW p \in Projects, NEW op \in Operation,
         NEW plan \in Plans, NEW source \in Projects,
         Command(p, op, plan, source)
  PROVE  \A x \in Projects : Continuable(x) => Continuable(x)'
<1> DEFINE r == project[p]
<1> DEFINE q == project'[p]
<1>1. \A x \in Projects : x # p => project'[x] = project[x]
  BY CommandTypes
<1>2. /\ r.status # "archived"
      /\ r.status \in {"completed", "cancelled"} => op = "archive"
      /\ q.status = "archived" <=> op = "archive"
      /\ q.from = IF op = "archive" THEN r.status ELSE r.from
  BY CommandTypes DEF Outcome
<1>3. ASSUME NEW x \in Projects, Continuable(x) PROVE Continuable(x)'
  <2>1. CASE x # p
    BY <1>1, <1>3, <2>1 DEF Continuable
  <2>2. CASE x = p
    BY <1>2, <1>3, <2>2 DEF Continuable
  <2> QED
    BY <2>1, <2>2
<1> QED
  BY <1>3

\* A command claims completion only with the evidence of the active plan.
LEMMA CommandProven ==
  ASSUME AggregateTypeOK, CompletionIsProven, NEW p \in Projects,
         NEW op \in Operation, NEW plan \in Plans, NEW source \in Projects,
         Command(p, op, plan, source)
  PROVE  CompletionIsProven'
<1> DEFINE r == project[p]
<1> DEFINE q == project'[p]
<1> DEFINE Final(z) == IF z.status = "archived" THEN z.from ELSE z.status
<1> DEFINE ProvenRow(x, z, certs) ==
      /\ z.record # None <=> Final(z) = "completed"
      /\ z.record # None => /\ z.record.plan = z.plan
                            /\ <<x, z.plan>> \in certs
                            /\ z.record.revision < z.revision
      /\ z.status = "archived" => z.from \in {"completed", "cancelled"}
<1>1. /\ Allowed(p, op, plan, source) /\ certified' = certified
      /\ \A x \in Projects : x # p => project'[x] = project[x]
  BY CommandTypes
<1>2. \A x \in Projects : ProvenRow(x, project[x], certified)
  BY DEF CompletionIsProven
<1>3. r \in Project /\ r.revision \in Nat
  BY DEF AggregateTypeOK, Project
<1>4. /\ q \in Project
      /\ r.status # "archived"
      /\ r.status = "absent" <=> op \in {"create", "continue"}
      /\ r.status \in {"completed", "cancelled"} => op = "archive"
      /\ q.status = "completed" <=> op = "complete"
      /\ q.status = "archived" <=> op = "archive"
      /\ op = "archive" => r.status \in {"completed", "cancelled"}
      /\ q.from = IF op = "archive" THEN r.status ELSE r.from
      /\ q.plan = IF op = "activate" THEN plan ELSE r.plan
      /\ q.record = IF op = "complete"
                    THEN [plan |-> r.plan, revision |-> r.revision] ELSE r.record
      /\ q.revision = IF r.status = "absent" THEN r.revision ELSE r.revision + 1
  BY CommandTypes DEF Outcome
<1>5. ProvenRow(p, r, certified)
  BY <1>2
<1>6. ProvenRow(p, q, certified)
  <2>1. CASE op = "complete"
    <3>1. plan = r.plan /\ <<p, plan>> \in certified
      BY <1>1, <2>1 DEF Allowed
    <3>2. q.record = [plan |-> r.plan, revision |-> r.revision]
      BY <1>4, <2>1
    <3>3. q.record \in CompletionRecord
      BY <1>3, <3>1, <3>2 DEF CompletionRecord
    <3>4. q.record # None
      BY <3>3, RecordAssumption
    <3>5. q.record.plan = q.plan /\ q.record.revision < q.revision
      BY <1>3, <1>4, <2>1, <3>2
    <3> QED
      BY <1>4, <2>1, <3>1, <3>4, <3>5
  <2>2. CASE op = "archive"
    <3>1. /\ q.record = r.record /\ q.plan = r.plan /\ q.from = r.status
          /\ q.revision = r.revision + 1 /\ q.status = "archived"
      BY <1>4, <2>2
    <3>2. r.record # None => r.record \in CompletionRecord
      BY <1>3 DEF Project
    <3>3. r.record # None => r.record.revision \in Nat
      BY <3>2 DEF CompletionRecord
    <3> QED
      BY <1>3, <1>4, <1>5, <2>2, <3>1, <3>3
  <2>3. CASE op \notin {"complete", "archive"}
    <3>1. q.record = r.record /\ q.status \notin {"completed", "archived"}
      BY <1>4, <2>3
    <3>2. r.record = None
      BY <1>4, <1>5, <2>3
    <3> QED
      BY <3>1, <3>2
  <2> QED
    BY <2>1, <2>2, <2>3
<1>7. ASSUME NEW x \in Projects PROVE ProvenRow(x, project'[x], certified')
  <2>1. CASE x = p
    BY <1>1, <1>6, <2>1
  <2>2. CASE x # p
    <3>1. project'[x] = project[x] /\ ProvenRow(x, project[x], certified)
      BY <1>1, <1>2, <2>2
    <3> QED
      BY <1>1, <3>1
  <2> QED
    BY <2>1, <2>2
<1> QED
  BY <1>7 DEF CompletionIsProven

\* A continuation records a completed source, and a completed project that is
\* a source can only be archived.
LEMMA CommandLineage ==
  ASSUME AggregateInv, NEW p \in Projects, NEW op \in Operation,
         NEW plan \in Plans, NEW source \in Projects,
         Command(p, op, plan, source)
  PROVE  LineageIsCompleted'
<1> DEFINE r == project[p]
<1> DEFINE q == project'[p]
<1> DEFINE Source(z) == z.record # None /\ z.status \in {"completed", "archived"}
<1>1. /\ Allowed(p, op, plan, source)
      /\ \A x \in Projects : x # p => project'[x] = project[x]
  BY CommandTypes DEF AggregateInv
<1>2. /\ r.status # "archived"
      /\ r.status = "absent" <=> op \in {"create", "continue"}
      /\ r.status \in {"completed", "cancelled"} => op = "archive"
      /\ q.status = "archived" <=> op = "archive"
      /\ q.source = IF op = "continue" THEN source ELSE r.source
      /\ q.record = IF op = "complete"
                    THEN [plan |-> r.plan, revision |-> r.revision] ELSE r.record
  BY CommandTypes DEF AggregateInv, Outcome
<1>3. ASSUME NEW x \in Projects, Source(project[x]) PROVE Source(project'[x])
  <2>1. CASE x # p
    BY <1>1, <1>3, <2>1
  <2>2. CASE x = p
    BY <1>2, <1>3, <2>2
  <2> QED
    BY <2>1, <2>2
<1>4. ASSUME op = "continue" PROVE Source(project[source])
  <2>1. Continuable(source)
    BY <1>1, <1>4 DEF Allowed
  <2> QED
    BY <2>1 DEF Continuable, AggregateInv, CompletionIsProven
<1>5. ASSUME NEW x \in Projects, project[x].source # None
      PROVE  project[x].source \in Projects /\ Source(project[project[x].source])
  BY <1>5 DEF AggregateInv, AggregateTypeOK, Project, LineageIsCompleted
<1>6. ASSUME NEW x \in Projects, project'[x].source # None
      PROVE  Source(project'[project'[x].source])
  <2>1. CASE x = p /\ op = "continue"
    <3>1. Source(project'[source])
      BY <1>3, <1>4, <2>1
    <3>2. project'[x].source = source
      BY <1>2, <2>1
    <3> QED
      BY <3>1, <3>2
  <2>2. CASE ~(x = p /\ op = "continue")
    <3>1. project'[x].source = project[x].source
      BY <1>1, <1>2, <2>2
    <3>2. PICK y \in Projects : y = project[x].source /\ Source(project[y])
      BY <1>5, <1>6, <3>1
    <3>3. Source(project'[y])
      BY <1>3, <3>2
    <3> QED
      BY <3>1, <3>2, <3>3
  <2> QED
    BY <2>1, <2>2
<1> QED
  BY <1>6 DEF LineageIsCompleted

\* Every step of the aggregate keeps completion proven and lineage completed.
LEMMA AggregateStep ==
  AggregateInv /\ [AggregateNext]_<<project, certified>> => AggregateInv'
<1> SUFFICES ASSUME AggregateInv, [AggregateNext]_<<project, certified>>
             PROVE  AggregateInv'
  OBVIOUS
<1>1. ASSUME NEW p \in Projects, NEW op \in Operation, NEW plan \in Plans,
             NEW source \in Projects, Command(p, op, plan, source)
      PROVE  AggregateInv'
  BY <1>1, CommandTypes, CommandProven, CommandLineage DEF AggregateInv
<1>2. ASSUME NEW p \in Projects, NEW plan \in Plans, Certify(p, plan)
      PROVE  AggregateInv'
  <2>1. project' = project /\ certified' = certified \cup {<<p, plan>>}
    BY <1>2 DEF Certify
  <2> QED
    BY <2>1 DEF AggregateInv, AggregateTypeOK, CompletionIsProven,
                LineageIsCompleted
<1>3. CASE UNCHANGED <<project, certified>>
  BY <1>3 DEF AggregateInv, AggregateTypeOK, CompletionIsProven,
              LineageIsCompleted
<1> QED
  BY <1>1, <1>2, <1>3 DEF AggregateNext

\* No project exists at first.
LEMMA AggregateStart == AggregateInit => AggregateInv
<1> SUFFICES ASSUME AggregateInit PROVE AggregateInv
  OBVIOUS
<1>1. AbsentProject \in Project
  BY DEF AbsentProject, Project
<1>2. /\ AbsentProject.status = "absent" /\ AbsentProject.record = None
      /\ AbsentProject.source = None
  BY DEF AbsentProject
<1>3. \A p \in Projects : project[p] = AbsentProject
  BY DEF AggregateInit
<1>4. AggregateTypeOK
  BY <1>1 DEF AggregateInit, AggregateTypeOK
<1>5. CompletionIsProven /\ LineageIsCompleted
  BY <1>2, <1>3 DEF CompletionIsProven, LineageIsCompleted
<1> QED
  BY <1>4, <1>5 DEF AggregateInv

\* What the aggregate promises with its commands taken one at a time.
THEOREM AggregateSafety == AggregateSpec => []AggregateInv
  BY AggregateStart, AggregateStep, PTL DEF AggregateSpec

----------------------------------------------------------------------------
(* The transactions.                                                       *)

\* A project that does not exist has the revision it is created with.
AbsentIsNew == \A p \in Projects : project[p].status = "absent" => project[p].revision = 0

\* The row is still the one the transaction decided on.
Current(t) ==
    /\ project[t.project].revision = t.expected
    /\ project[t.project].status = "absent" <=> t.after.status = "created"

\* The transaction computed its result from the row that is there.
Decided(t) ==
    \E op \in Operation, plan \in Plans, source \in Projects :
        /\ Allowed(t.project, op, plan, source)
        /\ project[t.project].revision < MaxRevision
        /\ t.after = After(project[t.project], op, plan, source)

\* The revision a transaction expects identifies the row it decided on.
DecisionOK(t) ==
    /\ t.expected <= project[t.project].revision
    /\ project[t.project].status = "absent" => t.after.status = "created"
    /\ Current(t) => Decided(t)

DecisionsOK ==
    \A s \in Sessions : tx[s] # NoTx /\ ~tx[s].denied => DecisionOK(tx[s])

\* The transaction has inserted a new project.
Creates(t) == t.after.status = "created" /\ t.pc # "adding"

\* A number computed earlier is at most the next one of its history, and an
\* inserted one is the next one.
NumbersOK(t) ==
    /\ t.pc = "inserting" => t.sequence <= Len(events[Stream(t)]) + 1
    /\ \A q \in Projects : t.held[q] # 0 => t.held[q] = Len(events[q]) + 1

\* How far the transaction has come tells what it holds and what it found.
ProgressOK(t) ==
    /\ t.pc \in {"checking", "writing"} => t.held[t.audit] # 0 /\ t.held[t.project] # 0
    /\ t.pc = "checking" \/ t.denied => t.after.status # "created"
    /\ Creates(t) => project[t.project].status = "absent"
    /\ t.pc = "writing" => ~t.denied /\ Current(t)

TxOK(t) == NumbersOK(t) /\ ProgressOK(t)

\* Two transactions hold no number of the same history, and no project.
Exclusive(t, u) ==
    /\ \A q \in Projects : t.held[q] = 0 \/ u.held[q] = 0
    /\ Creates(t) /\ Creates(u) => t.project # u.project

TxsOK == \A s \in Sessions : tx[s] # NoTx => TxOK(tx[s])

TxsExclude ==
    \A s, z \in Sessions : s # z /\ tx[s] # NoTx /\ tx[z] # NoTx =>
        Exclusive(tx[s], tx[z])

TxInv ==
    /\ TypeOK
    /\ AbsentIsNew
    /\ DecisionsOK
    /\ TxsOK
    /\ TxsExclude

\* The part of a transaction that no statement of it changes.
SameCommand(t, u) ==
    /\ u \in Tx
    /\ u.command = t.command /\ u.project = t.project /\ u.denied = t.denied
    /\ u.expected = t.expected /\ u.after = t.after /\ u.audit = t.audit

\* A transaction is a record of its fields.
LEMMA TxFields ==
  ASSUME NEW t \in Tx
  PROVE  /\ t.project \in Projects /\ t.audit \in Projects /\ t.command \in CommandIds
         /\ t.after \in Project /\ t.expected \in Nat /\ t.sequence \in Nat
         /\ t.denied \in BOOLEAN /\ t.held \in [Projects -> Nat]
         /\ Stream(t) \in Projects
         /\ t.pc \in {"adding", "reading", "inserting", "checking", "writing"}
  BY DEF Tx, Stream

\* The transaction at its next statement.
NextTx(t, pc, n, h) == [t EXCEPT !.pc = pc, !.sequence = n, !.held = h]

\* Moving on to the next statement keeps the command.
LEMMA Advance ==
  ASSUME NEW t \in Tx, NEW pc \in {"reading", "inserting", "checking", "writing"},
         NEW n \in Nat, NEW h \in [Projects -> Nat]
  PROVE  SameCommand(t, NextTx(t, pc, n, h)) /\ NextTx(t, pc, n, h) \in Tx
  BY DEF SameCommand, Tx, NextTx

\* It has the number the statement computed and holds what it inserted.
LEMMA AdvanceHeld ==
  ASSUME NEW t \in Tx, NEW pc, NEW n, NEW h
  PROVE  /\ NextTx(t, pc, n, h).held = h /\ NextTx(t, pc, n, h).pc = pc
         /\ NextTx(t, pc, n, h).sequence = n
  BY DEF Tx, NextTx

\* A read that goes on decided on the row it found; a denial on nothing.
LEMMA StartStep ==
  ASSUME TypeOK, NEW s \in Sessions, Start(s)
  PROVE  /\ project' = project /\ certified' = certified
         /\ events' = events /\ receipts' = receipts
         /\ \E t \in Tx : /\ tx' = [tx EXCEPT ![s] = t]
                          /\ t.pc \in {"adding", "reading"}
                          /\ t.after.status = "created" => t.pc = "adding"
                          /\ \A q \in Projects : t.held[q] = 0
                          /\ ~t.denied => DecisionOK(t)
                          /\ t.denied => t.after.status # "created"
<1> DEFINE H == [q \in Projects |-> 0]
<1>0. AggregateTypeOK
  BY DEF TypeOK, AggregateTypeOK
<1>1. PICK c \in CommandIds, p \in Projects :
        \/ \E op \in Operation, plan \in Plans, source \in Projects :
             Read(s, c, p, op, plan, source)
        \/ Deny(s, c, p)
  BY DEF Start
<1>2. project[p] \in Project /\ project[p].revision \in Nat
  BY DEF TypeOK, Project
<1>H. H \in [Projects -> Nat] /\ \A q \in Projects : H[q] = 0
  OBVIOUS
<1> HIDE DEF H
<1>3. ASSUME NEW op \in Operation, NEW plan \in Plans, NEW source \in Projects,
             Read(s, c, p, op, plan, source)
      PROVE  \E t \in Tx : /\ tx' = [tx EXCEPT ![s] = t]
                           /\ t.pc \in {"adding", "reading"}
                           /\ t.after.status = "created" => t.pc = "adding"
                           /\ \A q \in Projects : t.held[q] = 0
                           /\ ~t.denied => DecisionOK(t)
                           /\ t.denied => t.after.status # "created"
  <2> DEFINE a == After(project[p], op, plan, source)
  <2>1. /\ Allowed(p, op, plan, source) /\ project[p].revision < MaxRevision
        /\ Begin(s, c, p, source, FALSE, a)
    BY <1>3 DEF Read
  <2>2. Outcome(project[p], a, op, plan, source)
    BY <1>0, <2>1, CommandResult
  <2>3. a \in Project /\ (project[p].status = "absent" => a.status = "created")
    BY <2>2 DEF Outcome
  <2>A. PICK pc \in {"adding", "reading"} :
          pc = IF AddsRow(a) THEN "adding" ELSE "reading"
    OBVIOUS
  <2> DEFINE t == [pc |-> pc, command |-> c, project |-> p, audit |-> source,
                   denied |-> FALSE, expected |-> project[p].revision,
                   after |-> a, sequence |-> 0, held |-> H]
  <2>B. tx' = [tx EXCEPT ![s] = t]
    BY <2>1, <2>A DEF Begin, H
  <2>C. a.status = "created" => pc = "adding"
    BY <2>A DEF AddsRow
  <2>4. t \in Tx
    BY <1>2, <1>H, <2>3 DEF Tx
  <2> HIDE DEF a
  <2>5. /\ t.project = p /\ t.expected = project[p].revision /\ t.after = a
        /\ t.pc = pc /\ t.held = H /\ ~t.denied
    OBVIOUS
  <2>6. Decided(t)
    BY <2>1, <2>5 DEF Decided, a
  <2>7. DecisionOK(t)
    BY <1>2, <2>3, <2>5, <2>6 DEF DecisionOK
  <2> HIDE DEF t
  <2> QED
    BY <1>H, <2>4, <2>5, <2>7, <2>B, <2>C
<1>4. ASSUME Deny(s, c, p)
      PROVE  \E t \in Tx : /\ tx' = [tx EXCEPT ![s] = t]
                           /\ t.pc \in {"adding", "reading"}
                           /\ t.after.status = "created" => t.pc = "adding"
                           /\ \A q \in Projects : t.held[q] = 0
                           /\ ~t.denied => DecisionOK(t)
                           /\ t.denied => t.after.status # "created"
  <2> DEFINE t == [pc |-> "reading", command |-> c, project |-> p, audit |-> p,
                   denied |-> TRUE, expected |-> project[p].revision,
                   after |-> AbsentProject, sequence |-> 0, held |-> H]
  <2>0. AbsentProject.status = "absent" /\ ~AddsRow(AbsentProject)
    BY DEF AbsentProject, AddsRow
  <2>1. tx' = [tx EXCEPT ![s] = t]
    BY <1>4, <2>0 DEF Deny, Begin, H
  <2>2. AbsentProject \in Project
    BY DEF AbsentProject, Project
  <2>3. t \in Tx
    BY <1>2, <1>H, <2>2 DEF Tx
  <2>4. t.pc = "reading" /\ t.denied /\ t.held = H /\ t.after = AbsentProject
    OBVIOUS
  <2> HIDE DEF t
  <2> QED
    BY <1>H, <2>0, <2>1, <2>3, <2>4
<1>5. /\ project' = project /\ certified' = certified
      /\ events' = events /\ receipts' = receipts
  BY <1>1 DEF Read, Deny, Begin
<1> QED
  BY <1>1, <1>3, <1>4, <1>5

\* The statement by which a transaction moves on, as a relation between what
\* it was and what it is next.
Moves(s, t, u) ==
    \/ /\ t.pc = "adding" /\ u.pc = "reading" /\ u.held = t.held
       /\ ~KeyHeld(s) /\ KeyFree(t)
    \/ /\ t.pc = "reading" /\ u.pc = "inserting" /\ u.held = t.held
       /\ u.sequence = Len(events[Stream(t)]) + 1
    \/ /\ t.pc = "inserting" /\ ~Contended(s)
       /\ t.sequence > Len(events[Stream(t)])
       /\ u.held = [t.held EXCEPT ![Stream(t)] = t.sequence]
       /\ u.pc = IF Stream(t) # t.project THEN "reading"
                 ELSE IF t.after.status = "created" THEN "writing"
                 ELSE "checking"
    \/ /\ t.pc = "checking" /\ u.pc = "writing" /\ u.held = t.held
       /\ ~t.denied /\ RevisionFound(t)

Statement(s) ==
    \/ AddRow(s) \/ NextSequence(s) \/ InsertEvents(s) \/ CheckRevision(s)
    \/ RowExists(s) \/ SequenceTaken(s) \/ RevisionConflict(s)
    \/ ReceiptTaken(s) \/ Crash(s)

\* Every statement between the read and the commit changes one transaction
\* and no table: it moves on with the same command or gives up.
LEMMA StatementStep ==
  ASSUME TypeOK, NEW s \in Sessions, Statement(s)
  PROVE  /\ project' = project /\ certified' = certified
         /\ events' = events /\ receipts' = receipts
         /\ \/ tx' = [tx EXCEPT ![s] = NoTx]
            \/ \E u \in Tx : /\ tx' = [tx EXCEPT ![s] = u]
                             /\ tx[s] # NoTx /\ SameCommand(tx[s], u)
                             /\ Moves(s, tx[s], u)
<1>T. PICK t : t = tx[s]
  OBVIOUS
<1>0. /\ project' = project /\ certified' = certified
      /\ events' = events /\ receipts' = receipts
  BY DEF Statement, AddRow, NextSequence, InsertEvents, CheckRevision, RowExists,
         SequenceTaken, RevisionConflict, ReceiptTaken, Crash, Rollback
<1>1. CASE \/ RowExists(s) \/ SequenceTaken(s) \/ RevisionConflict(s)
           \/ ReceiptTaken(s) \/ Crash(s)
  BY <1>0, <1>1 DEF RowExists, SequenceTaken, RevisionConflict, ReceiptTaken,
     Crash, Rollback
<1>2. ASSUME t # NoTx
      PROVE  /\ t \in Tx /\ t.sequence \in Nat /\ t.held \in [Projects -> Nat]
             /\ Stream(t) \in Projects
             /\ Len(events[Stream(t)]) + 1 \in Nat
  <2>1. t \in Tx
    BY <1>2, <1>T DEF TypeOK
  <2>2. Stream(t) \in Projects /\ t.sequence \in Nat /\ t.held \in [Projects -> Nat]
    BY <2>1, TxFields
  <2>3. events[Stream(t)] \in Seq(Event)
    BY <2>2 DEF TypeOK
  <2> QED
    BY <2>1, <2>2, <2>3
<1>4. CASE AddRow(s)
  <2>1. /\ t # NoTx /\ t.pc = "adding" /\ ~KeyHeld(s) /\ KeyFree(t)
        /\ tx' = [tx EXCEPT ![s] = [t EXCEPT !.pc = "reading"]]
    BY <1>4, <1>T DEF AddRow, Is, TypeOK
  <2>2. PICK n \in Nat, h \in [Projects -> Nat] : n = t.sequence /\ h = t.held
    BY <1>2, <2>1
  <2>3. [t EXCEPT !.pc = "reading"] =
          [t EXCEPT !.pc = "reading", !.sequence = n, !.held = h]
    BY <1>2, <2>1, <2>2 DEF Tx
  <2>4. PICK pc \in {"reading", "inserting", "checking", "writing"} : pc = "reading"
    OBVIOUS
  <2>5. PICK u : u = NextTx(t, pc, n, h)
    OBVIOUS
  <2>6. tx' = [tx EXCEPT ![s] = u]
    BY <2>1, <2>3, <2>4, <2>5 DEF NextTx
  <2>7. /\ u \in Tx /\ SameCommand(t, u)
        /\ u.pc = pc /\ u.sequence = n /\ u.held = h
    <3>1. t \in Tx
      BY <1>2, <2>1
    <3>2. u.held = h /\ u.pc = pc /\ u.sequence = n
      BY <2>5, <3>1, AdvanceHeld
    <3>3. u \in Tx /\ SameCommand(t, u)
      BY <2>5, <3>1, Advance
    <3> QED
      BY <3>2, <3>3
  <2>8. Moves(s, t, u)
    BY <2>1, <2>2, <2>4, <2>7 DEF Moves
  <2> QED
    BY <1>0, <1>T, <2>1, <2>6, <2>7, <2>8
<1>5. CASE NextSequence(s)
  <2>1. /\ t # NoTx /\ t.pc = "reading"
        /\ tx' = [tx EXCEPT ![s] = [t EXCEPT !.pc = "inserting",
                                      !.sequence = Len(events[Stream(t)]) + 1]]
    BY <1>5, <1>T DEF NextSequence, Is, TypeOK
  <2>2. PICK n \in Nat, h \in [Projects -> Nat] :
          n = Len(events[Stream(t)]) + 1 /\ h = t.held
    BY <1>2, <2>1
  <2>3. [t EXCEPT !.pc = "inserting", !.sequence = n] =
          [t EXCEPT !.pc = "inserting", !.sequence = n, !.held = h]
    BY <1>2, <2>1, <2>2 DEF Tx
  <2>4. PICK pc \in {"reading", "inserting", "checking", "writing"} : pc = "inserting"
    OBVIOUS
  <2>5. PICK u : u = NextTx(t, pc, n, h)
    OBVIOUS
  <2>6. tx' = [tx EXCEPT ![s] = u]
    BY <2>1, <2>2, <2>3, <2>4, <2>5 DEF NextTx
  <2>7. /\ u \in Tx /\ SameCommand(t, u)
        /\ u.pc = pc /\ u.sequence = n /\ u.held = h
    <3>1. t \in Tx
      BY <1>2, <2>1
    <3>2. u.held = h /\ u.pc = pc /\ u.sequence = n
      BY <2>5, <3>1, AdvanceHeld
    <3>3. u \in Tx /\ SameCommand(t, u)
      BY <2>5, <3>1, Advance
    <3> QED
      BY <3>2, <3>3
  <2>8. Moves(s, t, u)
    BY <2>1, <2>2, <2>4, <2>7 DEF Moves
  <2> QED
    BY <1>0, <1>T, <2>1, <2>6, <2>7, <2>8
<1>6. CASE InsertEvents(s)
  <2>1. /\ t # NoTx /\ t.pc = "inserting" /\ ~Contended(s)
        /\ t.sequence > Len(events[Stream(t)])
        /\ tx' = [tx EXCEPT ![s] = Inserted(t)]
    BY <1>6, <1>T DEF InsertEvents, Is, TypeOK
  <2>2. PICK pc \in {"reading", "inserting", "checking", "writing"} :
          pc = IF Stream(t) # t.project THEN "reading"
               ELSE IF t.after.status = "created" THEN "writing"
               ELSE "checking"
    OBVIOUS
  <2>3. PICK n \in Nat, h \in [Projects -> Nat] :
          n = t.sequence /\ h = [t.held EXCEPT ![Stream(t)] = t.sequence]
    BY <1>2, <2>1
  <2>4. Inserted(t) = [t EXCEPT !.held = h, !.pc = pc]
    BY <2>2, <2>3 DEF Inserted
  <2>5. [t EXCEPT !.held = h, !.pc = pc] =
          [t EXCEPT !.pc = pc, !.sequence = n, !.held = h]
    BY <1>2, <2>1, <2>3 DEF Tx
  <2>6. PICK u : u = NextTx(t, pc, n, h)
    OBVIOUS
  <2>7. tx' = [tx EXCEPT ![s] = u]
    BY <2>1, <2>4, <2>5, <2>6 DEF NextTx
  <2>8. /\ u \in Tx /\ SameCommand(t, u)
        /\ u.pc = pc /\ u.sequence = n /\ u.held = h
    <3>1. t \in Tx
      BY <1>2, <2>1
    <3>2. u.held = h /\ u.pc = pc /\ u.sequence = n
      BY <2>6, <3>1, AdvanceHeld
    <3>3. u \in Tx /\ SameCommand(t, u)
      BY <2>6, <3>1, Advance
    <3> QED
      BY <3>2, <3>3
  <2>9. Moves(s, t, u)
    BY <2>1, <2>2, <2>3, <2>8 DEF Moves
  <2> QED
    BY <1>0, <1>T, <2>1, <2>7, <2>8, <2>9
<1>7. CASE CheckRevision(s)
  <2>1. /\ t # NoTx /\ t.pc = "checking" /\ ~t.denied /\ RevisionFound(t)
        /\ tx' = [tx EXCEPT ![s] = [t EXCEPT !.pc = "writing"]]
    BY <1>7, <1>T DEF CheckRevision, Is, TypeOK
  <2>2. PICK n \in Nat, h \in [Projects -> Nat] : n = t.sequence /\ h = t.held
    BY <1>2, <2>1
  <2>3. [t EXCEPT !.pc = "writing"] =
          [t EXCEPT !.pc = "writing", !.sequence = n, !.held = h]
    BY <1>2, <2>1, <2>2 DEF Tx
  <2>4. PICK pc \in {"reading", "inserting", "checking", "writing"} : pc = "writing"
    OBVIOUS
  <2>5. PICK u : u = NextTx(t, pc, n, h)
    OBVIOUS
  <2>6. tx' = [tx EXCEPT ![s] = u]
    BY <2>1, <2>3, <2>4, <2>5 DEF NextTx
  <2>7. /\ u \in Tx /\ SameCommand(t, u)
        /\ u.pc = pc /\ u.sequence = n /\ u.held = h
    <3>1. t \in Tx
      BY <1>2, <2>1
    <3>2. u.held = h /\ u.pc = pc /\ u.sequence = n
      BY <2>5, <3>1, AdvanceHeld
    <3>3. u \in Tx /\ SameCommand(t, u)
      BY <2>5, <3>1, Advance
    <3> QED
      BY <3>2, <3>3
  <2>8. Moves(s, t, u)
    BY <2>1, <2>2, <2>4, <2>7 DEF Moves
  <2> QED
    BY <1>0, <1>T, <2>1, <2>6, <2>7, <2>8
<1> QED
  BY <1>0, <1>1, <1>4, <1>5, <1>6, <1>7 DEF Statement

\* A commit is one command of the aggregate, on the row its transaction found.
LEMMA CommitIsCommand ==
  ASSUME TxInv, NEW s \in Sessions, Commit(s)
  PROVE  /\ tx[s] \in Tx /\ tx[s].project \in Projects
         /\ Current(tx[s])
         /\ project[tx[s].project].revision = tx[s].expected
         /\ project'[tx[s].project] = tx[s].after
         /\ \E op \in Operation, plan \in Plans, source \in Projects :
              Command(tx[s].project, op, plan, source)
<1>1. tx[s] # NoTx /\ tx[s].pc = "writing"
  BY DEF Commit, Is
<1>2. tx[s] \in Tx /\ tx[s].project \in Projects
  BY <1>1 DEF TxInv, TypeOK, Tx
<1>3. ~tx[s].denied /\ Current(tx[s])
  BY <1>1 DEF TxInv, TxsOK, TxOK, ProgressOK
<1>4. Decided(tx[s])
  BY <1>1, <1>3 DEF TxInv, DecisionsOK, DecisionOK
<1>5. /\ project' = [project EXCEPT ![tx[s].project] = tx[s].after]
      /\ certified' = certified
  BY DEF Commit
<1>6. \E op \in Operation, plan \in Plans, source \in Projects :
        Command(tx[s].project, op, plan, source)
  BY <1>4, <1>5 DEF Decided, Command
<1>7. project'[tx[s].project] = tx[s].after
  BY <1>2, <1>5 DEF TxInv, TypeOK
<1> QED
  BY <1>2, <1>3, <1>6, <1>7 DEF Current

\* New evidence takes no decision back.
LEMMA DecisionKept ==
  ASSUME NEW t \in Tx, DecisionOK(t), project' = project,
         certified \subseteq certified'
  PROVE  DecisionOK(t)'
<1>1. ASSUME Decided(t) PROVE Decided(t)'
  BY <1>1 DEF Decided, Allowed, Continuable
<1>2. Current(t)' <=> Current(t)
  BY DEF Current
<1> QED
  BY <1>1, <1>2 DEF DecisionOK

\* What is true of a transaction's contents is true of the transaction.
LEMMA DecisionAt ==
  ASSUME NEW z \in Sessions, NEW t \in Tx, tx'[z] = t, DecisionOK(t)'
  PROVE  DecisionOK(tx[z])'
  BY DEF DecisionOK, Current, Decided, Allowed, Continuable

\* Transactions that stay as they are keep their decisions while no row changes.
LEMMA DecisionsKept ==
  ASSUME TxInv, project' = project, certified \subseteq certified',
         \A z \in Sessions : tx'[z] # NoTx => tx'[z] = tx[z]
  PROVE  DecisionsOK'
<1> SUFFICES ASSUME NEW z \in Sessions, tx'[z] # NoTx, ~tx'[z].denied
             PROVE  DecisionOK(tx[z])'
  BY DEF DecisionsOK
<1>1. PICK t \in Tx : t = tx[z] /\ tx'[z] = t
  BY DEF TxInv, TypeOK
<1>2. DecisionOK(tx[z])
  BY DEF TxInv, DecisionsOK
<1>3. DecisionOK(t)
  BY <1>1, <1>2
<1>4. DecisionOK(t)'
  BY <1>3, DecisionKept
<1> QED
  BY <1>1, <1>4, DecisionAt

\* After a command on the same project no earlier decision finds its revision;
\* a command on another one leaves the decision's row and its source alone.
LEMMA DecisionSurvives ==
  ASSUME AggregateTypeOK, NEW p \in Projects, NEW op \in Operation,
         NEW plan \in Plans, NEW source \in Projects,
         Command(p, op, plan, source), NEW t \in Tx, DecisionOK(t)
  PROVE  DecisionOK(t)'
<1> DEFINE r == project[p]
<1> DEFINE q == project'[p]
<1>1. /\ \A x \in Projects : x # p => project'[x] = project[x]
      /\ certified' = certified
  BY CommandTypes
<1>2. /\ q.status # "absent"
      /\ q.revision = IF r.status = "absent" THEN r.revision ELSE r.revision + 1
  BY CommandTypes DEF Outcome
<1>3. t.project \in Projects /\ t.expected \in Nat /\ r.revision \in Nat
  BY DEF Tx, AggregateTypeOK, Project
<1>4. CASE t.project = p
  <2>1. t.expected <= r.revision /\ (r.status = "absent" => t.after.status = "created")
    BY <1>4 DEF DecisionOK
  <2>2. t.expected <= q.revision
    BY <1>2, <1>3, <2>1
  <2>3. ~Current(t)'
    <3>1. CASE r.status = "absent"
      BY <1>2, <1>4, <2>1, <3>1 DEF Current
    <3>2. CASE r.status # "absent"
      BY <1>2, <1>3, <1>4, <2>1, <3>2 DEF Current
    <3> QED
      BY <3>1, <3>2
  <2> QED
    BY <1>2, <1>4, <2>2, <2>3 DEF DecisionOK
<1>5. CASE t.project # p
  <2>1. project'[t.project] = project[t.project]
    BY <1>1, <1>3, <1>5
  <2>2. \A x \in Projects : Continuable(x) => Continuable(x)'
    BY ContinuableStays
  <2>3. ASSUME Decided(t) PROVE Decided(t)'
    <3>1. PICK o \in Operation, l \in Plans, y \in Projects :
            /\ Allowed(t.project, o, l, y)
            /\ project[t.project].revision < MaxRevision
            /\ t.after = After(project[t.project], o, l, y)
      BY <2>3 DEF Decided
    <3>2. Allowed(t.project, o, l, y)'
      BY <1>1, <2>1, <2>2, <3>1 DEF Allowed
    <3> QED
      BY <2>1, <3>1, <3>2 DEF Decided
  <2>4. Current(t)' <=> Current(t)
    BY <2>1 DEF Current
  <2> QED
    BY <2>1, <2>3, <2>4 DEF DecisionOK
<1> QED
  BY <1>4, <1>5

\* What a commit and a recorded denial append to the histories: an audit event
\* to one that the transaction holds, and a domain event to its project's.
LEMMA HistoryGrows ==
  ASSUME TxInv, NEW s \in Sessions, Commit(s) \/ CommitDenial(s)
  PROVE  LET t == tx[s]
             a == Entry(tx[s], "authorization")
             d == Entry(tx[s], "domain")
         IN /\ t \in Tx /\ a \in Event /\ d \in Event
            /\ t.held[t.audit] # 0 /\ t.held[t.project] # 0
            /\ tx' = [tx EXCEPT ![s] = NoTx]
            /\ Audited(t) \in [Projects -> Seq(Event)]
            /\ \A x \in Projects :
                 Audited(t)[x] = IF x = t.audit THEN Append(events[x], a) ELSE events[x]
            /\ events' \in [Projects -> Seq(Event)]
            /\ \A x \in Projects :
                 events'[x] = IF Commit(s) /\ x = t.project
                              THEN Append(Audited(t)[x], d) ELSE Audited(t)[x]
<1> DEFINE t == tx[s]
<1> DEFINE a == Entry(t, "authorization")
<1> DEFINE d == Entry(t, "domain")
<1> DEFINE au == Audited(t)
<1>1. /\ t # NoTx /\ t.pc \in {"checking", "writing"}
      /\ tx' = [tx EXCEPT ![s] = NoTx]
  BY DEF Commit, CommitDenial, Is
<1>2. t \in Tx /\ t.audit \in Projects /\ t.project \in Projects
  BY <1>1 DEF TxInv, TypeOK, Tx
<1>3. t.held[t.audit] # 0 /\ t.held[t.project] # 0
  BY <1>1 DEF TxInv, TxsOK, TxOK, ProgressOK
<1>4. a \in Event /\ d \in Event
  BY <1>2 DEF Entry, Event, Tx
<1>5. events \in [Projects -> Seq(Event)]
  BY DEF TxInv, TypeOK
<1>6. au = [events EXCEPT ![t.audit] = Append(events[t.audit], a)]
  BY DEF Audited
<1> HIDE DEF a, d
<1>7. Append(events[t.audit], a) \in Seq(Event)
  BY <1>2, <1>4, <1>5
<1>8. /\ au \in [Projects -> Seq(Event)]
      /\ \A x \in Projects :
           au[x] = IF x = t.audit THEN Append(events[x], a) ELSE events[x]
  BY <1>2, <1>5, <1>6, <1>7
<1>9. Commit(s) => events' = [au EXCEPT ![t.project] = Append(au[t.project], d)]
  BY DEF Commit, Recorded, d
<1>10. ~Commit(s) => events' = au
  BY DEF CommitDenial
<1> HIDE DEF au
<1>11. Append(au[t.project], d) \in Seq(Event)
  BY <1>2, <1>4, <1>8
<1>12. /\ events' \in [Projects -> Seq(Event)]
       /\ \A x \in Projects :
            events'[x] = IF Commit(s) /\ x = t.project
                         THEN Append(au[x], d) ELSE au[x]
  <2>1. CASE Commit(s)
    BY <1>2, <1>8, <1>9, <1>11, <2>1
  <2>2. CASE ~Commit(s)
    BY <1>8, <1>10, <2>2
  <2> QED
    BY <2>1, <2>2
<1> QED
  BY <1>1, <1>2, <1>3, <1>4, <1>8, <1>12 DEF a, d, au

\* Only histories that the transaction holds change, and none gets shorter.
LEMMA HeldHistories ==
  ASSUME TxInv, NEW s \in Sessions, Commit(s) \/ CommitDenial(s)
  PROVE  \A x \in Projects :
           /\ tx[s].held[x] = 0 => events'[x] = events[x]
           /\ Len(events[x]) \in Nat /\ Len(events'[x]) \in Nat
           /\ Len(events[x]) <= Len(events'[x])
<1> DEFINE t == tx[s]
<1> DEFINE a == Entry(t, "authorization")
<1> DEFINE d == Entry(t, "domain")
<1>1. /\ a \in Event /\ d \in Event
      /\ t.held[t.audit] # 0 /\ t.held[t.project] # 0
      /\ Audited(t) \in [Projects -> Seq(Event)]
      /\ \A x \in Projects :
           Audited(t)[x] = IF x = t.audit THEN Append(events[x], a) ELSE events[x]
      /\ \A x \in Projects :
           events'[x] = IF Commit(s) /\ x = t.project
                        THEN Append(Audited(t)[x], d) ELSE Audited(t)[x]
  BY HistoryGrows
<1> HIDE DEF a, d
<1>2. ASSUME NEW x \in Projects
      PROVE  /\ t.held[x] = 0 => events'[x] = events[x]
             /\ Len(events[x]) \in Nat /\ Len(events'[x]) \in Nat
             /\ Len(events[x]) <= Len(events'[x])
  <2>1. events[x] \in Seq(Event)
    BY DEF TxInv, TypeOK
  <2>2. PICK es \in Seq(Event) : es = Audited(t)[x]
    BY <1>1
  <2>A. Len(Append(events[x], a)) = Len(events[x]) + 1 /\ Len(Append(es, d)) = Len(es) + 1
    BY <1>1, <2>1
  <2>3. Len(es) = Len(events[x]) \/ Len(es) = Len(events[x]) + 1
    BY <1>1, <2>2, <2>A
  <2>4. Len(events'[x]) = Len(es) \/ Len(events'[x]) = Len(es) + 1
    BY <1>1, <2>2, <2>A
  <2>5. Len(events[x]) \in Nat /\ Len(es) \in Nat
    BY <2>1
  <2>6. t.held[x] = 0 => x # t.audit /\ x # t.project
    BY <1>1
  <2>7. t.held[x] = 0 => events'[x] = events[x]
    BY <1>1, <2>6
  <2> QED
    BY <2>3, <2>4, <2>5, <2>7
<1> QED
  BY <1>2

\* A transaction whose histories another one has just extended by its own, and
\* whose row it may have replaced, is in order as before.
LEMMA OthersKeepNumbers ==
  ASSUME TxInv, NEW s \in Sessions, Commit(s) \/ CommitDenial(s),
         NEW z \in Sessions, z # s, NEW t \in Tx, t = tx[z], t # NoTx
  PROVE  NumbersOK(t)'
<1>1. NumbersOK(t)
  BY DEF TxInv, TxsOK, TxOK
<1>2. tx[s] # NoTx
  BY DEF Commit, CommitDenial, Is
<1>3. \A q \in Projects : tx[s].held[q] = 0 \/ t.held[q] = 0
  BY <1>2 DEF TxInv, TxsExclude, Exclusive
<1>4. \A x \in Projects :
        /\ tx[s].held[x] = 0 => events'[x] = events[x]
        /\ Len(events[x]) \in Nat /\ Len(events'[x]) \in Nat
        /\ Len(events[x]) <= Len(events'[x])
  BY HeldHistories
<1>5. \A q \in Projects : t.held[q] # 0 => t.held[q] = Len(events'[q]) + 1
  BY <1>1, <1>3, <1>4 DEF NumbersOK
<1>6. PICK q \in Projects : q = Stream(t)
  BY TxFields
<1>7. t.sequence \in Nat /\ (t.pc = "inserting" => t.sequence <= Len(events[q]) + 1)
  BY <1>1, <1>6, TxFields DEF NumbersOK
<1>8. t.pc = "inserting" => t.sequence <= Len(events'[q]) + 1
  BY <1>4, <1>7
<1>9. Stream(t)' = q
  BY <1>6 DEF Stream
<1> QED
  BY <1>5, <1>8, <1>9 DEF NumbersOK

\* What holds of the remaining transactions holds of all when one ends.
LEMMA EndTxInv ==
  ASSUME TxInv, NEW s \in Sessions, tx' = [tx EXCEPT ![s] = NoTx],
         TypeOK', AbsentIsNew',
         \A z \in Sessions : z # s /\ tx[z] # NoTx =>
           /\ TxOK(tx[z])'
           /\ ~tx[z].denied => DecisionOK(tx[z])'
  PROVE  TxInv'
<1>1. \A z \in Sessions : tx'[z] # NoTx => z # s /\ tx'[z] = tx[z]
  BY DEF TxInv, TypeOK
<1>2. TxsOK'
  BY <1>1 DEF TxsOK
<1>3. TxsExclude'
  BY <1>1 DEF TxInv, TxsExclude, Exclusive, Creates
<1>4. DecisionsOK'
  BY <1>1 DEF DecisionsOK
<1> QED
  BY <1>2, <1>3, <1>4 DEF TxInv

\* What is true of a transaction's contents is true of the transaction.
LEMMA TxAt ==
  ASSUME NEW z \in Sessions, NEW t \in Tx, tx'[z] = t, TxOK(t)'
  PROVE  TxOK(tx[z])'
  BY DEF TxOK, NumbersOK, ProgressOK, Creates, Current, Stream

\* A commit keeps the transactions in order.
LEMMA CommitTxInv == ASSUME TxInv, NEW s \in Sessions, Commit(s) PROVE TxInv'
<1> DEFINE p == tx[s].project
<1>0. AggregateTypeOK
  BY DEF TxInv, TypeOK, AggregateTypeOK
<1>1. /\ tx[s] \in Tx /\ p \in Projects /\ tx[s].held[p] # 0
      /\ tx' = [tx EXCEPT ![s] = NoTx]
      /\ events' \in [Projects -> Seq(Event)]
  BY HistoryGrows, CommitIsCommand
<1>A. tx[s] # NoTx /\ tx[s].pc = "writing" /\ Current(tx[s])
  BY CommitIsCommand DEF Commit, Is
<1>2. PICK op \in Operation, plan \in Plans, source \in Projects :
        Command(p, op, plan, source)
  BY CommitIsCommand
<1>3. /\ AggregateTypeOK' /\ \A x \in Projects : x # p => project'[x] = project[x]
      /\ Outcome(project[p], project'[p], op, plan, source)
  BY <1>0, <1>1, <1>2, CommandTypes
<1>4. receipts' \subseteq CommandIds
  BY <1>1 DEF Commit, Tx, TxInv, TypeOK
<1>5. TypeOK'
  BY <1>1, <1>3, <1>4 DEF TxInv, TypeOK, AggregateTypeOK
<1>6. AbsentIsNew'
  BY <1>3 DEF Outcome, TxInv, AbsentIsNew
<1>7. ASSUME NEW z \in Sessions, z # s, tx[z] # NoTx
      PROVE  TxOK(tx[z])' /\ (~tx[z].denied => DecisionOK(tx[z])')
  <2>1. PICK t \in Tx : t = tx[z] /\ tx'[z] = t
    BY <1>1, <1>7 DEF TxInv, TypeOK
  <2>2. t.project \in Projects
    BY TxFields
  <2>3. NumbersOK(t)'
    BY <1>7, <2>1, OthersKeepNumbers
  <2>4. ProgressOK(t) /\ Exclusive(tx[s], t)
    BY <1>7, <1>A, <2>1 DEF TxInv, TxsOK, TxOK, TxsExclude
  <2>5. ASSUME t.pc = "writing" \/ Creates(t) PROVE t.project # p
    <3>1. CASE t.pc = "writing"
      BY <1>1, <2>1, <2>2, <2>4, <3>1 DEF ProgressOK, Exclusive
    <3>2. CASE Creates(t) /\ t.project = p
      <4>1. project[p].status = "absent"
        BY <2>4, <3>2 DEF ProgressOK
      <4>2. Creates(tx[s])
        BY <1>A, <4>1 DEF Current, Creates
      <4> QED
        BY <2>4, <3>2, <4>2 DEF Exclusive
    <3> QED
      BY <2>5, <3>1, <3>2
  <2>6. t.project # p => project'[t.project] = project[t.project]
    BY <1>3, <2>2
  <2>7. ProgressOK(t)'
    BY <2>4, <2>5, <2>6 DEF ProgressOK, Creates, Current
  <2>8. TxOK(t)'
    BY <2>3, <2>7 DEF TxOK
  <2>9. ASSUME ~t.denied PROVE DecisionOK(t)'
    <3>1. DecisionOK(tx[z])
      BY <1>7, <2>1, <2>9 DEF TxInv, DecisionsOK
    <3>2. DecisionOK(t)
      BY <2>1, <3>1
    <3> QED
      BY <1>0, <1>1, <1>2, <3>2, DecisionSurvives
  <2> QED
    BY <2>1, <2>8, <2>9, TxAt, DecisionAt
<1> QED
  BY <1>1, <1>5, <1>6, <1>7, EndTxInv

\* A recorded denial keeps the transactions in order.
LEMMA DenialTxInv == ASSUME TxInv, NEW s \in Sessions, CommitDenial(s) PROVE TxInv'
<1>1. tx' = [tx EXCEPT ![s] = NoTx] /\ events' \in [Projects -> Seq(Event)]
  BY HistoryGrows
<1>2. project' = project /\ certified' = certified /\ receipts' = receipts
  BY DEF CommitDenial
<1>3. TypeOK' /\ AbsentIsNew'
  BY <1>1, <1>2 DEF TxInv, TypeOK, AbsentIsNew
<1>4. ASSUME NEW z \in Sessions, z # s, tx[z] # NoTx
      PROVE  TxOK(tx[z])' /\ (~tx[z].denied => DecisionOK(tx[z])')
  <2>1. PICK t \in Tx : t = tx[z] /\ tx'[z] = t
    BY <1>1, <1>4 DEF TxInv, TypeOK
  <2>2. NumbersOK(t)'
    BY <1>4, <2>1, OthersKeepNumbers
  <2>3. ProgressOK(t)
    BY <1>4, <2>1 DEF TxInv, TxsOK, TxOK
  <2>4. ProgressOK(t)'
    BY <1>2, <2>3 DEF ProgressOK, Creates, Current
  <2>5. ASSUME ~t.denied PROVE DecisionOK(t)'
    <3>1. DecisionOK(tx[z])
      BY <1>4, <2>1, <2>5 DEF TxInv, DecisionsOK
    <3>2. DecisionOK(t)
      BY <2>1, <3>1
    <3> QED
      BY <1>2, <3>2, DecisionKept
  <2>6. TxOK(t)'
    BY <2>2, <2>4 DEF TxOK
  <2> QED
    BY <2>1, <2>5, <2>6, TxAt, DecisionAt
<1> QED
  BY <1>1, <1>3, <1>4, EndTxInv

\* What no table is involved in stays true of a transaction.
LEMMA TxKept ==
  ASSUME NEW t \in Tx, TxOK(t), project' = project, events' = events
  PROVE  TxOK(t)'
  BY DEF TxOK, NumbersOK, ProgressOK, Creates, Current, Stream

\* A step that opens a transaction, moves it on or ends it with nothing
\* written keeps the transactions in order.
LEMMA QuietTxInv ==
  ASSUME TxInv, NEW s \in Sessions, NEW t \in Tx \cup {NoTx},
         tx' = [tx EXCEPT ![s] = t],
         project' = project, certified \subseteq certified',
         certified' \subseteq Projects \X Plans,
         events' = events, receipts' = receipts,
         t # NoTx =>
           /\ ~t.denied => DecisionOK(t)
           /\ TxOK(t)
           /\ \A z \in Sessions : z # s /\ tx[z] # NoTx =>
                Exclusive(t, tx[z]) /\ Exclusive(tx[z], t)
  PROVE  TxInv'
<1>1. \A z \in Sessions : tx'[z] = IF z = s THEN t ELSE tx[z]
  BY DEF TxInv, TypeOK
<1>2. TypeOK' /\ AbsentIsNew'
  BY DEF TxInv, TypeOK, AbsentIsNew
<1>3. ASSUME NEW z \in Sessions, tx'[z] # NoTx
      PROVE  TxOK(tx[z])' /\ (~tx'[z].denied => DecisionOK(tx[z])')
  <2>1. PICK u \in Tx : u = tx'[z]
    BY <1>2, <1>3 DEF TypeOK
  <2>2. TxOK(u) /\ (~u.denied => DecisionOK(u))
    <3>1. CASE z = s
      BY <1>1, <1>3, <2>1, <3>1
    <3>2. CASE z # s
      <4>1. u = tx[z] /\ tx[z] # NoTx
        BY <1>1, <1>3, <2>1, <3>2
      <4>2. TxOK(tx[z]) /\ (~tx[z].denied => DecisionOK(tx[z]))
        BY <4>1 DEF TxInv, TxsOK, DecisionsOK
      <4> QED
        BY <4>1, <4>2
    <3> QED
      BY <3>1, <3>2
  <2>3. TxOK(u)'
    BY <2>2, TxKept
  <2>4. ASSUME ~u.denied PROVE DecisionOK(u)'
    BY <2>2, <2>4, DecisionKept
  <2> QED
    BY <2>1, <2>3, <2>4, TxAt, DecisionAt
<1>4. TxsExclude'
  <2> SUFFICES ASSUME NEW x \in Sessions, NEW z \in Sessions, x # z,
                      tx'[x] # NoTx, tx'[z] # NoTx
               PROVE  Exclusive(tx'[x], tx'[z])
    BY DEF TxsExclude, Exclusive, Creates
  <2> QED
    BY <1>1 DEF TxInv, TxsExclude
<1> QED
  BY <1>2, <1>3, <1>4 DEF TxInv, TxsOK, DecisionsOK

\* Moving on keeps a transaction in order and excludes it from what the others
\* hold: a number that is inserted is the next one, so nobody else holds it.
LEMMA MovesOK ==
  ASSUME TxInv, NEW s \in Sessions, tx[s] # NoTx, NEW t \in Tx, t = tx[s],
         NEW u \in Tx, SameCommand(t, u), Moves(s, t, u)
  PROVE  /\ TxOK(u)
         /\ ~u.denied => DecisionOK(u)
         /\ \A z \in Sessions : z # s /\ tx[z] # NoTx =>
              Exclusive(u, tx[z]) /\ Exclusive(tx[z], u)
<1> DEFINE m == Stream(t)
<1>0. /\ t.project \in Projects /\ t.audit \in Projects /\ t.sequence \in Nat
      /\ t.held \in [Projects -> Nat] /\ m \in Projects
      /\ u.held \in [Projects -> Nat] /\ u.sequence \in Nat
      /\ Stream(u) \in Projects
      /\ t.expected \in Nat
  BY TxFields
<1>1. /\ u.project = t.project /\ u.denied = t.denied /\ u.expected = t.expected
      /\ u.after = t.after /\ u.audit = t.audit
  BY DEF SameCommand
<1>2. TxOK(t) /\ NumbersOK(t) /\ ProgressOK(t)
  BY DEF TxInv, TxsOK, TxOK
<1>3. ~t.denied => DecisionOK(t)
  BY DEF TxInv, DecisionsOK
<1>4. \A x \in Projects : Len(events[x]) \in Nat
  BY DEF TxInv, TypeOK
<1>5. \A z \in Sessions : z # s /\ tx[z] # NoTx =>
        /\ Exclusive(t, tx[z]) /\ Exclusive(tx[z], t)
        /\ tx[z] \in Tx /\ tx[z].held \in [Projects -> Nat] /\ NumbersOK(tx[z])
  BY TxFields DEF TxInv, TxsExclude, TxsOK, TxOK, TypeOK
<1>6. Current(u) <=> Current(t)
  BY <1>1 DEF Current
<1>7. ~u.denied => DecisionOK(u)
  BY <1>1, <1>3, <1>6 DEF DecisionOK, Decided
<1>8. CASE t.pc = "adding" /\ u.pc = "reading" /\ u.held = t.held
           /\ ~KeyHeld(s) /\ KeyFree(t)
  <2>1. NumbersOK(u)
    BY <1>2, <1>8 DEF NumbersOK
  <2>2. ProgressOK(u)
    BY <1>1, <1>2, <1>8 DEF ProgressOK, Creates, KeyFree
  <2>3. ASSUME NEW z \in Sessions, z # s, tx[z] # NoTx
        PROVE  Exclusive(u, tx[z]) /\ Exclusive(tx[z], u)
    <3>1. ~(Creates(u) /\ Creates(tx[z]) /\ u.project = tx[z].project)
      BY <1>1, <1>8, <2>3 DEF KeyHeld, Creates
    <3> QED
      BY <1>5, <1>8, <2>3, <3>1 DEF Exclusive
  <2> QED
    BY <1>7, <2>1, <2>2, <2>3 DEF TxOK
<1>9. CASE t.pc = "reading" /\ u.pc = "inserting" /\ u.held = t.held
           /\ u.sequence = Len(events[m]) + 1
  <2>0. Stream(u) = m
    BY <1>1, <1>9 DEF Stream
  <2>1. NumbersOK(u)
    BY <1>0, <1>2, <1>4, <1>9, <2>0 DEF NumbersOK
  <2>2. ProgressOK(u)
    BY <1>1, <1>2, <1>9 DEF ProgressOK, Creates
  <2>3. ASSUME NEW z \in Sessions, z # s, tx[z] # NoTx
        PROVE  Exclusive(u, tx[z]) /\ Exclusive(tx[z], u)
    BY <1>1, <1>5, <1>9, <2>3 DEF Exclusive, Creates
  <2> QED
    BY <1>7, <2>1, <2>2, <2>3 DEF TxOK
<1>10. CASE /\ t.pc = "inserting" /\ ~Contended(s)
            /\ t.sequence > Len(events[m])
            /\ u.held = [t.held EXCEPT ![m] = t.sequence]
            /\ u.pc = IF m # t.project THEN "reading"
                      ELSE IF t.after.status = "created" THEN "writing"
                      ELSE "checking"
  <2>1. t.sequence = Len(events[m]) + 1 /\ t.sequence # 0
    <3>1. t.sequence <= Len(events[m]) + 1
      BY <1>2, <1>10 DEF NumbersOK
    <3> HIDE DEF m
    <3> QED
      BY <1>0, <1>4, <1>10, <3>1
  <2>2. \A q \in Projects : u.held[q] = IF q = m THEN t.sequence ELSE t.held[q]
    BY <1>0, <1>10
  <2>3. NumbersOK(u)
    BY <1>2, <1>10, <2>1, <2>2 DEF NumbersOK
  <2>4. m = t.project => u.held[u.audit] # 0 /\ u.held[u.project] # 0
    <3>1. m # t.audit => t.held[t.audit] # 0
      BY DEF Stream
    <3> HIDE DEF m
    <3> QED
      BY <1>0, <1>1, <2>1, <2>2, <3>1
  <2>5. Creates(u) => project[u.project].status = "absent"
    BY <1>1, <1>2, <1>10 DEF ProgressOK, Creates
  <2>6. ASSUME u.pc = "writing" PROVE ~u.denied /\ Current(u)
    <3>1. t.after.status = "created" /\ Creates(u)
      BY <1>1, <1>10, <2>6 DEF Creates
    <3>2. project[t.project].status = "absent" /\ project[t.project].revision = 0
      BY <1>0, <1>1, <2>5, <3>1 DEF TxInv, AbsentIsNew
    <3>3. ~t.denied
      BY <1>2, <3>1 DEF ProgressOK
    <3>4. t.expected <= 0
      BY <1>3, <3>2, <3>3 DEF DecisionOK
    <3> QED
      BY <1>0, <1>1, <1>6, <3>1, <3>2, <3>3, <3>4 DEF Current
  <2>7. ProgressOK(u)
    BY <1>1, <1>2, <1>10, <2>4, <2>5, <2>6 DEF ProgressOK
  <2>8. ASSUME NEW z \in Sessions, z # s, tx[z] # NoTx
        PROVE  Exclusive(u, tx[z]) /\ Exclusive(tx[z], u)
    <3>1. tx[z].held[m] = 0
      <4>1. tx[z].held[m] # 0 => tx[z].held[m] = Len(events[m]) + 1
        BY <1>0, <1>5, <2>8 DEF NumbersOK
      <4>2. tx[z].held[m] # t.sequence
        BY <1>10, <2>8 DEF Contended
      <4> HIDE DEF m
      <4> QED
        BY <2>1, <4>1, <4>2
    <3>2. \A q \in Projects : u.held[q] = 0 \/ tx[z].held[q] = 0
      BY <1>5, <2>2, <2>8, <3>1 DEF Exclusive
    <3>3. Creates(u) <=> Creates(t)
      BY <1>1, <1>10 DEF Creates
    <3> QED
      BY <1>1, <1>5, <2>8, <3>2, <3>3 DEF Exclusive
  <2> QED
    BY <1>7, <2>3, <2>7, <2>8 DEF TxOK
<1>11. CASE t.pc = "checking" /\ u.pc = "writing" /\ u.held = t.held
            /\ ~t.denied /\ RevisionFound(t)
  <2>1. NumbersOK(u)
    BY <1>2, <1>11 DEF NumbersOK
  <2>2. Current(u)
    BY <1>2, <1>6, <1>11 DEF ProgressOK, Current, RevisionFound
  <2>3. ProgressOK(u)
    BY <1>1, <1>2, <1>11, <2>2 DEF ProgressOK, Creates
  <2>4. ASSUME NEW z \in Sessions, z # s, tx[z] # NoTx
        PROVE  Exclusive(u, tx[z]) /\ Exclusive(tx[z], u)
    BY <1>1, <1>5, <1>11, <2>4 DEF Exclusive, Creates
  <2> QED
    BY <1>7, <2>1, <2>3, <2>4 DEF TxOK
<1> QED
  BY <1>8, <1>9, <1>10, <1>11 DEF Moves

\* Every step keeps the transactions in order.
LEMMA TxStep == TxInv /\ [Next]_vars => TxInv'
<1> SUFFICES ASSUME TxInv, [Next]_vars PROVE TxInv'
  OBVIOUS
<1>0. TypeOK /\ certified \subseteq Projects \X Plans
  BY DEF TxInv, TypeOK
<1>1. ASSUME NEW s \in Sessions, Start(s) PROVE TxInv'
  <2>1. PICK t \in Tx : /\ tx' = [tx EXCEPT ![s] = t]
                        /\ t.pc \in {"adding", "reading"}
                        /\ t.after.status = "created" => t.pc = "adding"
                        /\ \A q \in Projects : t.held[q] = 0
                        /\ ~t.denied => DecisionOK(t)
                        /\ t.denied => t.after.status # "created"
    BY <1>0, <1>1, StartStep
  <2>2. /\ project' = project /\ certified' = certified
        /\ events' = events /\ receipts' = receipts
    BY <1>0, <1>1, StartStep
  <2>3. TxOK(t)
    BY <2>1 DEF TxOK, NumbersOK, ProgressOK, Creates
  <2>4. \A z \in Sessions : Exclusive(t, tx[z]) /\ Exclusive(tx[z], t)
    BY <2>1 DEF Exclusive, Creates
  <2> QED
    BY <1>0, <2>1, <2>2, <2>3, <2>4, QuietTxInv
<1>2. ASSUME NEW s \in Sessions, Statement(s) PROVE TxInv'
  <2>1. /\ project' = project /\ certified' = certified
        /\ events' = events /\ receipts' = receipts
    BY <1>0, <1>2, StatementStep
  <2>2. CASE tx' = [tx EXCEPT ![s] = NoTx]
    BY <1>0, <2>1, <2>2, QuietTxInv
  <2>3. ASSUME NEW u \in Tx, tx' = [tx EXCEPT ![s] = u],
               tx[s] # NoTx, SameCommand(tx[s], u), Moves(s, tx[s], u)
        PROVE  TxInv'
    <3>1. PICK t \in Tx : t = tx[s]
      BY <1>0, <2>3 DEF TypeOK
    <3>2. SameCommand(t, u) /\ Moves(s, t, u)
      BY <2>3, <3>1
    <3>3. /\ TxOK(u)
          /\ ~u.denied => DecisionOK(u)
          /\ \A z \in Sessions : z # s /\ tx[z] # NoTx =>
               Exclusive(u, tx[z]) /\ Exclusive(tx[z], u)
      BY <2>3, <3>1, <3>2, MovesOK
    <3> QED
      BY <1>0, <2>1, <2>3, <3>3, QuietTxInv
  <2> QED
    BY <1>0, <1>2, <2>2, <2>3, StatementStep
<1>3. ASSUME NEW s \in Sessions, Commit(s) PROVE TxInv'
  BY <1>3, CommitTxInv
<1>4. ASSUME NEW s \in Sessions, CommitDenial(s) PROVE TxInv'
  BY <1>4, DenialTxInv
<1>5. ASSUME project' = project, certified \subseteq certified',
             certified' \subseteq Projects \X Plans, events' = events,
             receipts' = receipts, tx' = tx
      PROVE  TxInv'
  <2>1. TypeOK' /\ AbsentIsNew'
    BY <1>0, <1>5 DEF TypeOK, TxInv, AbsentIsNew
  <2>2. TxsOK' /\ TxsExclude'
    BY <1>5 DEF TxInv, TxsOK, TxsExclude, TxOK, NumbersOK, ProgressOK, Creates,
       Current, Stream, Exclusive
  <2>3. DecisionsOK'
    BY <1>5, DecisionsKept
  <2> QED
    BY <2>1, <2>2, <2>3 DEF TxInv
<1>6. CASE Evidence
  <2>1. PICK p \in Projects, plan \in Plans : Certify(p, plan)
    BY <1>6 DEF Evidence
  <2>2. /\ project' = project /\ certified' = certified \cup {<<p, plan>>}
        /\ events' = events /\ receipts' = receipts /\ tx' = tx
    BY <1>6, <2>1 DEF Evidence, Certify
  <2> QED
    BY <1>0, <1>5, <2>2
<1>7. CASE UNCHANGED vars
  BY <1>0, <1>5, <1>7 DEF vars
<1> QED
  BY <1>1, <1>2, <1>3, <1>4, <1>6, <1>7 DEF Next, Step, Statement

\* No transaction is open at first.
LEMMA TxStart == Init => TxInv
<1> SUFFICES ASSUME Init PROVE TxInv
  OBVIOUS
<1>1. AggregateInv
  BY AggregateStart DEF Init
<1>2. /\ events = [p \in Projects |-> <<>>] /\ receipts = {}
      /\ tx = [s \in Sessions |-> NoTx]
  BY DEF Init
<1>3. TypeOK
  BY <1>1, <1>2 DEF AggregateInv, AggregateTypeOK, TypeOK
<1>4. \A s \in Sessions : tx[s] = NoTx
  BY <1>2
<1>5. AbsentIsNew
  BY DEF Init, AggregateInit, AbsentIsNew, AbsentProject
<1> QED
  BY <1>3, <1>4, <1>5 DEF TxInv, TxsOK, TxsExclude, DecisionsOK

\* In every reachable state the unique event number has one holder per
\* project, and what it found is what it will replace.
THEOREM TransactionSafety == Spec => []TxInv
  BY TxStart, TxStep, PTL DEF Spec

----------------------------------------------------------------------------
(* The transactions implement the aggregate.                               *)

\* Only a commit changes a project row; a commit or a recorded denial changes
\* a history; only a commit adds a receipt.
LEMMA TableStep ==
  ASSUME TxInv, [Next]_vars
  PROVE  \/ \E s \in Sessions : Commit(s)
         \/ (\E s \in Sessions : CommitDenial(s)) /\ project' = project
              /\ certified' = certified /\ receipts' = receipts
         \/ Evidence
         \/ /\ project' = project /\ certified' = certified
            /\ events' = events /\ receipts' = receipts
<1>0. TypeOK
  BY DEF TxInv
<1>1. ASSUME NEW s \in Sessions, Start(s)
      PROVE  /\ project' = project /\ certified' = certified
             /\ events' = events /\ receipts' = receipts
  BY <1>0, <1>1, StartStep
<1>2. ASSUME NEW s \in Sessions, Statement(s)
      PROVE  /\ project' = project /\ certified' = certified
             /\ events' = events /\ receipts' = receipts
  BY <1>0, <1>2, StatementStep
<1>3. ASSUME NEW s \in Sessions, CommitDenial(s)
      PROVE  project' = project /\ certified' = certified /\ receipts' = receipts
  BY <1>3 DEF CommitDenial
<1>4. CASE UNCHANGED vars
  BY <1>4 DEF vars
<1> QED
  BY <1>1, <1>2, <1>3, <1>4 DEF Next, Step, Statement

\* A commit is a command of the aggregate, new evidence a certification, and
\* every other statement of a transaction a stutter.
LEMMA RefinementStep ==
  TxInv /\ [Next]_vars => [AggregateNext]_<<project, certified>>
<1> SUFFICES ASSUME TxInv, [Next]_vars
             PROVE  [AggregateNext]_<<project, certified>>
  OBVIOUS
<1>1. ASSUME NEW s \in Sessions, Commit(s) PROVE AggregateNext
  <2>1. PICK p \in Projects : p = tx[s].project
    BY <1>1, CommitIsCommand
  <2>2. PICK op \in Operation, plan \in Plans, source \in Projects :
          Command(p, op, plan, source)
    BY <1>1, <2>1, CommitIsCommand
  <2> QED
    BY <2>2 DEF AggregateNext
<1>2. CASE Evidence
  BY <1>2 DEF Evidence, AggregateNext
<1> QED
  BY <1>1, <1>2, TableStep

\* Concurrent command transactions implement the atomic, revision-checked
\* aggregate: the whole of it, not only its invariants.
THEOREM Refinement == Spec => AggregateSpec
<1>1. Init => AggregateInit
  BY DEF Init
<1> QED
  BY <1>1, TransactionSafety, RefinementStep, PTL DEF Spec, AggregateSpec

\* "Completed" is never claimed without the certified evidence of the active
\* plan, whatever transactions run beside the completion.
THEOREM CompletionSafety == Spec => []CompletionIsProven
<1>1. AggregateInv => CompletionIsProven
  BY DEF AggregateInv
<1> QED
  BY <1>1, Refinement, AggregateSafety, PTL

\* A continuation descends from a project that was completed, and still is.
THEOREM LineageSafety == Spec => []LineageIsCompleted
<1>1. AggregateInv => LineageIsCompleted
  BY DEF AggregateInv
<1> QED
  BY <1>1, Refinement, AggregateSafety, PTL

\* A write of the project row was computed from the row it replaces: two
\* concurrent commands of a project cannot both win.
THEOREM UpdateSafety == Spec => NoLostUpdate
<1> DEFINE Kept ==
      \A s \in Sessions :
         Is(s, "writing") /\ tx'[s] = NoTx /\ project' # project =>
           LET p == tx[s].project IN
           /\ project[p].revision = tx[s].expected
           /\ project[p].status # "absent" => project'[p].revision = tx[s].expected + 1
<1>1. ASSUME TxInv, Next PROVE Kept
  <2> SUFFICES ASSUME NEW s \in Sessions, Is(s, "writing"), tx'[s] = NoTx,
                      project' # project
               PROVE  LET p == tx[s].project IN
                      /\ project[p].revision = tx[s].expected
                      /\ project[p].status # "absent" =>
                           project'[p].revision = tx[s].expected + 1
    OBVIOUS
  <2>1. PICK z \in Sessions : Commit(z)
    BY <1>1, TableStep DEF Evidence, Certify
  <2>2. z = s
    BY <1>1, <2>1 DEF Commit, Is, TxInv, TypeOK
  <2>3. PICK p \in Projects : p = tx[s].project
    BY <1>1, <2>1, <2>2, CommitIsCommand
  <2>4. project[p].revision = tx[s].expected
    BY <1>1, <2>1, <2>2, <2>3, CommitIsCommand
  <2>5. PICK op \in Operation, plan \in Plans, source \in Projects :
          Command(p, op, plan, source)
    BY <1>1, <2>1, <2>2, <2>3, CommitIsCommand
  <2>6. AggregateTypeOK
    BY <1>1 DEF TxInv, TypeOK, AggregateTypeOK
  <2>7. Outcome(project[p], project'[p], op, plan, source)
    BY <2>5, <2>6, CommandTypes
  <2> QED
    BY <2>3, <2>4, <2>7 DEF Outcome
<1>2. TxInv /\ [Next]_vars => [Kept]_vars
  BY <1>1
<1> QED
  BY <1>2, TransactionSafety, PTL DEF Spec, NoLostUpdate

----------------------------------------------------------------------------
(* The event history.                                                      *)

\* The positions of the domain events of a history.
Domain(es) == {i \in DOMAIN es : es[i].kind = "domain"}

\* The history es tells how the row r came to be.
Mirrors(es, r) ==
    /\ \A i, j \in Domain(es) : i < j => es[i].after.revision < es[j].after.revision
    /\ {es[i].after.revision : i \in Domain(es)} =
         IF r.status = "absent" THEN {} ELSE 0..r.revision
    /\ \A i \in Domain(es) : es[i].after.revision = r.revision => es[i].after = r

\* Every domain event has its receipt.
ReceiptsKept ==
    \A p \in Projects : \A i \in Domain(events[p]) : events[p][i].command \in receipts

HistoryInv ==
    /\ TxInv
    /\ \A p \in Projects : Mirrors(events[p], project[p])
    /\ ReceiptsKept
    /\ CommandOnce

\* An audit event is no domain event: the domain events stay where they are.
LEMMA AuditKeepsDomain ==
  ASSUME NEW es \in Seq(Event), NEW a \in Event, a.kind = "authorization"
  PROVE  /\ Append(es, a) \in Seq(Event)
         /\ Domain(Append(es, a)) = Domain(es)
         /\ \A i \in Domain(es) : Append(es, a)[i] = es[i]
<1>1. /\ Append(es, a) \in Seq(Event) /\ Len(Append(es, a)) = Len(es) + 1
      /\ DOMAIN es = 1..Len(es) /\ DOMAIN Append(es, a) = 1..(Len(es) + 1)
      /\ Len(es) \in Nat
      /\ \A i \in 1..Len(es) : Append(es, a)[i] = es[i]
      /\ Append(es, a)[Len(es) + 1] = a
  OBVIOUS
<1> QED
  BY <1>1 DEF Domain

\* A domain event is added after all the others.
LEMMA EventExtendsDomain ==
  ASSUME NEW es \in Seq(Event), NEW d \in Event, d.kind = "domain"
  PROVE  /\ Domain(Append(es, d)) = Domain(es) \cup {Len(es) + 1}
         /\ \A i \in Domain(es) : Append(es, d)[i] = es[i] /\ i < Len(es) + 1
         /\ Append(es, d)[Len(es) + 1] = d
<1>1. /\ Append(es, d) \in Seq(Event) /\ Len(Append(es, d)) = Len(es) + 1
      /\ DOMAIN es = 1..Len(es) /\ DOMAIN Append(es, d) = 1..(Len(es) + 1)
      /\ Len(es) \in Nat
      /\ \A i \in 1..Len(es) : Append(es, d)[i] = es[i]
      /\ Append(es, d)[Len(es) + 1] = d
  OBVIOUS
<1> QED
  BY <1>1 DEF Domain

\* An audit event leaves the told history as it is.
LEMMA AuditMirrors ==
  ASSUME NEW es \in Seq(Event), NEW a \in Event, a.kind = "authorization",
         NEW r, Mirrors(es, r)
  PROVE  Mirrors(Append(es, a), r)
<1> DEFINE fs == Append(es, a)
<1>1. Domain(fs) = Domain(es) /\ \A i \in Domain(es) : fs[i] = es[i]
  BY AuditKeepsDomain
<1> HIDE DEF fs
<1>2. {fs[i].after.revision : i \in Domain(fs)} = {es[i].after.revision : i \in Domain(es)}
  BY <1>1
<1>3. Mirrors(fs, r)
  BY <1>1, <1>2 DEF Mirrors
<1> QED
  BY <1>3 DEF fs

\* A domain event with the next revision of the row extends the history to the
\* row it records.
LEMMA EventMirrors ==
  ASSUME NEW es \in Seq(Event), NEW d \in Event, d.kind = "domain",
         NEW r \in Project, NEW q \in Project, d.after = q,
         r.status = "absent" => r.revision = 0,
         q.status # "absent",
         q.revision = IF r.status = "absent" THEN r.revision ELSE r.revision + 1,
         Mirrors(es, r)
  PROVE  Mirrors(Append(es, d), q)
<1> DEFINE fs == Append(es, d)
<1> DEFINE n == Len(es) + 1
<1>1. /\ Domain(fs) = Domain(es) \cup {n}
      /\ \A i \in Domain(es) : fs[i] = es[i] /\ i < n
      /\ fs[n] = d
  BY EventExtendsDomain
<1>0. n \in Nat /\ r.revision \in Nat /\ q.revision \in Nat
  BY DEF Project
<1>A. ASSUME NEW i \in Domain(es) PROVE i \in Nat /\ es[i].after.revision \in Nat
  <2>1. i \in Nat /\ es[i] \in Event
    BY DEF Domain
  <2>2. es[i].after \in Project
    BY <2>1 DEF Event
  <2> QED
    BY <2>1, <2>2 DEF Project
<1> HIDE DEF fs, n
<1> DEFINE Revs == {es[i].after.revision : i \in Domain(es)}
<1>2. Revs = IF r.status = "absent" THEN {} ELSE 0..r.revision
  BY DEF Mirrors
<1>3. \A i \in Domain(es) : es[i].after.revision < q.revision
  <2>1. \A i \in Domain(es) : es[i].after.revision \in Revs
    OBVIOUS
  <2> HIDE DEF Revs
  <2> QED
    BY <1>0, <1>2, <2>1
<1>4. {fs[i].after.revision : i \in Domain(fs)} = Revs \cup {q.revision}
  BY <1>1
<1>5. Revs \cup {q.revision} = 0..q.revision
  <2> HIDE DEF Revs
  <2> QED
    BY <1>0, <1>2
<1>6. \A i, j \in Domain(fs) : i < j => fs[i].after.revision < fs[j].after.revision
  <2> SUFFICES ASSUME NEW i \in Domain(fs), NEW j \in Domain(fs), i < j
               PROVE  fs[i].after.revision < fs[j].after.revision
    OBVIOUS
  <2>1. i \in Domain(es)
    BY <1>0, <1>1, <1>A
  <2>2. CASE j = n
    BY <1>1, <1>3, <2>1, <2>2
  <2>3. CASE j \in Domain(es)
    BY <1>1, <2>1, <2>3 DEF Mirrors
  <2> QED
    BY <1>1, <2>2, <2>3
<1>7. \A i \in Domain(fs) : fs[i].after.revision = q.revision => fs[i].after = q
  BY <1>0, <1>1, <1>3, <1>A
<1>8. Mirrors(fs, q)
  BY <1>4, <1>5, <1>6, <1>7 DEF Mirrors
<1> QED
  BY <1>8 DEF fs

\* The histories with an audit event tell of the rows what they told before.
LEMMA AuditedHistories ==
  ASSUME TxInv, NEW s \in Sessions, Commit(s) \/ CommitDenial(s),
         NEW x \in Projects, NEW es, es = Audited(tx[s])[x]
  PROVE  /\ es \in Seq(Event) /\ Domain(es) = Domain(events[x])
         /\ \A i \in Domain(events[x]) : es[i] = events[x][i]
         /\ Mirrors(events[x], project[x]) => Mirrors(es, project[x])
<1>1. PICK a \in Event : a = Entry(tx[s], "authorization")
  BY HistoryGrows
<1>2. es = IF x = tx[s].audit THEN Append(events[x], a) ELSE events[x]
  BY <1>1, HistoryGrows
<1>3. a.kind = "authorization" /\ events[x] \in Seq(Event)
  BY <1>1 DEF Entry, TxInv, TypeOK
<1>4. PICK r : r = project[x]
  OBVIOUS
<1>5. CASE es = Append(events[x], a)
  BY <1>3, <1>4, <1>5, AuditKeepsDomain, AuditMirrors
<1>6. CASE es = events[x]
  BY <1>3, <1>6
<1> QED
  BY <1>2, <1>5, <1>6

\* A committed command extends the history of its project by one domain event
\* with an unused command id.
LEMMA CommitEvents ==
  ASSUME TxInv, NEW s \in Sessions, Commit(s)
  PROVE  LET p == tx[s].project
             d == Entry(tx[s], "domain")
             es == Audited(tx[s])[tx[s].project]
         IN /\ p \in Projects /\ d \in Event /\ d.kind = "domain"
            /\ d.after = tx[s].after /\ d.command \notin receipts
            /\ receipts' = receipts \cup {d.command}
            /\ es \in Seq(Event) /\ events'[p] = Append(es, d)
            /\ Domain(events'[p]) = Domain(events[p]) \cup {Len(es) + 1}
            /\ \A i \in Domain(events[p]) : events'[p][i] = events[p][i]
            /\ events'[p][Len(es) + 1] = d
<1>P. PICK p : p = tx[s].project
  OBVIOUS
<1>D. PICK d : d = Entry(tx[s], "domain")
  OBVIOUS
<1>E. PICK es : es = Audited(tx[s])[p]
  OBVIOUS
<1>1. p \in Projects /\ tx[s] \in Tx
  BY <1>P, CommitIsCommand
<1>2. d \in Event /\ events'[p] = Append(es, d)
  BY <1>1, <1>P, <1>D, <1>E, HistoryGrows
<1>3. d.kind = "domain" /\ d.after = tx[s].after /\ d.command = tx[s].command
  BY <1>D DEF Entry
<1>4. tx[s].command \notin receipts /\ receipts' = receipts \cup {tx[s].command}
  BY DEF Commit, ReceiptFree
<1>5. /\ es \in Seq(Event) /\ Domain(es) = Domain(events[p])
      /\ \A i \in Domain(events[p]) : es[i] = events[p][i]
  BY <1>1, <1>E, AuditedHistories
<1>6. /\ Domain(Append(es, d)) = Domain(es) \cup {Len(es) + 1}
      /\ \A i \in Domain(es) : Append(es, d)[i] = es[i]
      /\ Append(es, d)[Len(es) + 1] = d
  BY <1>2, <1>3, <1>5, EventExtendsDomain
<1> QED
  BY <1>1, <1>2, <1>3, <1>4, <1>5, <1>6, <1>P, <1>D, <1>E

\* A commit keeps the history true to the rows and every command id applied
\* once.
LEMMA CommitHistory ==
  ASSUME HistoryInv, NEW s \in Sessions, Commit(s) PROVE HistoryInv'
<1>0. TxInv /\ TxInv' /\ AggregateTypeOK /\ AbsentIsNew
  BY CommitTxInv DEF HistoryInv, TxInv, TypeOK, AggregateTypeOK
<1>1. PICK p \in Projects : p = tx[s].project /\ project'[p] = tx[s].after
  BY <1>0, CommitIsCommand
<1>2. PICK op \in Operation, plan \in Plans, source \in Projects :
        Command(p, op, plan, source)
  BY <1>0, <1>1, CommitIsCommand
<1>3. /\ Outcome(project[p], project'[p], op, plan, source)
      /\ \A x \in Projects : x # p => project'[x] = project[x]
  BY <1>0, <1>2, CommandTypes
<1>D. PICK d : d = Entry(tx[s], "domain")
  OBVIOUS
<1>E. PICK es : es = Audited(tx[s])[p]
  OBVIOUS
<1>N. PICK n : n = Len(es) + 1
  OBVIOUS
<1>5. /\ d \in Event /\ d.kind = "domain" /\ d.after = tx[s].after
      /\ d.command \notin receipts /\ receipts' = receipts \cup {d.command}
      /\ es \in Seq(Event) /\ events'[p] = Append(es, d)
      /\ Domain(events'[p]) = Domain(events[p]) \cup {n}
      /\ \A i \in Domain(events[p]) : events'[p][i] = events[p][i]
      /\ events'[p][n] = d
  <2>1. TxInv /\ p = tx[s].project
    BY <1>0, <1>1
  <2>2. /\ d \in Event /\ d.kind = "domain" /\ d.after = tx[s].after
        /\ d.command \notin receipts /\ receipts' = receipts \cup {d.command}
        /\ es \in Seq(Event) /\ events'[p] = Append(es, d)
        /\ Domain(events'[p]) = Domain(events[p]) \cup {Len(es) + 1}
        /\ \A i \in Domain(events[p]) : events'[p][i] = events[p][i]
        /\ events'[p][Len(es) + 1] = d
    BY <1>D, <1>E, <2>1, CommitEvents
  <2> QED
    BY <1>N, <2>2
<1>4. ASSUME NEW x \in Projects, x # p
      PROVE  /\ Domain(events'[x]) = Domain(events[x])
             /\ \A i \in Domain(events[x]) : events'[x][i] = events[x][i]
             /\ Mirrors(events[x], project[x]) => Mirrors(events'[x], project[x])
  <2>1. PICK fs : fs = Audited(tx[s])[x]
    OBVIOUS
  <2>2. events'[x] = fs
    BY <1>0, <1>1, <1>4, <2>1, HistoryGrows
  <2>3. /\ Domain(fs) = Domain(events[x])
        /\ \A i \in Domain(events[x]) : fs[i] = events[x][i]
        /\ Mirrors(events[x], project[x]) => Mirrors(fs, project[x])
    BY <1>0, <2>1, AuditedHistories
  <2> QED
    BY <2>2, <2>3
<1>7. ASSUME NEW x \in Projects PROVE Mirrors(events'[x], project'[x])
  <2>1. CASE x # p
    <3>1. Mirrors(events'[x], project[x])
      BY <1>4, <2>1 DEF HistoryInv
    <3> QED
      BY <1>3, <2>1, <3>1
  <2>2. CASE x = p
    <3>1. PICK r \in Project : r = project[p]
      BY <1>0 DEF AggregateTypeOK
    <3>2. PICK q \in Project : q = tx[s].after
      BY <1>1, <1>3 DEF Outcome
    <3>3. Mirrors(es, r)
      BY <1>0, <1>E, <3>1, AuditedHistories DEF HistoryInv
    <3>4. /\ q.status # "absent"
          /\ q.revision = IF r.status = "absent" THEN r.revision ELSE r.revision + 1
          /\ r.status = "absent" => r.revision = 0
      BY <1>0, <1>1, <1>3, <3>1, <3>2 DEF Outcome, AbsentIsNew
    <3>5. Mirrors(Append(es, d), q)
      BY <1>5, <3>2, <3>3, <3>4, EventMirrors
    <3> QED
      BY <1>1, <1>5, <2>2, <3>2, <3>5
  <2> QED
    BY <2>1, <2>2
<1>8. \* An event of a new history is an old one or the one just written.
      ASSUME NEW x \in Projects, NEW i \in Domain(events'[x])
      PROVE  \/ i \in Domain(events[x]) /\ events'[x][i] = events[x][i]
             \/ x = p /\ i = n /\ events'[x][i] = d
  BY <1>4, <1>5
<1>9. ReceiptsKept'
  <2> SUFFICES ASSUME NEW x \in Projects, NEW i \in Domain(events'[x])
               PROVE  events'[x][i].command \in receipts'
    BY DEF ReceiptsKept, Domain
  <2> QED
    BY <1>5, <1>8 DEF HistoryInv, ReceiptsKept
<1>10. CommandOnce'
  <2> SUFFICES ASSUME NEW x \in Projects, NEW y \in Projects,
                      NEW i \in Domain(events'[x]), NEW j \in Domain(events'[y]),
                      events'[x][i].command = events'[y][j].command
               PROVE  x = y /\ i = j
    BY DEF CommandOnce, Domain
  <2>1. ASSUME NEW z \in Projects, NEW k \in Domain(events[z])
        PROVE  events[z][k].command # d.command
    BY <1>5, <2>1 DEF HistoryInv, ReceiptsKept
  <2>2. CASE /\ i \in Domain(events[x]) /\ events'[x][i] = events[x][i]
             /\ j \in Domain(events[y]) /\ events'[y][j] = events[y][j]
    BY <2>2 DEF HistoryInv, CommandOnce, Domain
  <2> QED
    BY <1>8, <2>1, <2>2
<1> QED
  BY <1>0, <1>7, <1>9, <1>10 DEF HistoryInv

\* A recorded denial adds an audit event, which tells nothing of the project.
LEMMA DenialHistory ==
  ASSUME HistoryInv, NEW s \in Sessions, CommitDenial(s) PROVE HistoryInv'
<1>0. TxInv /\ TxInv'
  BY DenialTxInv DEF HistoryInv
<1>1. ~Commit(s)
  BY <1>0 DEF Commit, CommitDenial, Is
<1>4. project' = project /\ receipts' = receipts
  BY DEF CommitDenial
<1>6. ASSUME NEW x \in Projects
      PROVE  /\ Domain(events'[x]) = Domain(events[x])
             /\ \A i \in Domain(events[x]) : events'[x][i] = events[x][i]
             /\ Mirrors(events'[x], project'[x])
  <2>1. PICK fs : fs = Audited(tx[s])[x]
    OBVIOUS
  <2>2. events'[x] = fs
    BY <1>0, <1>1, <2>1, HistoryGrows
  <2>3. /\ Domain(fs) = Domain(events[x])
        /\ \A i \in Domain(events[x]) : fs[i] = events[x][i]
        /\ Mirrors(fs, project[x])
    BY <1>0, <2>1, AuditedHistories DEF HistoryInv
  <2> QED
    BY <1>4, <2>2, <2>3
<1>8. ReceiptsKept'
  <2> SUFFICES ASSUME NEW x \in Projects, NEW i \in Domain(events'[x])
               PROVE  events'[x][i].command \in receipts'
    BY DEF ReceiptsKept, Domain
  <2> QED
    BY <1>4, <1>6 DEF HistoryInv, ReceiptsKept
<1>9. CommandOnce'
  <2> SUFFICES ASSUME NEW x \in Projects, NEW y \in Projects,
                      NEW i \in Domain(events'[x]), NEW j \in Domain(events'[y]),
                      events'[x][i].command = events'[y][j].command
               PROVE  x = y /\ i = j
    BY DEF CommandOnce, Domain
  <2>1. /\ i \in Domain(events[x]) /\ j \in Domain(events[y])
        /\ events[x][i].command = events[y][j].command
    BY <1>6
  <2> QED
    BY <2>1 DEF HistoryInv, CommandOnce, Domain
<1> QED
  BY <1>0, <1>6, <1>8, <1>9 DEF HistoryInv

\* Every step keeps the history true to the rows.
LEMMA HistoryStep == HistoryInv /\ [Next]_vars => HistoryInv'
<1> SUFFICES ASSUME HistoryInv, [Next]_vars PROVE HistoryInv'
  OBVIOUS
<1>0. TxInv /\ TxInv'
  BY TxStep DEF HistoryInv
<1>1. ASSUME project' = project, events' = events, receipts' = receipts
      PROVE  HistoryInv'
  BY <1>0, <1>1 DEF HistoryInv, ReceiptsKept, CommandOnce, Domain, Mirrors
<1>2. CASE Evidence
  BY <1>1, <1>2 DEF Evidence, Certify
<1> QED
  BY <1>0, <1>1, <1>2, TableStep, CommitHistory, DenialHistory

\* The history is empty at first.
LEMMA HistoryStart == Init => HistoryInv
<1> SUFFICES ASSUME Init PROVE HistoryInv
  OBVIOUS
<1>1. TxInv
  BY TxStart
<1>2. \A p \in Projects : /\ project[p] = AbsentProject /\ events[p] = <<>>
                          /\ Domain(events[p]) = {}
  <2>1. Domain(<<>>) = {}
    BY DEF Domain
  <2>2. \A p \in Projects : project[p] = AbsentProject /\ events[p] = <<>>
    BY DEF Init, AggregateInit
  <2> QED
    BY <2>1, <2>2
<1>3. AbsentProject.status = "absent" /\ AbsentProject.revision = 0
  BY DEF AbsentProject
<1>4. ReceiptsKept
  BY <1>2 DEF ReceiptsKept
<1>5. \A p \in Projects : Mirrors(events[p], project[p])
  BY <1>2, <1>3 DEF Mirrors
<1>6. CommandOnce
  BY <1>2 DEF CommandOnce, Domain
<1> QED
  BY <1>1, <1>4, <1>5, <1>6 DEF HistoryInv

\* The append-only domain events are the history of the project: one event per
\* revision, in order, the newest one the current row.
THEOREM HistorySafety == Spec => []HistoryMirrorsProject
<1>1. HistoryInv => HistoryMirrorsProject
  BY DEF HistoryInv, TxInv, HistoryMirrorsProject, Mirrors, Domain
<1> QED
  BY <1>1, HistoryStart, HistoryStep, PTL DEF Spec

\* A command id changes one project once, however often it is retried and
\* whatever its retries race.
THEOREM CommandSafety == Spec => []CommandOnce
<1>1. HistoryInv => CommandOnce
  BY DEF HistoryInv
<1> QED
  BY <1>1, HistoryStart, HistoryStep, PTL DEF Spec

=============================================================================
