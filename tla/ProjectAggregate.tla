-------------------------- MODULE ProjectAggregate --------------------------
(***************************************************************************)
(* The Project aggregate: the lifecycle of a governed project and its      *)
(* active plan, with every command as one atomic step.  This is what the   *)
(* command runtimes promise ("scope activation is atomic and revision-     *)
(* checked"); ProjectCommands shows how the sessions of many concurrent    *)
(* commands implement it.                                                  *)
(***************************************************************************)
EXTENDS Naturals

CONSTANTS
    Projects,       \* project ids of one organization
    Plans,          \* plan_request_fingerprint values
    None,           \* SQL NULL
    MaxRevision     \* bound on the revision of one project

ASSUME AggregateAssumption ==
    /\ None \notin Projects
    /\ None \notin Plans
    /\ MaxRevision \in Nat

VARIABLES
    project,        \* projects: the current state of each project
    certified       \* <<project, plan>> pairs with final PASS evidence

----------------------------------------------------------------------------
ProjectStatus ==
    {"created", "launch_requested", "active", "completion_pending",
     "completed", "cancelled", "archived"}

\* The project and plan a ProjectCompletionRecord binds, at which revision.
CompletionRecord == [plan : Plans, revision : Nat]

\* SQL NULL is not a record.
ASSUME RecordAssumption == None \notin CompletionRecord

Project ==
    [status   : ProjectStatus \cup {"absent"},
     plan     : Plans \cup {None},           \* active_plan_request_fingerprint
     revision : Nat,
     record   : CompletionRecord \cup {None},
     from     : ProjectStatus \cup {None},   \* archived_from_status
     source   : Projects \cup {None}]        \* continued_from_project_id

AbsentProject ==
    [status |-> "absent", plan |-> None, revision |-> 0, record |-> None,
     from |-> None, source |-> None]

Operation ==
    {"create", "continue", "launch", "activate", "request_completion",
     "complete", "cancel", "archive"}

\* The statuses in which the aggregate accepts each command.
Accepts(op) ==
    CASE op \in {"create", "continue"} -> {"absent"}
      [] op = "launch"                 -> {"created"}
      [] op = "activate"               -> {"launch_requested", "active"}
      [] op = "request_completion"     -> {"active"}
      [] op = "complete"               -> {"completion_pending"}
      [] op = "cancel"                 -> {"active", "completion_pending"}
      [] op = "archive"                -> {"completed", "cancelled"}

Created(r) == [r EXCEPT !.status = "created"]

Continued(r, source) == [r EXCEPT !.status = "created", !.source = source]

Launched(r) ==
    [r EXCEPT !.status = "launch_requested", !.revision = @ + 1]

Activated(r, plan) ==
    [r EXCEPT !.status = "active", !.plan = plan, !.revision = @ + 1]

CompletionRequested(r) ==
    [r EXCEPT !.status = "completion_pending", !.revision = @ + 1]

Completed(r) ==
    [r EXCEPT !.status = "completed", !.revision = @ + 1,
              !.record = [plan |-> r.plan, revision |-> r.revision]]

Cancelled(r) == [r EXCEPT !.status = "cancelled", !.revision = @ + 1]

Archived(r) ==
    [r EXCEPT !.status = "archived", !.revision = @ + 1, !.from = r.status]

\* The aggregate that a command's method returns.
After(r, op, plan, source) ==
    CASE op = "create"             -> Created(r)
      [] op = "continue"           -> Continued(r, source)
      [] op = "launch"             -> Launched(r)
      [] op = "activate"           -> Activated(r, plan)
      [] op = "request_completion" -> CompletionRequested(r)
      [] op = "complete"           -> Completed(r)
      [] op = "cancel"             -> Cancelled(r)
      [] op = "archive"            -> Archived(r)

\* Mutated form: a cancelled project may be continued as well.
ContinuesAnyTerminal(source) ==
    project[source].status \in {"completed", "cancelled", "archived"}

\* "continuation requires an immutable completed source project"
Continuable(source) ==
    \/ project[source].status = "completed"
    \/ project[source].status = "archived" /\ project[source].from = "completed"

\* Mutated form: completion forgets the evidence of the active plan.
AllowedUnproven(p, op, plan, source) ==
    /\ op = "continue" \/ source = p
    /\ project[p].status \in Accepts(op)
    /\ op = "continue" => Continuable(source)

\* Only a continuation names another project.  request_completion and complete
\* name the active plan; completion verifies the evidence for exactly that plan.
Allowed(p, op, plan, source) ==
    /\ op = "continue" \/ source = p
    /\ project[p].status \in Accepts(op)
    /\ op \in {"request_completion", "complete"} => plan = project[p].plan
    /\ op = "complete" => <<p, plan>> \in certified
    /\ op = "continue" => Continuable(source)

----------------------------------------------------------------------------
AggregateInit ==
    /\ project = [p \in Projects |-> AbsentProject]
    /\ certified = {}

Command(p, op, plan, source) ==
    /\ Allowed(p, op, plan, source)
    /\ project[p].revision < MaxRevision
    /\ project' = [project EXCEPT ![p] = After(project[p], op, plan, source)]
    /\ UNCHANGED certified

\* The final evidence of a plan passes while the plan is the active scope; it
\* is content-addressed and never withdrawn.
Certify(p, plan) ==
    /\ project[p].status = "active"
    /\ project[p].plan = plan
    /\ certified' = certified \cup {<<p, plan>>}
    /\ UNCHANGED project

AggregateNext ==
    \E p \in Projects, plan \in Plans :
        \/ \E op \in Operation, source \in Projects : Command(p, op, plan, source)
        \/ Certify(p, plan)

\* What concurrent commands are shown to implement.
AggregateSpec == AggregateInit /\ [][AggregateNext]_<<project, certified>>

=============================================================================
