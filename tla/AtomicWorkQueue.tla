-------------------------- MODULE AtomicWorkQueue --------------------------
(***************************************************************************)
(* What Work Queue v0 promises to a worker or a reviewer: every service    *)
(* call that answers with a unit has acted on that unit in one instant,    *)
(* with all its conditions true at that instant.                           *)
(*                                                                         *)
(* There are no sessions, no revisions, no stamps and no lease ids here: a *)
(* unit has an owner while it is CLAIMED, and the owner's tenure may       *)
(* lapse.  WorkQueue, whose calls read in one step and write in another,   *)
(* is shown to implement this.                                             *)
(***************************************************************************)
EXTENDS Naturals

CONSTANTS
    Units, Actors, Versions, None,
    DependsOn,            \* the units each unit builds on
    RequiredCapability,   \* the capability each unit asks for
    HasCapability         \* the capabilities each actor presents

VARIABLES
    item,     \* the work unit under each id
    lapsed    \* the CLAIMED units whose owner's tenure has expired

vars == <<item, lapsed>>

NoInput == [d \in Units |-> None]

Absent ==
    [state |-> "ABSENT", owner |-> None, input |-> NoInput, artifact |-> None,
     previous |-> None, reworks |-> 0]

Init ==
    /\ item = [u \in Units |-> Absent]
    /\ lapsed = {}

Eligible(u, w) == RequiredCapability[u] \in HasCapability[w]

\* Unit u becomes i, and whatever tenure it has starts or ends now.
Becomes(u, i) ==
    /\ item' = [item EXCEPT ![u] = i]
    /\ lapsed' = lapsed \ {u}

Add(u) ==
    /\ item[u].state = "ABSENT"
    /\ Becomes(u, [Absent EXCEPT !.state = "PENDING"])

\* An eligible worker takes a unit all of whose dependencies are approved at
\* this instant, and takes with it the versions they are approved at.
Claim(u, w) ==
    /\ Eligible(u, w)
    /\ item[u].state = "PENDING"
    /\ \A d \in DependsOn[u] :
         item[d].state = "APPROVED" /\ item[d].artifact # None
    /\ \E input \in [Units -> Versions \cup {None}] :
         /\ \A d \in DependsOn[u] : input[d] = item[d].artifact
         /\ Becomes(u, [item[u] EXCEPT !.state = "CLAIMED", !.owner = w,
                                       !.input = input])

\* Only the owner renews a tenure.  The services look at the clock when they
\* read, so the renewal may come after the lapse: nobody has taken over.
Renew(u, w) ==
    /\ item[u].state = "CLAIMED"
    /\ item[u].owner = w
    /\ Becomes(u, item[u])

\* An eligible worker replaces an owner whose tenure is over.
Recover(u, w) ==
    /\ Eligible(u, w)
    /\ item[u].state = "CLAIMED"
    /\ u \in lapsed
    /\ Becomes(u, [item[u] EXCEPT !.owner = w, !.previous = item[u].owner])

Submit(u, w, v) ==
    /\ item[u].state = "CLAIMED"
    /\ item[u].owner = w
    /\ Becomes(u, [item[u] EXCEPT !.state = "AWAITING_REVIEW", !.owner = None,
                                  !.artifact = v, !.previous = w])

\* Somebody else than the submitter decides about the version under review.
Review(u, a, v, verdict) ==
    /\ item[u].state = "AWAITING_REVIEW"
    /\ item[u].artifact = v
    /\ item[u].previous # a
    /\ Becomes(u, [item[u] EXCEPT !.state = verdict])

\* The first rework is the submitter's unless the orchestrator overrides.
Rework(u, w, override) ==
    /\ Eligible(u, w)
    /\ item[u].state = "REJECTED"
    /\ item[u].reworks # 0 \/ item[u].previous = w \/ override
    /\ Becomes(u, [item[u] EXCEPT !.state = "CLAIMED", !.owner = w,
                                  !.artifact = None,
                                  !.reworks = item[u].reworks + 1])

Lapse(u) ==
    /\ item[u].state = "CLAIMED"
    /\ lapsed' = lapsed \cup {u}
    /\ UNCHANGED item

Next ==
    \E u \in Units :
        \/ Add(u)
        \/ Lapse(u)
        \/ \E w \in Actors :
             \/ Claim(u, w)
             \/ Renew(u, w)
             \/ Recover(u, w)
             \/ \E v \in Versions :
                  \/ Submit(u, w, v)
                  \/ \E verdict \in {"APPROVED", "REJECTED"} :
                       Review(u, w, v, verdict)
             \/ \E override \in BOOLEAN : Rework(u, w, override)

Spec == Init /\ [][Next]_vars

=============================================================================
