------------------------- MODULE MCProjectCommands -------------------------
(* Small instances of ProjectCommands. *)
EXTENDS ProjectCommands, TLC

CONSTANTS p1, p2, s1, s2

\* The sessions are interchangeable, and so are the plans.
MCSymmetry == Permutations({s1, s2}) \cup Permutations(Plans)

\* Command ids are numbers and interchangeable: a command that is no retry of
\* one in use takes the smallest unused id.
MCFreshIsSmallest ==
    LET used == receipts \cup {tx[s].command : s \in {z \in Sessions : tx[z] # NoTx}}
    IN \A s \in Sessions : tx[s] = NoTx /\ tx'[s] # NoTx =>
         \/ tx'[s].command \in used \cup Denied
         \/ \A c \in CommandIds \ (used \cup Denied) : tx'[s].command <= c

\* The second project comes to life as a continuation of the first.
MCOneLineage ==
    \A s \in Sessions : tx[s] = NoTx /\ tx'[s] # NoTx /\ tx'[s].project = p2
        => tx'[s].denied \/ tx'[s].after.source = p1 \/ project[p2].status # "absent"

\* One denial is recorded, once p1 is completed.
MCOneDenial ==
    \A s \in Sessions : tx[s] = NoTx /\ tx'[s] # NoTx /\ tx'[s].denied =>
        /\ tx'[s].project = p1
        /\ \A i \in DOMAIN events[p1] : events[p1][i].command \notin Denied
        /\ \A z \in Sessions : tx[z] # NoTx => ~tx[z].denied
        /\ project[p1].status = "completed"

\* An active plan is not activated again: with one plan that gives the same row
\* at a later revision.  Two activations of a launched project still race.
MCOneActivation ==
    \A s \in Sessions : tx[s] = NoTx /\ tx'[s] # NoTx /\ tx'[s].after.status = "active"
        => project[tx'[s].project].status = "launch_requested"

=============================================================================
