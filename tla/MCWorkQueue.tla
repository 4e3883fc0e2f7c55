---------------------------- MODULE MCWorkQueue ----------------------------
(***************************************************************************)
(* Small instances of WorkQueue.  Two workers share one capability and a   *)
(* third identity has none: it can review but never work.                  *)
(***************************************************************************)
EXTENDS WorkQueue, TLC

CONSTANTS u1, u2, w1, w2, r1, s1, s2, cap, v1, v2

\* u2 builds on u1.
MCDependsOn == [u \in Units |-> IF u = u2 THEN {u1} ELSE {}]

MCRequiredCapability == [u \in Units |-> cap]

MCHasCapability == [a \in Actors |-> IF a = r1 THEN {} ELSE {cap}]

\* w1 and w2 are interchangeable, and so are the sessions and the versions.
MCSymmetry ==
    Permutations({w1, w2}) \cup Permutations({s1, s2})
        \cup Permutations(Versions)

=============================================================================
