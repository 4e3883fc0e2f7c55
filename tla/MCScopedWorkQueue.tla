------------------------- MODULE MCScopedWorkQueue -------------------------
(***************************************************************************)
(* Small instances of ScopedWorkQueue: one project, two plans, units of    *)
(* the first plan.                                                         *)
(***************************************************************************)
EXTENDS ScopedWorkQueue, TLC

CONSTANTS u1, w1, w2, r1, s1, s2, cap, p1, plan1, plan2

MCDependsOn == [u \in Units |-> {}]

MCRequiredCapability == [u \in Units |-> cap]

MCHasCapability == [a \in Actors |-> IF a = r1 THEN {} ELSE {cap}]

MCProjectOf == [u \in Units |-> p1]

MCPlanOf == [u \in Units |-> plan1]

\* The workers are interchangeable, and so are the sessions.
MCSymmetry == Permutations({w1, w2} \cap Actors) \cup Permutations(Sessions)

=============================================================================
