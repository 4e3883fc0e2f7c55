--------------------------- MODULE MCSideEffects ---------------------------
(***************************************************************************)
(* Small instances of SideEffects.                                         *)
(***************************************************************************)
EXTENDS SideEffects, TLC

\* Workers and requests are interchangeable.
MCSymmetry == Permutations(Workers) \cup Permutations(Requests)

=============================================================================
