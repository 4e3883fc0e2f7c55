--------------------------- MODULE MCReplayLedger ---------------------------
(***************************************************************************)
(* Small instances of DurableReplayLedger.                                 *)
(***************************************************************************)
EXTENDS DurableReplayLedger, TLC

\* Workers are interchangeable.
MCSymmetry == Permutations(Workers)

=============================================================================
