------------------------ MODULE MCFactoryIntegration ------------------------
(***************************************************************************)
(* Small instances of FactoryIntegration.                                  *)
(***************************************************************************)
EXTENDS FactoryIntegration, TLC

CONSTANTS b1

MCKeys == Plans \cup Deliveries

MCRequests == Plans \cup Shipment

\* Both plans name the same branch.
MCBranchOf == [p \in Plans |-> b1]

\* Workers and payloads are interchangeable.
MCSymmetry == Permutations(Workers) \cup Permutations(Payloads)

=============================================================================
