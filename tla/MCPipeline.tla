----------------------------- MODULE MCPipeline -----------------------------
(* Instances of Pipeline for TLC: one API process, whose request threads   *)
(* are interchangeable, as are worker processes and rework reasons.        *)
EXTENDS Pipeline, TLC

(* Users approve the requirements and approve or reject the architecture.  *)
MCDecisions ==
    {<<"requirements", "approved">>,
     <<"architecture", "approved">>, <<"architecture", "rejected">>}

(* All request threads belong to the one API process.                      *)
MCHome == [t \in Requests |-> CHOOSE p \in Apis : TRUE]

ProcessSymmetry == Permutations(Requests) \cup Permutations(Workers) \cup Permutations(Reasons)
=============================================================================
