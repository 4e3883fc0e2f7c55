-------------------------- MODULE MCDatabaseQueue --------------------------
(* Small instances of DatabaseQueue. *)
EXTENDS DatabaseQueue, TLC

\* PostgreSQL alone, and both databases with an operator.
MCDeployments ==
    {[rowLocks |-> TRUE, operator |-> FALSE],
     [rowLocks |-> TRUE, operator |-> TRUE], [rowLocks |-> FALSE, operator |-> TRUE]}

=============================================================================
