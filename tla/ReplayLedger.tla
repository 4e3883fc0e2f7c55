---------------------------- MODULE ReplayLedger ----------------------------
(***************************************************************************)
(* The execution replay ledger as its callers rely on it: the in-memory    *)
(* ledger, whose operations run under one lock and are atomic.  An         *)
(* execution id is claimed before its adapter runs, with a fresh fencing   *)
(* token and a lease; its result is stored with that token, or the claim   *)
(* is abandoned.  DurableReplayLedger "implements the same fenced state    *)
(* machine" over SQL.                                                      *)
(*                                                                         *)
(* A token is random; it is modelled by the number of the claim of its     *)
(* execution.                                                              *)
(***************************************************************************)
EXTENDS Naturals

CONSTANTS
    Executions,     \* execution_id values
    Workers,        \* processes that run the execution engine
    None,           \* the worker holds no claim
    MaxClaims       \* bound on the claims of one execution

ASSUME LedgerAssumption == MaxClaims \in Nat /\ None \notin (Executions \X Nat)

VARIABLES
    record,     \* the ledger record of each execution
    expired,    \* executions whose lease_expires_at <= now
    held        \* the claim each worker acquired: <<execution, token>>

ledgerVars == <<record, expired, held>>

----------------------------------------------------------------------------
LedgerStatus == {"empty", "pending", "succeeded", "failed", "abandoned"}

LedgerRecord ==
    [status : LedgerStatus,
     claims : Nat,      \* claims so far
     token  : Nat,      \* fencing_token, 0: None
     result : Nat]      \* the claim whose result is stored, 0: None

EmptyRecord == [status |-> "empty", claims |-> 0, token |-> 0, result |-> 0]

LedgerTypeOK ==
    /\ record \in [Executions -> LedgerRecord]
    /\ expired \subseteq Executions
    /\ held \in [Workers -> (Executions \X Nat) \cup {None}]

LedgerInit ==
    /\ record = [e \in Executions |-> EmptyRecord]
    /\ expired = {}
    /\ held = [w \in Workers |-> None]

\* Not succeeded, and not pending under a live lease.
Claimable(e) ==
    \/ record[e].status \in {"empty", "failed", "abandoned"}
    \/ record[e].status = "pending" /\ e \in expired

\* A new PENDING record with a new token and no result.
ClaimedRecord(r) ==
    [status |-> "pending", claims |-> r.claims + 1, token |-> r.claims + 1,
     result |-> 0]

TryClaim(w, e) ==
    /\ held[w] = None
    /\ Claimable(e)
    /\ record[e].claims < MaxClaims
    /\ record' = [record EXCEPT ![e] = ClaimedRecord(@)]
    /\ expired' = expired \ {e}
    /\ held' = [held EXCEPT ![w] = <<e, record[e].claims + 1>>]

\* The record is PENDING with the caller's token.
Owns(w) ==
    /\ held[w] # None
    /\ record[held[w][1]].status = "pending"
    /\ record[held[w][1]].token = held[w][2]

\* complete_succeeded and complete_failed store the result; abandon does not.
TerminalRecord(r, outcome) ==
    [r EXCEPT !.status = outcome, !.token = 0,
              !.result = IF outcome = "abandoned" THEN 0 ELSE r.token]

Conclude(w, outcome) ==
    LET e == held[w][1] IN
    /\ Owns(w)
    /\ record' = [record EXCEPT ![e] = TerminalRecord(@, outcome)]
    /\ expired' = expired \ {e}
    /\ held' = [held EXCEPT ![w] = None]

\* The operation raises or returns with nothing written, or the worker dies.
LetGo(w) ==
    /\ held[w] # None
    /\ held' = [held EXCEPT ![w] = None]
    /\ UNCHANGED <<record, expired>>

Lapse(e) ==
    /\ record[e].status = "pending"
    /\ expired' = expired \cup {e}
    /\ UNCHANGED <<record, held>>

LedgerNext ==
    \/ \E w \in Workers :
         \/ \E e \in Executions : TryClaim(w, e)
         \/ \E outcome \in {"succeeded", "failed", "abandoned"} : Conclude(w, outcome)
         \/ LetGo(w)
    \/ \E e \in Executions : Lapse(e)

LedgerSpec == LedgerInit /\ [][LedgerNext]_ledgerVars

=============================================================================
