------------------------ MODULE DurableReplayLedger ------------------------
(***************************************************************************)
(* The SQL backend of the replay ledger, and the execution engine over it: *)
(* claim, run the adapter, store the outcome, abandon when storing failed. *)
(*                                                                         *)
(* try_claim reads the row and inserts it, or compare-and-sets the token   *)
(* or the status it read.  complete and abandon check the token of the row *)
(* they read, and then write the row by primary key: nothing compares the  *)
(* token when the write happens.                                           *)
(***************************************************************************)
EXTENDS ReplayLedger

CONSTANTS
    NoCall,         \* the worker is outside the ledger
    Lapsing         \* executions whose worker may outlive its lease

ASSUME DurableAssumption == Lapsing \subseteq Executions

VARIABLES
    call            \* the ledger operation each worker is in, after its read

vars == <<record, expired, held, call>>

----------------------------------------------------------------------------
\* claim: seen is the row that was read.  conclude: the row passed the token
\* check and is about to be written.  abandon: storing the outcome raised.
Call ==
    [op        : {"claim", "conclude", "abandon"},
     execution : Executions,
     seen      : LedgerRecord,
     outcome   : LedgerStatus]

TypeOK == LedgerTypeOK /\ call \in [Workers -> Call \cup {NoCall}]

Init == LedgerInit /\ call = [w \in Workers |-> NoCall]

In(w, op) == call[w] # NoCall /\ call[w].op = op

Enter(w, op, e, outcome) ==
    call' = [call EXCEPT ![w] = [op |-> op, execution |-> e,
                                 seen |-> record[e], outcome |-> outcome]]

Leave(w) == call' = [call EXCEPT ![w] = NoCall]

----------------------------------------------------------------------------
(* try_claim *)

ClaimRead(w, e) ==
    /\ call[w] = NoCall /\ held[w] = None
    /\ Claimable(e)
    /\ record[e].claims < MaxClaims
    /\ Enter(w, "claim", e, "pending")
    /\ UNCHANGED <<record, expired, held>>

\* Mutated form: a reclaim tests that the row is still pending, not its token.
ClaimMatchesStatus(c) == record[c.execution].status = c.seen.status

\* Mutated form: the row is written whatever it holds by now.
ClaimMatchesAny(c) == TRUE

\* INSERT of a free primary key; UPDATE WHERE status and, for a pending row,
\* the token are the ones that were read.
ClaimMatches(c) ==
    /\ record[c.execution].status = c.seen.status
    /\ c.seen.status = "pending" => record[c.execution].token = c.seen.token

ClaimCommit(w) ==
    LET e == call[w].execution IN
    /\ In(w, "claim")
    /\ ClaimMatches(call[w])
    /\ record[e].claims < MaxClaims
    /\ record' = [record EXCEPT ![e] = ClaimedRecord(@)]
    /\ expired' = expired \ {e}
    /\ held' = [held EXCEPT ![w] = <<e, record[e].claims + 1>>]
    /\ Leave(w)

\* IntegrityError or rowcount # 1: a replay or IN_FLIGHT, never a claim.
ClaimLost(w) ==
    /\ In(w, "claim")
    /\ ~ClaimMatches(call[w]) \/ record[call[w].execution].claims >= MaxClaims
    /\ Leave(w)
    /\ UNCHANGED <<record, expired, held>>

----------------------------------------------------------------------------
(* The adapter has returned or raised; complete_succeeded, complete_failed. *)

ConcludeRead(w, outcome) ==
    /\ call[w] = NoCall
    /\ Owns(w)
    /\ Enter(w, "conclude", held[w][1], outcome)
    /\ UNCHANGED <<record, expired, held>>

\* "claim is not pending" or "fencing token mismatch": execute tries to abandon,
\* which finds the same and gives up, and raises.
ConcludeStale(w) ==
    /\ call[w] = NoCall
    /\ held[w] # None /\ ~Owns(w)
    /\ held' = [held EXCEPT ![w] = None]
    /\ UNCHANGED <<record, expired, call>>

\* Mutated form: the fencing token is not cleared.
WrittenKeepsToken(r, c, token) ==
    [r EXCEPT !.status = c.outcome,
              !.result = IF c.outcome = "abandoned" THEN r.result ELSE token]

\* The written columns: status, token and the outcome's result; none is tested.
\* abandon sets the result of the row it read to the None it already was, so
\* the mapper leaves that column as it is by now.
Written(r, c, token) ==
    [r EXCEPT !.status = c.outcome, !.token = 0,
              !.result = IF c.outcome = "abandoned" THEN r.result ELSE token]

ConcludeWrite(w) ==
    LET c == call[w]
        e == c.execution
    IN
    /\ In(w, "conclude") \/ In(w, "abandon")
    /\ record' = [record EXCEPT ![e] = Written(@, c, held[w][2])]
    /\ expired' = expired \ {e}
    /\ held' = [held EXCEPT ![w] = None]
    /\ Leave(w)

\* The commit of an outcome raises: execute reads the row again to abandon it.
AbandonRead(w) ==
    /\ In(w, "conclude")
    /\ Owns(w)
    /\ Enter(w, "abandon", held[w][1], "abandoned")
    /\ UNCHANGED <<record, expired, held>>

\* The process dies at any point, or abandoning fails as well.
Crash(w) ==
    /\ call[w] # NoCall \/ held[w] # None
    /\ held' = [held EXCEPT ![w] = None]
    /\ Leave(w)
    /\ UNCHANGED <<record, expired>>

\* No worker that goes on running holds the current claim of e: the one that
\* took it crashed or gave up.
Unheld(e) == \A w \in Workers : held[w] # <<e, record[e].token>>

\* Time passes, and the lease of a pending claim ends: under the adapter of a
\* Lapsing execution, for every other one only when its worker is gone.
Expire(e) ==
    /\ e \in Lapsing \/ Unheld(e)
    /\ e \notin expired
    /\ Lapse(e)
    /\ UNCHANGED call

----------------------------------------------------------------------------
Next ==
    \/ \E w \in Workers :
         \/ \E e \in Executions : ClaimRead(w, e)
         \/ ClaimCommit(w) \/ ClaimLost(w)
         \/ \E outcome \in {"succeeded", "failed"} : ConcludeRead(w, outcome)
         \/ ConcludeStale(w) \/ ConcludeWrite(w) \/ AbandonRead(w)
         \/ Crash(w)
    \/ \E e \in Executions : Expire(e)

Spec == Init /\ [][Next]_vars

----------------------------------------------------------------------------
(* The atomic ledger this one implements, for the executions whose worker  *)
(* concludes within its lease or not at all.                               *)

Prompt == Executions \ Lapsing

HeldPrompt ==
    [w \in Workers |->
        IF held[w] # None /\ held[w][1] \in Prompt THEN held[w] ELSE None]

ExpiredPrompt == expired \cap Prompt

Atomic == INSTANCE ReplayLedger WITH
    Executions <- Prompt,
    record <- [e \in Prompt |-> record[e]],
    expired <- ExpiredPrompt,
    held <- HeldPrompt

\* "Implements the same fenced state machine as InMemoryReplayLedger": the
\* interleaved reads and unguarded writes of the SQL ledger are steps of the
\* atomic one, the reclaim of a crashed worker's claim included, whatever
\* happens to the executions whose worker outlives its lease.
AtomicSpec == Atomic!LedgerSpec

----------------------------------------------------------------------------
(* The inductive invariant of that argument.                               *)

\* The record carries a token exactly while it is pending, and a result of its
\* last claim exactly when an adapter's outcome was stored.
RecordIsFenced ==
    \A e \in Prompt :
        LET r == record[e] IN
        /\ r.status = "pending" <=> r.token = r.claims /\ r.token # 0
        /\ r.status # "pending" => r.token = 0
        /\ r.result = IF r.status \in {"succeeded", "failed"} THEN r.claims ELSE 0

\* A worker holds a token that was issued, and no two hold the same one.
OneHolder ==
    \A w \in Workers : held[w] # None =>
        /\ held[w][2] \in 1..record[held[w][1]].claims
        /\ \A x \in Workers \ {w} : held[x] # held[w]

\* A worker that is about to write an outcome still owns the claim whose token
\* it checked, although the write compares nothing.
WriterOwns ==
    \A w \in Workers : call[w] # NoCall /\ call[w].op # "claim" =>
        /\ held[w] # None
        /\ held[w][1] = call[w].execution
        /\ call[w].outcome \in {"succeeded", "failed", "abandoned"}
        /\ call[w].execution \in Prompt => Owns(w)

\* A claimer holds nothing, and saw a record that it may claim; if the record
\* is still the pending one it saw, its lease is over.
ClaimerSaw ==
    \A w \in Workers : call[w] # NoCall /\ call[w].op = "claim" =>
        LET e == call[w].execution
            r == call[w].seen
        IN  /\ held[w] = None
            /\ r.status # "succeeded"
            /\ r.token <= record[e].claims
            /\ r.status = "pending" /\ ClaimMatches(call[w]) => e \in expired

\* An expired claim that another worker may take has no worker left that could
\* still conclude it.
ExpiredIsUnheld == \A e \in ExpiredPrompt : Unheld(e)

FencedInv ==
    /\ TypeOK
    /\ ExpiredIsUnheld
    /\ \A e \in Executions : record[e].token <= record[e].claims
    /\ RecordIsFenced
    /\ OneHolder
    /\ WriterOwns
    /\ ClaimerSaw

----------------------------------------------------------------------------
(* What a step may never do.                                               *)

\* "the adapter is not invoked twice": a stored success is never replaced, so
\* that every later request is a replay.
SuccessIsFinal ==
    [][\A e \in Prompt :
         record[e].status = "succeeded" => record'[e] = record[e]]_vars

\* A live claim is never taken away from its holder: a second claim commits
\* only on a record that has ended or whose lease has expired.
LiveClaimNotTaken ==
    [][\A e \in Executions :
         record[e].status = "pending" /\ record'[e].claims # record[e].claims
            => e \in expired]_vars

\* "fencing tokens preventing stale workers from completing a reclaimed
\* claim": a pending claim is concluded by the worker that holds it.
ConcludedByHolder ==
    [][\A e \in Executions :
         record[e].status = "pending" /\ record'[e].status # "pending" =>
           \E w \in Workers : /\ held[w] = <<e, record[e].token>>
                              /\ held'[w] = None]_vars

=============================================================================
