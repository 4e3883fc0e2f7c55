---------------------------- MODULE SideEffects ----------------------------
(***************************************************************************)
(* The receipt boundary of terminal side effects (deployments, releases):  *)
(* SideEffectCoordinator.execute over the SQL store of receipts.           *)
(*                                                                         *)
(* A worker claims the receipt of an idempotency key with a fresh fencing  *)
(* token, runs the external operation, and completes or fails the receipt  *)
(* with that token.  The claim is an INSERT; when the key exists, a second *)
(* transaction reads the receipt and may take over a failed or an expired  *)
(* one with an UPDATE that tests the token it read, and only the token.    *)
(*                                                                         *)
(* A token is random; it is modelled by the number of the claim that made  *)
(* it.  Finishing a receipt does not clear its token.                      *)
(***************************************************************************)
EXTENDS Naturals

CONSTANTS
    Keys,           \* (organization_id, action, idempotency_key)
    Workers,        \* processes that run pipeline tasks
    Requests,       \* request_fingerprint values
    None,           \* no call
    MaxClaims,      \* bound on the claims of one key
    Retaken,        \* bound: the keys that are claimed more than once
    Lapsing         \* the keys whose operation may outlive its lease

ASSUME SideEffectsAssumption ==
    MaxClaims \in Nat /\ Retaken \subseteq Keys /\ Lapsing \subseteq Keys

VARIABLES
    receipt,    \* terminal_side_effects
    expired,    \* keys whose receipt has lease_expires_at <= now
    call,       \* the execute() call of each worker
    effects     \* the claims of each key whose operation has taken effect

vars == <<receipt, expired, call, effects>>

----------------------------------------------------------------------------
Receipt ==
    [status  : {"absent", "in_progress", "completed", "failed"},
     request : Requests \cup {None},
     token   : Nat,
     result  : Nat]      \* the claim whose result is stored, 0: NULL

NoReceipt == [status |-> "absent", request |-> None, token |-> 0, result |-> 0]

\* recovering: the receipt was read and may be taken over.
\* running: in operation().  returned, raised: operation() ended.
Call ==
    [pc      : {"recovering", "running", "returned", "raised"},
     key     : Keys,
     request : Requests,
     token   : Nat]      \* recovering: the token that was read

TypeOK ==
    /\ receipt \in [Keys -> Receipt]
    /\ expired \subseteq Keys
    /\ call \in [Workers -> Call \cup {None}]
    /\ effects \in [Keys -> SUBSET Nat]

Init ==
    /\ receipt = [k \in Keys |-> NoReceipt]
    /\ expired = {}
    /\ call = [w \in Workers |-> None]
    /\ effects = [k \in Keys |-> {}]

At(w, pc) == call[w] # None /\ call[w].pc = pc

Fresh(k) == receipt[k].token + 1

Run(w, k, request) ==
    call' = [call EXCEPT ![w] = [pc |-> "running", key |-> k,
                                 request |-> request, token |-> Fresh(k)]]

Return(w) == call' = [call EXCEPT ![w] = None]

\* Worker w is past its claim of k: in operation() or about to store its end.
Active(w, k) == call[w] # None /\ call[w].key = k /\ call[w].pc # "recovering"

----------------------------------------------------------------------------
(* claim *)

\* INSERT: the primary key elects the first claimant.
InsertReceipt(w, k, request) ==
    /\ call[w] = None
    /\ receipt[k].status = "absent"
    /\ receipt' = [receipt EXCEPT ![k] =
                     [status |-> "in_progress", request |-> request,
                      token |-> Fresh(k), result |-> 0]]
    /\ Run(w, k, request)
    /\ UNCHANGED <<expired, effects>>

\* Mutated form: a completed receipt is carried out again.
RecoverableCompleted(k, request) ==
    /\ receipt[k].request = request
    /\ \/ receipt[k].status \in {"failed", "completed"}
       \/ receipt[k].status = "in_progress" /\ k \in expired

\* Mutated form: the lease of a receipt in progress is not looked at.
RecoverableLive(k, request) ==
    /\ receipt[k].request = request
    /\ receipt[k].status \in {"failed", "in_progress"}

\* Mutated form: a key may be rebound to another request.
RecoverableByAnyone(k, request) ==
    \/ receipt[k].status = "failed"
    \/ receipt[k].status = "in_progress" /\ k \in expired

\* The early returns of the second transaction: another request is a conflict,
\* a completed receipt is replayed, a live lease is in progress.
Recoverable(k, request) ==
    /\ receipt[k].request = request
    /\ \/ receipt[k].status = "failed"
       \/ receipt[k].status = "in_progress" /\ k \in expired

ReadReceipt(w, k, request) ==
    /\ call[w] = None
    /\ Recoverable(k, request)
    /\ receipt[k].token < MaxClaims /\ k \in Retaken
    /\ call' = [call EXCEPT ![w] = [pc |-> "recovering", key |-> k,
                                    request |-> request,
                                    token |-> receipt[k].token]]
    /\ UNCHANGED <<receipt, expired, effects>>

\* Mutated form: the take-over tests nothing.
TokenUnchecked(c) == TRUE

\* WHERE fencing_token = old_token
TokenUnchanged(c) == receipt[c.key].token = c.token

Taken(r, c) ==
    [r EXCEPT !.status = "in_progress", !.token = Fresh(c.key)]

TakeOver(w) ==
    LET c == call[w] IN
    /\ At(w, "recovering")
    /\ TokenUnchanged(c)
    /\ receipt' = [receipt EXCEPT ![c.key] = Taken(@, c)]
    /\ expired' = expired \ {c.key}
    /\ Run(w, c.key, c.request)
    /\ UNCHANGED effects

\* rowcount # 1: "side-effect lease changed during recovery"
LoseTakeOver(w) ==
    /\ At(w, "recovering")
    /\ ~TokenUnchanged(call[w])
    /\ Return(w)
    /\ UNCHANGED <<receipt, expired, effects>>

----------------------------------------------------------------------------
(* operation, complete and fail *)

\* The external mutation takes effect.
Mutate(w) ==
    /\ At(w, "running")
    /\ call[w].token \notin effects[call[w].key]
    /\ effects' = [effects EXCEPT ![call[w].key] = @ \cup {call[w].token}]
    /\ UNCHANGED <<receipt, expired, call>>

\* operation() returns, or raises, having mutated or not: a deployment raises
\* after its push as well as before it.
OperationEnds(w, pc) ==
    /\ At(w, "running")
    /\ call' = [call EXCEPT ![w].pc = pc]
    /\ UNCHANGED <<receipt, expired, effects>>

OperationReturns(w) == OperationEnds(w, "returned")

OperationRaises(w) == OperationEnds(w, "raised")

\* WHERE request_fingerprint, fencing_token and status = 'in_progress'
Owns(c) ==
    /\ receipt[c.key].request = c.request
    /\ receipt[c.key].token = c.token
    /\ receipt[c.key].status = "in_progress"

Finished(r, c) ==
    IF c.pc = "returned"
    THEN [r EXCEPT !.status = "completed", !.result = c.token]
    ELSE [r EXCEPT !.status = "failed", !.result = 0]

\* One fenced UPDATE, which also ends the lease.
Finish(w) ==
    LET c == call[w] IN
    /\ At(w, "returned") \/ At(w, "raised")
    /\ Owns(c)
    /\ receipt' = [receipt EXCEPT ![c.key] = Finished(@, c)]
    /\ expired' = expired \cup {c.key}
    /\ Return(w)
    /\ UNCHANGED effects

\* "stale side-effect fencing token": nothing is written.
FinishStale(w) ==
    /\ At(w, "returned") \/ At(w, "raised")
    /\ ~Owns(call[w])
    /\ Return(w)
    /\ UNCHANGED <<receipt, expired, effects>>

\* The process dies, or its database does: the lease is retained.
Crash(w) ==
    /\ call[w] # None
    /\ Return(w)
    /\ UNCHANGED <<receipt, expired, effects>>

\* Time passes, and the lease of a receipt in progress ends: under the operation
\* of a Lapsing key, for every other key when its worker crashed or gave up.
Expire(k) ==
    /\ k \in Lapsing \/ \A w \in Workers : ~Active(w, k)
    /\ receipt[k].status = "in_progress"
    /\ k \notin expired
    /\ expired' = expired \cup {k}
    /\ UNCHANGED <<receipt, call, effects>>

----------------------------------------------------------------------------
Claim(w) ==
    \/ \E k \in Keys, request \in Requests :
         InsertReceipt(w, k, request) \/ ReadReceipt(w, k, request)
    \/ TakeOver(w)
    \/ LoseTakeOver(w)

Next ==
    \/ \E w \in Workers :
         \/ Claim(w)
         \/ Mutate(w) \/ OperationReturns(w) \/ OperationRaises(w)
         \/ Finish(w) \/ FinishStale(w)
         \/ Crash(w)
    \/ \E k \in Keys : Expire(k)

Spec == Init /\ [][Next]_vars

----------------------------------------------------------------------------
(* Safety.                                                                 *)

\* "Concurrent workers cannot run two integration suites or publish two
\* integration branches": where the lease outlives the operation, at most one
\* call of a key is past its claim, also while a failed receipt or one whose
\* worker crashed is taken over by several workers at once.
OneOperationAtATime ==
    \A k \in Keys \ Lapsing, v, w \in Workers :
        Active(v, k) /\ Active(w, k) => v = w

\* "Reusing that key with changed repository, release, environment, target,
\* patch or PR metadata is rejected": whatever runs or has run under a key, and
\* however often it was taken over, is the request its receipt is bound to.
OneRequestPerKey ==
    \A w \in Workers : call[w] # None /\ call[w].pc # "recovering" =>
        call[w].request = receipt[call[w].key].request

\* "Worker B attempting the same task is rejected while A's lease is valid":
\* a receipt in progress gets another token only when its lease has expired
\* at that moment, also when B had read an earlier, failed receipt.
LiveLeaseNotTaken ==
    [][\A k \in Keys :
         receipt[k].status = "in_progress" /\ receipt'[k].token # receipt[k].token
            => k \in expired]_vars

\* Where the lease outlives the operation, a completed receipt stays and nothing
\* mutates after it: a mutation is repeated only when the call that made it
\* ended without a completed receipt.
CompletedIsFinal ==
    [][\A k \in Keys \ Lapsing : receipt[k].status = "completed" =>
         receipt'[k] = receipt[k] /\ effects'[k] = effects[k]]_vars

\* "Later delivery of the same task replays the stored receipt without
\* invoking Docker, Compose or GitHub again": a completed receipt stays,
\* whatever its operation's lease.
CompletedIsReplayed ==
    [][\A k \in Keys : receipt[k].status = "completed" =>
         receipt'[k] = receipt[k]]_vars

=============================================================================
