------------------------- MODULE SideEffectsProofs -------------------------
(***************************************************************************)
(* The receipt boundary for any keys, workers, requests and number of      *)
(* claims.                                                                 *)
(*                                                                         *)
(* A call acts on what it read in an earlier transaction, so the invariant *)
(* says what it still knows.  CallsBound: the receipt of a call exists, is *)
(* bound to its request and never has an older token; a take-over whose    *)
(* token still matches a receipt in progress has an expired lease before   *)
(* it.  Solo, for the keys whose lease outlives the operation: at most one *)
(* call is past its claim, it owns a receipt whose lease is live, and no   *)
(* take-over matches a completed receipt.                                  *)
(***************************************************************************)
EXTENDS SideEffects, TLAPS

CallIsBound(c) ==
    /\ receipt[c.key].status # "absent"
    /\ c.request = receipt[c.key].request
    /\ c.token <= receipt[c.key].token
    /\ c.pc = "recovering" /\ receipt[c.key].status = "in_progress"
         /\ c.token = receipt[c.key].token => c.key \in expired

CallsBound == \A w \in Workers : call[w] # None => CallIsBound(call[w])

Solo(k) ==
    /\ receipt[k].status = "absent" => k \notin expired
    /\ \A w \in Workers : Active(w, k) =>
         /\ call[w].token = receipt[k].token
         /\ receipt[k].status = "in_progress"
         /\ k \notin expired
    /\ \A v, w \in Workers : Active(v, k) /\ Active(w, k) => v = w
    /\ \A w \in Workers :
         call[w] # None /\ call[w].key = k /\ call[w].pc = "recovering"
           /\ call[w].token = receipt[k].token => receipt[k].status # "completed"

ReceiptInv ==
    /\ TypeOK
    /\ CallsBound
    /\ \A k \in Keys \ Lapsing : Solo(k)

USE SideEffectsAssumption

\* No receipt and no call exist at the start.
LEMMA InitReceipts == Init => ReceiptInv
BY DEF Init, ReceiptInv, TypeOK, CallsBound, Solo, Active, NoReceipt, Receipt

\* The first claimant binds the key to its request and is the only caller.
LEMMA InsertReceiptPreserves ==
    ASSUME ReceiptInv, NEW w \in Workers,
           NEW key \in Keys, NEW request \in Requests, InsertReceipt(w, key, request)
    PROVE  ReceiptInv'
<1> USE DEF ReceiptInv, InsertReceipt, Fresh, Run
<1>1. TypeOK'
  BY DEF TypeOK, Receipt, Call
<1>2. CallsBound'
  BY DEF TypeOK, Receipt, Call, CallsBound, CallIsBound
<1>3. ASSUME NEW k \in Keys \ Lapsing PROVE Solo(k)'
  BY <1>3 DEF TypeOK, Receipt, Call, CallsBound, CallIsBound, Solo, Active
<1>4. QED
  BY <1>1, <1>2, <1>3

\* A reader remembers the token of a receipt that failed or has expired.
LEMMA ReadReceiptPreserves ==
    ASSUME ReceiptInv, NEW w \in Workers,
           NEW key \in Keys, NEW request \in Requests, ReadReceipt(w, key, request)
    PROVE  ReceiptInv'
<1> USE DEF ReceiptInv, ReadReceipt, Recoverable
<1>1. TypeOK'
  BY DEF TypeOK, Receipt, Call
<1>2. CallsBound'
  BY DEF TypeOK, Receipt, Call, CallsBound, CallIsBound
<1>3. ASSUME NEW k \in Keys \ Lapsing PROVE Solo(k)'
  BY <1>3 DEF TypeOK, Receipt, Call, CallsBound, CallIsBound, Solo, Active
<1>4. QED
  BY <1>1, <1>2, <1>3

\* The token test lets one reader take the receipt over, with a fresh token.
LEMMA TakeOverPreserves ==
    ASSUME ReceiptInv, NEW w \in Workers, TakeOver(w)
    PROVE  ReceiptInv'
<1> USE DEF ReceiptInv, TakeOver, At, TokenUnchanged, Taken, Fresh, Run
<1>1. TypeOK'
  <2>1. call[w] \in Call /\ receipt[call[w].key] \in Receipt
    BY DEF TypeOK, Call
  <2>2. receipt[call[w].key].token + 1 \in Nat
    BY <2>1 DEF Receipt
  <2>3. ASSUME NEW r \in Receipt, NEW t \in Nat
        PROVE  [r EXCEPT !.status = "in_progress", !.token = t] \in Receipt
    BY DEF Receipt
  <2>4. Taken(receipt[call[w].key], call[w]) \in Receipt
    BY <2>1, <2>2, <2>3
  <2>5. call' \in [Workers -> Call \cup {None}]
    BY <2>1 DEF TypeOK, Receipt, Call
  <2>6. QED
    BY <2>1, <2>4, <2>5 DEF TypeOK, Call
<1>2. CallsBound'
  BY DEF TypeOK, Receipt, Call, CallsBound, CallIsBound
<1>3. ASSUME NEW k \in Keys \ Lapsing PROVE Solo(k)'
  BY <1>3 DEF TypeOK, Receipt, Call, CallsBound, CallIsBound, Solo, Active
<1>4. QED
  BY <1>1, <1>2, <1>3

\* A reader whose token is gone leaves without touching the receipt.
LEMMA LoseTakeOverPreserves ==
    ASSUME ReceiptInv, NEW w \in Workers, LoseTakeOver(w)
    PROVE  ReceiptInv'
<1> USE DEF ReceiptInv, LoseTakeOver, At, Return
<1>1. TypeOK'
  BY DEF TypeOK, Receipt, Call
<1>2. CallsBound'
  BY DEF TypeOK, Receipt, Call, CallsBound, CallIsBound
<1>3. ASSUME NEW k \in Keys \ Lapsing PROVE Solo(k)'
  BY <1>3 DEF TypeOK, Receipt, Call, CallsBound, CallIsBound, Solo, Active
<1>4. QED
  BY <1>1, <1>2, <1>3

\* A mutation leaves every receipt and call as it is.
LEMMA MutatePreserves ==
    ASSUME ReceiptInv, NEW w \in Workers, Mutate(w)
    PROVE  ReceiptInv'
<1> USE DEF ReceiptInv, Mutate, At
<1>1. TypeOK'
  BY DEF TypeOK, Receipt, Call
<1>2. CallsBound'
  BY DEF TypeOK, Receipt, Call, CallsBound, CallIsBound
<1>3. ASSUME NEW k \in Keys \ Lapsing PROVE Solo(k)'
  BY <1>3 DEF Solo, Active
<1>4. QED
  BY <1>1, <1>2, <1>3

\* operation() ends within its call.
LEMMA OperationEndsPreserves ==
    ASSUME ReceiptInv, NEW w \in Workers, NEW pc \in {"returned", "raised"},
           OperationEnds(w, pc)
    PROVE  ReceiptInv'
<1> USE DEF ReceiptInv, OperationEnds, At
<1>1. TypeOK'
  BY DEF TypeOK, Receipt, Call
<1>2. CallsBound'
  BY DEF TypeOK, Receipt, Call, CallsBound, CallIsBound
<1>3. ASSUME NEW k \in Keys \ Lapsing PROVE Solo(k)'
  BY <1>3 DEF TypeOK, Receipt, Call, CallsBound, CallIsBound, Solo, Active
<1>4. QED
  BY <1>1, <1>2, <1>3

\* The owner stores the result or the failure under its token.
LEMMA FinishPreserves ==
    ASSUME ReceiptInv, NEW w \in Workers, Finish(w)
    PROVE  ReceiptInv'
<1> USE DEF ReceiptInv, Finish, At, Owns, Finished, Return
<1>1. TypeOK'
  <2>1. call[w] \in Call /\ receipt[call[w].key] \in Receipt
    BY DEF TypeOK, Call
  <2>2. Finished(receipt[call[w].key], call[w]) \in Receipt
    BY <2>1 DEF Receipt, Call
  <2>3. QED
    BY <2>1, <2>2 DEF TypeOK, Call
<1>2. CallsBound'
  BY DEF TypeOK, Receipt, Call, CallsBound, CallIsBound
<1>3. ASSUME NEW k \in Keys \ Lapsing PROVE Solo(k)'
  BY <1>3 DEF TypeOK, Receipt, Call, CallsBound, CallIsBound, Solo, Active
<1>4. QED
  BY <1>1, <1>2, <1>3

\* A caller that lost its receipt leaves the new owner its receipt.
LEMMA FinishStalePreserves ==
    ASSUME ReceiptInv, NEW w \in Workers, FinishStale(w)
    PROVE  ReceiptInv'
<1> USE DEF ReceiptInv, FinishStale, At, Return
<1>1. TypeOK'
  BY DEF TypeOK, Receipt, Call
<1>2. CallsBound'
  BY DEF TypeOK, Receipt, Call, CallsBound, CallIsBound
<1>3. ASSUME NEW k \in Keys \ Lapsing PROVE Solo(k)'
  BY <1>3 DEF TypeOK, Receipt, Call, CallsBound, CallIsBound, Solo, Active
<1>4. QED
  BY <1>1, <1>2, <1>3

\* A dead process leaves its receipt in progress.
LEMMA CrashPreserves ==
    ASSUME ReceiptInv, NEW w \in Workers, Crash(w)
    PROVE  ReceiptInv'
<1> USE DEF ReceiptInv, Crash, Return
<1>1. TypeOK'
  BY DEF TypeOK, Receipt, Call
<1>2. CallsBound'
  BY DEF TypeOK, Receipt, Call, CallsBound, CallIsBound
<1>3. ASSUME NEW k \in Keys \ Lapsing PROVE Solo(k)'
  BY <1>3 DEF TypeOK, Receipt, Call, CallsBound, CallIsBound, Solo, Active
<1>4. QED
  BY <1>1, <1>2, <1>3

\* A key that does not lapse expires only when no call is past its claim.
LEMMA ExpirePreserves ==
    ASSUME ReceiptInv, NEW key \in Keys, Expire(key)
    PROVE  ReceiptInv'
<1> USE DEF ReceiptInv, Expire
<1>1. TypeOK'
  BY DEF TypeOK, Receipt, Call
<1>2. CallsBound'
  BY DEF TypeOK, Receipt, Call, CallsBound, CallIsBound
<1>3. ASSUME NEW k \in Keys \ Lapsing PROVE Solo(k)'
  BY <1>3 DEF TypeOK, Receipt, Call, CallsBound, CallIsBound, Solo, Active
<1>4. QED
  BY <1>1, <1>2, <1>3

----------------------------------------------------------------------------
\* Every step of a claim, an operation, a finish, a crash or the clock preserves
\* the invariant.
LEMMA ReceiptStep == ReceiptInv /\ [Next]_vars => ReceiptInv'
<1> SUFFICES ASSUME ReceiptInv, [Next]_vars PROVE ReceiptInv'
  OBVIOUS
<1>1. ASSUME NEW w \in Workers, Claim(w) PROVE ReceiptInv'
  BY <1>1, InsertReceiptPreserves, ReadReceiptPreserves, TakeOverPreserves,
     LoseTakeOverPreserves DEF Claim
<1>2. ASSUME NEW w \in Workers, Mutate(w) \/ OperationReturns(w) \/ OperationRaises(w)
      PROVE  ReceiptInv'
  BY <1>2, MutatePreserves, OperationEndsPreserves
     DEF OperationReturns, OperationRaises
<1>3. ASSUME NEW w \in Workers, Finish(w) \/ FinishStale(w) \/ Crash(w)
      PROVE  ReceiptInv'
  BY <1>3, FinishPreserves, FinishStalePreserves, CrashPreserves
<1>4. CASE UNCHANGED vars
  BY <1>4 DEF vars, ReceiptInv, TypeOK, CallsBound, CallIsBound, Solo, Active
<1>5. QED
  BY <1>1, <1>2, <1>3, <1>4, ExpirePreserves DEF Next

\* The receipt boundary's inductive invariant holds in every reachable state:
\* what a call read about its receipt still stands when it writes.
THEOREM ReceiptInvariant == Spec => []ReceiptInv
BY InitReceipts, ReceiptStep, PTL DEF Spec

\* "Reusing that key with changed ... metadata is rejected": whatever runs under
\* a key is the request its receipt is bound to, however often it is taken over.
THEOREM RequestBinding == Spec => []OneRequestPerKey
<1>1. ReceiptInv => OneRequestPerKey
  BY DEF ReceiptInv, TypeOK, CallsBound, CallIsBound, OneRequestPerKey
<1>2. QED
  BY <1>1, ReceiptInvariant, PTL

\* Where the lease outlives the operation, at most one call of a key is past its
\* claim, through failures, crashes, expiry and racing take-overs.
THEOREM SingleOperation == Spec => []OneOperationAtATime
<1>1. ReceiptInv => OneOperationAtATime
  BY DEF ReceiptInv, Solo, OneOperationAtATime
<1>2. QED
  BY <1>1, ReceiptInvariant, PTL

\* Where the lease outlives the operation, a completed receipt stays, and
\* nothing mutates after it.
THEOREM CompletionIsFinal == Spec => CompletedIsFinal
<1>1. ReceiptInv /\ [Next]_vars =>
        [\A k \in Keys \ Lapsing : receipt[k].status = "completed" =>
           receipt'[k] = receipt[k] /\ effects'[k] = effects[k]]_vars
  <2> SUFFICES ASSUME ReceiptInv, Next, NEW k \in Keys \ Lapsing,
                      receipt[k].status = "completed"
               PROVE  receipt'[k] = receipt[k] /\ effects'[k] = effects[k]
    BY DEF vars
  <2>1. ASSUME NEW w \in Workers, NEW x \in Keys, NEW request \in Requests,
               InsertReceipt(w, x, request)
        PROVE  receipt'[k] = receipt[k] /\ effects' = effects
    BY <2>1 DEF InsertReceipt, ReceiptInv, TypeOK
  <2>2. ASSUME NEW w \in Workers, TakeOver(w)
        PROVE  receipt'[k] = receipt[k] /\ effects' = effects
    <3>1. call[w].key # k
      BY <2>2 DEF TakeOver, At, TokenUnchanged, ReceiptInv, Solo
    <3>2. QED
      BY <2>2, <3>1 DEF TakeOver, ReceiptInv, TypeOK
  <2>3. ASSUME NEW w \in Workers, Finish(w)
        PROVE  receipt'[k] = receipt[k] /\ effects' = effects
    BY <2>3 DEF Finish, Owns, ReceiptInv, TypeOK
  <2>4. ASSUME NEW w \in Workers, Mutate(w)
        PROVE  receipt' = receipt /\ effects'[k] = effects[k]
    <3>1. call[w].key # k
      BY <2>4 DEF Mutate, At, Active, ReceiptInv, Solo
    <3>2. QED
      BY <2>4, <3>1 DEF Mutate, ReceiptInv, TypeOK
  <2>5. QED
    BY <2>1, <2>2, <2>3, <2>4
       DEF Next, Claim, ReadReceipt, LoseTakeOver, OperationReturns,
           OperationRaises, OperationEnds, FinishStale, Crash, Expire
<1>2. QED
  BY <1>1, ReceiptInvariant, PTL DEF Spec, CompletedIsFinal

\* A claim of the SQL store never takes a live lease, also when it had read an
\* earlier, failed receipt.
THEOREM LiveLeasesAreKept == Spec => LiveLeaseNotTaken
<1>1. ReceiptInv /\ [Next]_vars =>
        [\A k \in Keys :
           receipt[k].status = "in_progress" /\ receipt'[k].token # receipt[k].token
             => k \in expired]_vars
  <2> SUFFICES ASSUME ReceiptInv, Next, NEW k \in Keys,
                      receipt[k].status = "in_progress",
                      receipt'[k].token # receipt[k].token
               PROVE  k \in expired
    BY DEF vars
  <2>1. PICK w \in Workers : TakeOver(w) /\ call[w].key = k
    <3>1. receipt # receipt'
      OBVIOUS
    <3>2. ASSUME NEW w \in Workers, NEW x \in Keys, NEW request \in Requests,
                 InsertReceipt(w, x, request)
          PROVE  FALSE
      BY <3>2 DEF InsertReceipt, ReceiptInv, TypeOK
    <3>3. ASSUME NEW w \in Workers, Finish(w) PROVE FALSE
      BY <3>3 DEF Finish, Finished, At, ReceiptInv, TypeOK, Receipt, Call
    <3>4. ASSUME NEW w \in Workers, TakeOver(w) PROVE call[w].key = k
      BY <3>4 DEF TakeOver, Taken, At, ReceiptInv, TypeOK, Receipt, Call
    <3>5. QED
      BY <3>1, <3>2, <3>3, <3>4
         DEF Next, Claim, ReadReceipt, LoseTakeOver, Mutate, OperationReturns,
             OperationRaises, OperationEnds, FinishStale, Crash, Expire
  <2>2. QED
    BY <2>1 DEF TakeOver, At, TokenUnchanged, ReceiptInv, CallsBound, CallIsBound
<1>2. QED
  BY <1>1, ReceiptInvariant, PTL DEF Spec, LiveLeaseNotTaken

=============================================================================
