------------------------- MODULE ReplayLedgerProofs -------------------------
(***************************************************************************)
(* The SQL replay ledger implements the atomic one, for any executions,    *)
(* workers and number of claims, on the executions whose worker concludes  *)
(* within its lease or, having crashed, not at all.                        *)
(*                                                                         *)
(* The write of complete and abandon compares nothing, so the argument is  *)
(* WriterOwns: from the token check to the write, nobody else can move the *)
(* record.  A claim needs a record that is not pending or has expired, and *)
(* a prompt one expires only when its worker is gone (ExpiredIsUnheld);    *)
(* another writer would have to own the same claim, and OneHolder says     *)
(* that no two workers do.                                                 *)
(***************************************************************************)
EXTENDS DurableReplayLedger, TLAPS

\* The initial state of the SQL ledger satisfies the inductive invariant.
LEMMA InitFenced == Init => FencedInv
BY LedgerAssumption
   DEF Init, LedgerInit, FencedInv, TypeOK, LedgerTypeOK, LedgerRecord,
       LedgerStatus, EmptyRecord, RecordIsFenced, OneHolder, WriterOwns,
       ClaimerSaw, ExpiredIsUnheld, ExpiredPrompt, Prompt

\* A read of try_claim, complete or abandon changes only the reader's call.
LEMMA EnterStep ==
    ASSUME FencedInv, NEW w \in Workers, NEW e \in Executions,
           NEW op \in {"claim", "conclude", "abandon"},
           NEW outcome \in LedgerStatus,
           Enter(w, op, e, outcome), UNCHANGED <<record, expired, held>>,
           op = "claim" => held[w] = None /\ Claimable(e),
           op # "claim" => /\ Owns(w) /\ held[w][1] = e
                           /\ outcome \in {"succeeded", "failed", "abandoned"}
    PROVE  FencedInv'
<1> DEFINE c == [op |-> op, execution |-> e, seen |-> record[e], outcome |-> outcome]
<1>1. call' = [call EXCEPT ![w] = c] /\ c \in Call
  BY DEF Enter, FencedInv, TypeOK, LedgerTypeOK, Call
<1>2. TypeOK'
  BY <1>1 DEF FencedInv, TypeOK, LedgerTypeOK
<1>3. WriterOwns'
  BY <1>1 DEF FencedInv, TypeOK, LedgerTypeOK, WriterOwns, Owns
<1>4. ClaimerSaw'
  <2> SUFFICES ASSUME NEW x \in Workers,
                      call'[x] # NoCall, call'[x].op = "claim"
               PROVE  /\ held'[x] = None
                      /\ call'[x].seen.status # "succeeded"
                      /\ call'[x].seen.token <= record'[call'[x].execution].claims
                      /\ call'[x].seen.status = "pending" /\ ClaimMatches(call[x])'
                           => call'[x].execution \in expired'
    BY DEF ClaimerSaw
  <2>1. CASE x = w
    <3>1. call'[x] = c /\ op = "claim"
      BY <1>1, <2>1 DEF FencedInv, TypeOK
    <3>2. /\ record[e].status # "succeeded"
          /\ record[e].status = "pending" => e \in expired
      BY <3>1 DEF Claimable
    <3>3. record[e].token <= record[e].claims
      BY DEF FencedInv
    <3>4. QED
      BY <2>1, <3>1, <3>2, <3>3
  <2>2. CASE x # w
    <3>1. call'[x] = call[x]
      BY <1>1, <2>2 DEF FencedInv, TypeOK
    <3>2. QED
      BY <3>1 DEF FencedInv, ClaimerSaw, ClaimMatches
  <2>3. QED
    BY <2>1, <2>2
<1>5. QED
  BY <1>2, <1>3, <1>4 DEF FencedInv, RecordIsFenced, OneHolder,
                          ExpiredIsUnheld, ExpiredPrompt, Unheld

\* A worker that loses its call, and maybe its claim, without a write.
LEMMA LetGoStep ==
    ASSUME FencedInv, NEW w \in Workers,
           held' = [held EXCEPT ![w] = None] \/ UNCHANGED held,
           call' = [call EXCEPT ![w] = NoCall],
           UNCHANGED <<record, expired>>
    PROVE  FencedInv'
<1>1. TypeOK'
  BY DEF FencedInv, TypeOK, LedgerTypeOK
<1>2. WriterOwns'
  BY DEF FencedInv, TypeOK, LedgerTypeOK, WriterOwns, Owns
<1>3. ClaimerSaw'
  BY DEF FencedInv, TypeOK, LedgerTypeOK, ClaimerSaw, ClaimMatches
<1>4. OneHolder'
  BY DEF FencedInv, TypeOK, LedgerTypeOK, OneHolder
<1>5. ExpiredIsUnheld'
  <2>1. \A x \in Workers : held'[x] = held[x] \/ held'[x] = None
    BY DEF FencedInv, TypeOK, LedgerTypeOK
  <2>2. \A e \in Executions : <<e, record[e].token>> # None
    BY LedgerAssumption DEF FencedInv, TypeOK, LedgerTypeOK, LedgerRecord
  <2>3. QED
    BY <2>1, <2>2 DEF FencedInv, ExpiredIsUnheld, ExpiredPrompt, Unheld, Prompt
<1>6. QED
  BY <1>1, <1>2, <1>3, <1>4, <1>5 DEF FencedInv, RecordIsFenced

\* What a claim that commits found: a record that is not pending, or one whose
\* lease has expired; a prompt one is owned by nobody.
LEMMA ClaimFinds ==
    ASSUME FencedInv, NEW w \in Workers, ClaimCommit(w)
    PROVE  LET e == call[w].execution IN
           /\ call[w] # NoCall /\ call[w] \in Call /\ e \in Executions
           /\ call[w].op = "claim" /\ held[w] = None
           /\ record[e] \in LedgerRecord
           /\ record[e].status # "succeeded"
           /\ record[e].status = "pending" => e \in expired
           /\ record[e].status \in {"empty", "failed", "abandoned", "pending"}
           /\ e \in Prompt => \A x \in Workers : Owns(x) => held[x][1] # e
<1> DEFINE e == call[w].execution
<1>1. /\ call[w] # NoCall /\ call[w] \in Call /\ call[w].op = "claim"
  BY DEF FencedInv, TypeOK, ClaimCommit, In
<1>2. e \in Executions /\ record[e] \in LedgerRecord
  BY <1>1 DEF FencedInv, TypeOK, LedgerTypeOK, Call
<1>3. /\ held[w] = None
      /\ call[w].seen.status # "succeeded"
      /\ call[w].seen.status = "pending" /\ ClaimMatches(call[w]) => e \in expired
  BY <1>1 DEF FencedInv, ClaimerSaw
<1>4. ClaimMatches(call[w]) /\ record[e].status = call[w].seen.status
  BY DEF ClaimCommit, ClaimMatches
<1>5. record[e].status \in LedgerStatus
  BY <1>2 DEF LedgerRecord
<1>6. record[e].status = "pending" => e \in expired
  BY <1>3, <1>4
<1>7. ASSUME e \in Prompt, NEW x \in Workers, Owns(x) PROVE held[x][1] # e
  <2>1. SUFFICES ASSUME held[x][1] = e PROVE FALSE
    OBVIOUS
  <2>2. record[e].status = "pending" /\ record[e].token = held[x][2] /\ held[x] # None
    BY <1>7, <2>1 DEF Owns
  <2>3. held[x] \in Executions \X Nat
    BY <2>2 DEF FencedInv, TypeOK, LedgerTypeOK
  <2>4. held[x] = <<e, record[e].token>>
    BY <2>1, <2>2, <2>3
  <2>5. QED
    BY <1>6, <1>7, <2>2, <2>4 DEF FencedInv, ExpiredIsUnheld, ExpiredPrompt, Unheld
<1>8. QED
  BY <1>1, <1>2, <1>3, <1>4, <1>5, <1>6, <1>7 DEF LedgerStatus

\* The commit of a claim keeps the inductive invariant.
LEMMA ClaimStep ==
    ASSUME FencedInv, NEW w \in Workers, ClaimCommit(w)
    PROVE  FencedInv'
<1> DEFINE e == call[w].execution
           r == record[e]
<1>1. /\ e \in Executions /\ r \in LedgerRecord /\ held[w] = None
      /\ e \in Prompt => \A x \in Workers : Owns(x) => held[x][1] # e
  BY ClaimFinds
<1>2. /\ record' = [record EXCEPT ![e] = ClaimedRecord(r)]
      /\ held' = [held EXCEPT ![w] = <<e, r.claims + 1>>]
      /\ call' = [call EXCEPT ![w] = NoCall]
      /\ expired' = expired \ {e}
  BY DEF ClaimCommit, Leave
<1>3. r.claims \in Nat
  BY <1>1 DEF LedgerRecord
<1>4. TypeOK'
  BY <1>1, <1>2, <1>3 DEF FencedInv, TypeOK, LedgerTypeOK, LedgerRecord,
                          LedgerStatus, ClaimedRecord
<1>5. record'[e] = ClaimedRecord(r) /\ \A x \in Executions \ {e} : record'[x] = record[x]
  BY <1>1, <1>2 DEF FencedInv, TypeOK, LedgerTypeOK
<1>6. \A x \in Executions : record'[x].token <= record'[x].claims
  BY <1>3, <1>5 DEF FencedInv, ClaimedRecord
<1>7. RecordIsFenced'
  BY <1>3, <1>5 DEF FencedInv, RecordIsFenced, ClaimedRecord, Prompt
<1>8. \A x \in Executions : /\ record[x].claims \in Nat /\ record'[x].claims \in Nat
                            /\ record[x].claims <= record'[x].claims
  BY <1>3, <1>5 DEF FencedInv, TypeOK, LedgerTypeOK, LedgerRecord, ClaimedRecord
<1>9. OneHolder'
  <2> SUFFICES ASSUME NEW x \in Workers, held'[x] # None
               PROVE  /\ held'[x][2] \in 1..record'[held'[x][1]].claims
                      /\ \A y \in Workers \ {x} : held'[y] # held'[x]
    BY DEF OneHolder
  <2>1. ASSUME NEW y \in Workers, y # w, held[y] # None
        PROVE  /\ held'[y] = held[y] /\ held[y][1] \in Executions
               /\ held[y][2] \in 1..record[held[y][1]].claims
               /\ held[y] # <<e, r.claims + 1>>
    <3>1. held'[y] = held[y] /\ held[y] \in Executions \X Nat
      BY <1>2, <2>1 DEF FencedInv, TypeOK, LedgerTypeOK
    <3>2. held[y][2] \in 1..record[held[y][1]].claims
      BY <2>1 DEF FencedInv, OneHolder
    <3>3. held[y] # <<e, r.claims + 1>>
      BY <1>3, <3>1, <3>2
    <3>4. QED
      BY <3>1, <3>2, <3>3
  <2>2. held'[w] = <<e, r.claims + 1>> /\ \A y \in Workers \ {w} : held'[y] = held[y]
    BY <1>2 DEF FencedInv, TypeOK, LedgerTypeOK
  <2>3. CASE x = w
    <3>1. record'[e].claims = r.claims + 1
      BY <1>5 DEF ClaimedRecord
    <3>2. held'[x][2] \in 1..record'[held'[x][1]].claims
      BY <1>3, <2>2, <2>3, <3>1
    <3>3. <<e, r.claims + 1>> # None
      BY <1>1, <1>3, LedgerAssumption
    <3>4. QED
      BY <2>1, <2>2, <2>3, <3>2, <3>3
  <2>4. CASE x # w
    <3>1. held[x] # None
      BY <2>2, <2>4
    <3>2. held'[x][2] \in 1..record'[held'[x][1]].claims
      BY <1>8, <2>1, <2>4, <3>1
    <3>3. \A y \in Workers \ {x} : held'[y] # held'[x]
      BY <2>1, <2>2, <2>4, <3>1 DEF FencedInv, OneHolder
    <3>4. QED
      BY <3>2, <3>3
  <2>5. QED
    BY <2>3, <2>4
<1>10. WriterOwns'
  <2>1. \A x \in Workers : Owns(x) /\ held[x][1] \in Prompt => held[x][1] # e
    BY <1>1
  <2>2. QED
    BY <1>1, <1>2, <1>5, <2>1 DEF FencedInv, TypeOK, LedgerTypeOK, WriterOwns, Owns, Prompt
<1>11. ClaimerSaw'
  <2> SUFFICES ASSUME NEW x \in Workers,
                      call'[x] # NoCall, call'[x].op = "claim"
               PROVE  /\ held'[x] = None
                      /\ call'[x].seen.status # "succeeded"
                      /\ call'[x].seen.token <= record'[call'[x].execution].claims
                      /\ call'[x].seen.status = "pending" /\ ClaimMatches(call[x])'
                           => call'[x].execution \in expired'
    BY DEF ClaimerSaw
  <2>1. x # w /\ call'[x] = call[x]
    BY <1>2 DEF FencedInv, TypeOK
  <2>2. /\ held'[x] = None
        /\ call[x].seen.status # "succeeded"
        /\ call[x].seen.token <= record[call[x].execution].claims
        /\ call[x].seen.status = "pending" /\ ClaimMatches(call[x])
             => call[x].execution \in expired
    BY <1>2, <2>1 DEF FencedInv, ClaimerSaw, TypeOK, LedgerTypeOK
  <2>3. call[x].execution \in Executions /\ call[x].seen.token \in Nat
    BY <2>1 DEF FencedInv, TypeOK, Call, LedgerRecord
  <2>4. call[x].seen.token <= record'[call[x].execution].claims
    BY <1>8, <2>2, <2>3
  <2>5. CASE call[x].execution = e
    <3>1. record'[e].token = r.claims + 1
      BY <1>5 DEF ClaimedRecord
    <3>2. record'[e].token # call[x].seen.token
      BY <1>3, <2>2, <2>3, <2>5, <3>1
    <3>3. ~(call[x].seen.status = "pending" /\ ClaimMatches(call[x])')
      BY <2>1, <2>5, <3>2 DEF ClaimMatches
    <3>4. QED
      BY <2>1, <2>2, <2>4, <3>3
  <2>6. CASE call[x].execution # e
    <3>1. record'[call[x].execution] = record[call[x].execution]
      BY <1>5, <2>3, <2>6
    <3>2. ClaimMatches(call[x])' => ClaimMatches(call[x])
      BY <2>1, <3>1 DEF ClaimMatches
    <3>3. QED
      BY <1>2, <2>1, <2>2, <2>4, <2>6, <3>2
  <2>7. QED
    BY <2>5, <2>6
<1>12. ExpiredIsUnheld'
  BY <1>1, <1>2, <1>5 DEF FencedInv, TypeOK, LedgerTypeOK, ExpiredIsUnheld,
                          ExpiredPrompt, Unheld, Prompt
<1>13. QED
  BY <1>2, <1>4, <1>6, <1>7, <1>9, <1>10, <1>11, <1>12 DEF FencedInv

\* What a write of complete or abandon finds and leaves behind.
LEMMA WriteFinds ==
    ASSUME FencedInv, NEW w \in Workers, ConcludeWrite(w)
    PROVE  LET e == call[w].execution
               r == record[e]
               t == Written(r, call[w], held[w][2])
           IN
           /\ call[w] # NoCall /\ e \in Executions /\ r \in LedgerRecord
           /\ held[w] \in Executions \X Nat /\ held[w] # None /\ held[w][1] = e
           /\ call[w].outcome \in {"succeeded", "failed", "abandoned"}
           /\ e \in Prompt => Owns(w)
           /\ t \in LedgerRecord /\ t.claims = r.claims /\ t.token = 0
           /\ t.status = call[w].outcome
           /\ record' = [record EXCEPT ![e] = t]
           /\ held' = [held EXCEPT ![w] = None]
           /\ call' = [call EXCEPT ![w] = NoCall]
           /\ expired' = expired \ {e}
<1> DEFINE e == call[w].execution
           r == record[e]
           t == Written(r, call[w], held[w][2])
<1>1. /\ call[w] # NoCall /\ call[w] \in Call /\ call[w].op # "claim"
  BY DEF FencedInv, TypeOK, ConcludeWrite, In
<1>2. e \in Executions /\ r \in LedgerRecord
  BY <1>1 DEF FencedInv, TypeOK, LedgerTypeOK, Call
<1>3. /\ held[w] # None /\ held[w][1] = e
      /\ call[w].outcome \in {"succeeded", "failed", "abandoned"}
      /\ e \in Prompt => Owns(w)
  BY <1>1 DEF FencedInv, WriterOwns
<1>4. held[w] \in Executions \X Nat
  BY <1>3 DEF FencedInv, TypeOK, LedgerTypeOK
<1>5. t \in LedgerRecord /\ t.claims = r.claims /\ t.token = 0 /\ t.status = call[w].outcome
  BY <1>2, <1>3, <1>4 DEF Written, LedgerRecord, LedgerStatus
<1>6. /\ record' = [record EXCEPT ![e] = t]
      /\ held' = [held EXCEPT ![w] = None]
      /\ call' = [call EXCEPT ![w] = NoCall]
      /\ expired' = expired \ {e}
  BY DEF ConcludeWrite, Leave
<1>7. QED
  BY <1>1, <1>2, <1>3, <1>4, <1>5, <1>6

\* The write keeps the inductive invariant.
LEMMA WriteStep ==
    ASSUME FencedInv, NEW w \in Workers, ConcludeWrite(w)
    PROVE  FencedInv'
<1> DEFINE e == call[w].execution
           r == record[e]
           t == Written(r, call[w], held[w][2])
<1>1. /\ e \in Executions /\ r \in LedgerRecord
      /\ held[w] \in Executions \X Nat /\ held[w] # None /\ held[w][1] = e
      /\ call[w].outcome \in {"succeeded", "failed", "abandoned"}
      /\ e \in Prompt => Owns(w)
      /\ t \in LedgerRecord /\ t.claims = r.claims /\ t.token = 0
      /\ t.status = call[w].outcome
  BY WriteFinds
<1>2. /\ record' = [record EXCEPT ![e] = t]
      /\ held' = [held EXCEPT ![w] = None]
      /\ call' = [call EXCEPT ![w] = NoCall]
      /\ expired' = expired \ {e}
  BY WriteFinds
<1>3. TypeOK'
  BY <1>1, <1>2 DEF FencedInv, TypeOK, LedgerTypeOK
<1>4. record'[e] = t /\ \A x \in Executions \ {e} : record'[x] = record[x]
  BY <1>1, <1>2 DEF FencedInv, TypeOK, LedgerTypeOK
<1>5. r.claims \in Nat /\ \A x \in Executions : record'[x].claims = record[x].claims
  BY <1>1, <1>4 DEF LedgerRecord
<1>6. \A x \in Executions : record'[x].token <= record'[x].claims
  BY <1>1, <1>4, <1>5 DEF FencedInv
<1>7. RecordIsFenced'
  <2>1. ASSUME e \in Prompt
        PROVE  /\ t.status # "pending"
               /\ t.result = IF t.status \in {"succeeded", "failed"} THEN t.claims ELSE 0
    <3>1. held[w][2] = r.claims /\ r.result = 0
      BY <1>1, <2>1 DEF FencedInv, RecordIsFenced, Owns
    <3>2. QED
      BY <1>1, <3>1 DEF Written, LedgerRecord
  <2>2. QED
    BY <1>1, <1>4, <2>1 DEF FencedInv, RecordIsFenced, Prompt
<1>8. OneHolder'
  BY <1>2, <1>5 DEF FencedInv, TypeOK, LedgerTypeOK, OneHolder
<1>9. WriterOwns'
  <2>1. ASSUME NEW x \in Workers, x # w, Owns(x), e \in Prompt
        PROVE  held[x][1] # e
    <3>1. SUFFICES ASSUME held[x][1] = e PROVE FALSE
      OBVIOUS
    <3>2. held[x] # None /\ held[x][2] = held[w][2]
      BY <1>1, <2>1, <3>1 DEF Owns
    <3>3. held[x] \in Executions \X Nat
      BY <3>2 DEF FencedInv, TypeOK, LedgerTypeOK
    <3>4. held[x] = held[w]
      BY <1>1, <3>1, <3>2, <3>3
    <3>5. QED
      BY <1>1, <2>1, <3>4 DEF FencedInv, OneHolder
  <2>2. ASSUME NEW x \in Workers, call'[x] # NoCall, call'[x].op # "claim"
        PROVE  /\ x # w /\ call'[x] = call[x] /\ held'[x] = held[x]
               /\ held[x] # None /\ held[x][1] = call[x].execution
               /\ held[x][1] \in Executions
               /\ call[x].outcome \in {"succeeded", "failed", "abandoned"}
               /\ call[x].execution \in Prompt => Owns(x)
    BY <1>2, <2>2 DEF FencedInv, TypeOK, LedgerTypeOK, WriterOwns
  <2>3. ASSUME NEW x \in Workers, call'[x] # NoCall, call'[x].op # "claim",
               call'[x].execution \in Prompt
        PROVE  Owns(x)'
    BY <1>4, <2>1, <2>2, <2>3 DEF Owns
  <2>4. QED
    BY <2>2, <2>3 DEF WriterOwns, Prompt
<1>10. ClaimerSaw'
  <2> SUFFICES ASSUME NEW x \in Workers,
                      call'[x] # NoCall, call'[x].op = "claim"
               PROVE  /\ held'[x] = None
                      /\ call'[x].seen.status # "succeeded"
                      /\ call'[x].seen.token <= record'[call'[x].execution].claims
                      /\ call'[x].seen.status = "pending" /\ ClaimMatches(call[x])'
                           => call'[x].execution \in expired'
    BY DEF ClaimerSaw
  <2>1. x # w /\ call'[x] = call[x]
    BY <1>2 DEF FencedInv, TypeOK
  <2>2. /\ held'[x] = None
        /\ call[x].seen.status # "succeeded"
        /\ call[x].seen.token <= record[call[x].execution].claims
        /\ call[x].seen.status = "pending" /\ ClaimMatches(call[x])
             => call[x].execution \in expired
    BY <1>2, <2>1 DEF FencedInv, ClaimerSaw, TypeOK, LedgerTypeOK
  <2>3. call[x].execution \in Executions
    BY <2>1 DEF FencedInv, TypeOK, Call
  <2>4. CASE call[x].execution = e
    <3>1. record'[e].status # "pending"
      BY <1>1, <1>4
    <3>2. ~(call[x].seen.status = "pending" /\ ClaimMatches(call[x])')
      BY <2>1, <2>4, <3>1 DEF ClaimMatches
    <3>3. QED
      BY <1>5, <2>1, <2>2, <2>3, <3>2
  <2>5. CASE call[x].execution # e
    <3>1. record'[call[x].execution] = record[call[x].execution]
      BY <1>4, <2>3, <2>5
    <3>2. ClaimMatches(call[x])' => ClaimMatches(call[x])
      BY <2>1, <3>1 DEF ClaimMatches
    <3>3. QED
      BY <1>2, <1>5, <2>1, <2>2, <2>3, <2>5, <3>2
  <2>6. QED
    BY <2>4, <2>5
<1>11. ExpiredIsUnheld'
  <2>1. ASSUME NEW x \in ExpiredPrompt', NEW y \in Workers
        PROVE  held'[y] # <<x, record'[x].token>>
    <3>1. x \in ExpiredPrompt /\ x # e /\ x \in Executions
      BY <1>2, <2>1 DEF ExpiredPrompt, Prompt
    <3>2. record'[x] = record[x] /\ held[y] # <<x, record[x].token>>
      BY <1>4, <3>1 DEF FencedInv, ExpiredIsUnheld, Unheld
    <3>3. held'[y] = held[y] \/ held'[y] = None
      BY <1>2 DEF FencedInv, TypeOK, LedgerTypeOK
    <3>4. <<x, record[x].token>> # None
      BY <3>1, LedgerAssumption DEF FencedInv, TypeOK, LedgerTypeOK, LedgerRecord
    <3>5. QED
      BY <3>2, <3>3, <3>4
  <2>2. QED
    BY <2>1 DEF ExpiredIsUnheld, Unheld
<1>12. QED
  BY <1>2, <1>3, <1>6, <1>7, <1>8, <1>9, <1>10, <1>11 DEF FencedInv

----------------------------------------------------------------------------
\* Every step of the SQL ledger keeps the inductive invariant.
LEMMA FencedStep ==
    ASSUME FencedInv, [Next]_vars
    PROVE  FencedInv'
<1>1. CASE UNCHANGED vars
  BY <1>1 DEF vars, FencedInv, TypeOK, LedgerTypeOK, RecordIsFenced, OneHolder,
              WriterOwns, ClaimerSaw, ClaimMatches, Owns, ExpiredIsUnheld,
              ExpiredPrompt, Unheld
<1>2. ASSUME NEW w \in Workers, NEW e \in Executions, ClaimRead(w, e)
      PROVE  FencedInv'
  <2>1. held[w] = None /\ Claimable(e) /\ "pending" \in LedgerStatus
    BY <1>2 DEF ClaimRead, LedgerStatus
  <2>2. QED
    BY <1>2, <2>1, EnterStep DEF ClaimRead
<1>3. ASSUME NEW w \in Workers, ClaimCommit(w) PROVE FencedInv'
  BY <1>3, ClaimStep
<1>4. ASSUME NEW w \in Workers, ClaimLost(w) PROVE FencedInv'
  BY <1>4, LetGoStep DEF ClaimLost, Leave
<1>5. ASSUME NEW w \in Workers, NEW outcome \in {"succeeded", "failed"},
             ConcludeRead(w, outcome)
      PROVE  FencedInv'
  <2>1. held[w][1] \in Executions /\ Owns(w) /\ outcome \in LedgerStatus
    BY <1>5 DEF ConcludeRead, Owns, FencedInv, TypeOK, LedgerTypeOK, LedgerStatus
  <2>2. QED
    BY <1>5, <2>1, EnterStep DEF ConcludeRead
<1>6. ASSUME NEW w \in Workers, ConcludeStale(w) PROVE FencedInv'
  <2>1. call' = [call EXCEPT ![w] = NoCall]
    BY <1>6 DEF ConcludeStale, FencedInv, TypeOK
  <2>2. QED
    BY <1>6, <2>1, LetGoStep DEF ConcludeStale
<1>7. ASSUME NEW w \in Workers, ConcludeWrite(w) PROVE FencedInv'
  BY <1>7, WriteStep
<1>8. ASSUME NEW w \in Workers, AbandonRead(w) PROVE FencedInv'
  <2>1. held[w][1] \in Executions /\ Owns(w) /\ "abandoned" \in LedgerStatus
    BY <1>8 DEF AbandonRead, Owns, FencedInv, TypeOK, LedgerTypeOK, LedgerStatus
  <2>2. QED
    BY <1>8, <2>1, EnterStep DEF AbandonRead
<1>9. ASSUME NEW w \in Workers, Crash(w) PROVE FencedInv'
  BY <1>9, LetGoStep DEF Crash, Leave
<1>10. ASSUME NEW e \in Executions, Expire(e) PROVE FencedInv'
  <2>1. /\ expired' = expired \cup {e} /\ (e \in Lapsing \/ Unheld(e))
        /\ UNCHANGED <<record, held, call>>
    BY <1>10 DEF Expire, Lapse
  <2>2. TypeOK' /\ WriterOwns' /\ OneHolder' /\ RecordIsFenced'
    BY <2>1 DEF FencedInv, TypeOK, LedgerTypeOK, WriterOwns, OneHolder,
                RecordIsFenced, Owns
  <2>3. ClaimerSaw'
    BY <2>1 DEF FencedInv, ClaimerSaw, ClaimMatches
  <2>4. ExpiredIsUnheld'
    BY <2>1 DEF FencedInv, ExpiredIsUnheld, ExpiredPrompt, Unheld, Prompt
  <2>5. QED
    BY <2>1, <2>2, <2>3, <2>4 DEF FencedInv
<1>11. QED
  BY <1>1, <1>2, <1>3, <1>4, <1>5, <1>6, <1>7, <1>8, <1>9, <1>10 DEF Next

\* The inductive invariant holds: a record carries its token exactly while it
\* is pending and a result only of its last claim, no two workers hold one
\* claim, and whoever is about to write an outcome owns the claim.
THEOREM LedgerIsFenced == Spec => []FencedInv
<1>1. Init => FencedInv
  BY InitFenced
<1>2. FencedInv /\ [Next]_vars => FencedInv'
  BY FencedStep
<1>3. QED
  BY <1>1, <1>2, PTL DEF Spec

\* A stored success is never replaced where no worker outlives its lease,
\* so the adapter of a succeeded execution is not invoked again.
THEOREM LedgerSuccessIsFinal == Spec => SuccessIsFinal
<1>1. ASSUME FencedInv, [Next]_vars, NEW e \in Prompt, record[e].status = "succeeded"
      PROVE  record'[e] = record[e]
  <2>1. e \in Executions
    BY DEF Prompt
  <2>2. ASSUME NEW w \in Workers, ClaimCommit(w) PROVE record'[e] = record[e]
    <3>1. call[w].execution # e
      BY <1>1, <2>2, ClaimFinds
    <3>2. QED
      BY <1>1, <2>1, <2>2, <3>1 DEF ClaimCommit, FencedInv, TypeOK, LedgerTypeOK
  <2>3. ASSUME NEW w \in Workers, ConcludeWrite(w) PROVE record'[e] = record[e]
    <3>1. /\ record' = [record EXCEPT ![call[w].execution] =
                          Written(@, call[w], held[w][2])]
          /\ held[w][1] = call[w].execution
          /\ call[w].execution \in Prompt => Owns(w)
      BY <1>1, <2>3, WriteFinds
    <3>2. call[w].execution # e
      BY <1>1, <3>1 DEF Owns
    <3>3. QED
      BY <1>1, <2>1, <3>1, <3>2 DEF FencedInv, TypeOK, LedgerTypeOK
  <2>4. QED
    BY <1>1, <2>2, <2>3 DEF Next, vars, ClaimRead, ClaimLost, ConcludeRead,
         ConcludeStale, AbandonRead, Crash, Expire, Lapse
<1>2. FencedInv /\ [Next]_vars =>
        [\A e \in Prompt :
           record[e].status = "succeeded" => record'[e] = record[e]]_vars
  BY <1>1
<1>3. QED
  BY <1>2, LedgerIsFenced, PTL DEF Spec, SuccessIsFinal

\* A live claim is never taken away from its holder, whether or not leases may
\* lapse.
THEOREM LiveClaimsAreKept == Spec => LiveClaimNotTaken
<1>1. ASSUME FencedInv, [Next]_vars, NEW e \in Executions,
             record[e].status = "pending", record'[e].claims # record[e].claims
      PROVE  e \in expired
  <2>1. ASSUME NEW w \in Workers, ClaimCommit(w) PROVE e \in expired
    <3>1. call[w].execution = e
      BY <1>1, <2>1 DEF ClaimCommit, FencedInv, TypeOK, LedgerTypeOK
    <3>2. QED
      BY <1>1, <2>1, <3>1, ClaimFinds
  <2>2. ASSUME NEW w \in Workers, ConcludeWrite(w) PROVE FALSE
    <3>1. /\ record' = [record EXCEPT ![call[w].execution] =
                          Written(@, call[w], held[w][2])]
          /\ Written(record[call[w].execution], call[w], held[w][2]).claims
               = record[call[w].execution].claims
      BY <1>1, <2>2, WriteFinds
    <3>2. QED
      BY <1>1, <3>1 DEF FencedInv, TypeOK, LedgerTypeOK
  <2>3. QED
    BY <1>1, <2>1, <2>2 DEF Next, vars, ClaimRead, ClaimLost, ConcludeRead,
         ConcludeStale, AbandonRead, Crash, Expire, Lapse
<1>2. FencedInv /\ [Next]_vars =>
        [\A e \in Executions :
           record[e].status = "pending" /\ record'[e].claims # record[e].claims
              => e \in expired]_vars
  BY <1>1
<1>3. QED
  BY <1>2, LedgerIsFenced, PTL DEF Spec, LiveClaimNotTaken

----------------------------------------------------------------------------
(* Refinement.                                                             *)

\* A worker that gives up its claim does so in the atomic ledger as well, or
\* held nothing there.
LEMMA LetGoMaps ==
    ASSUME TypeOK, NEW w \in Workers,
           held' = [held EXCEPT ![w] = None], UNCHANGED <<record, expired>>
    PROVE  [Atomic!LedgerNext]_(Atomic!ledgerVars)
<1>1. HeldPrompt' = [HeldPrompt EXCEPT ![w] = None]
  BY DEF TypeOK, LedgerTypeOK, HeldPrompt
<1>2. CASE HeldPrompt[w] = None
  <2>1. HeldPrompt' = HeldPrompt
    BY <1>1, <1>2 DEF HeldPrompt
  <2>2. QED
    BY <2>1 DEF Atomic!ledgerVars, ExpiredPrompt
<1>3. CASE HeldPrompt[w] # None
  <2>1. Atomic!LetGo(w)
    BY <1>1, <1>3 DEF Atomic!LetGo, ExpiredPrompt
  <2>2. QED
    BY <2>1 DEF Atomic!LedgerNext
<1>4. QED
  BY <1>2, <1>3

\* The commit of a claim is TryClaim of the atomic ledger.
LEMMA ClaimMaps ==
    ASSUME FencedInv, NEW w \in Workers, ClaimCommit(w)
    PROVE  [Atomic!LedgerNext]_(Atomic!ledgerVars)
<1> DEFINE e == call[w].execution
           r == record[e]
           R == [x \in Prompt |-> record[x]]
<1>1. /\ e \in Executions /\ r \in LedgerRecord /\ held[w] = None
      /\ r.status \in {"empty", "failed", "abandoned", "pending"}
      /\ r.status = "pending" => e \in expired
  BY ClaimFinds
<1>2. /\ record' = [record EXCEPT ![e] = ClaimedRecord(r)]
      /\ held' = [held EXCEPT ![w] = <<e, r.claims + 1>>]
      /\ r.claims < MaxClaims
      /\ ExpiredPrompt' = ExpiredPrompt \ {e}
  BY DEF ClaimCommit, ExpiredPrompt
<1>3. <<e, r.claims + 1>> # None
  BY <1>1, LedgerAssumption DEF LedgerRecord
<1>4. HeldPrompt[w] = None
  BY <1>1 DEF HeldPrompt
<1>5. CASE e \in Prompt
  <2>1. R' = [R EXCEPT ![e] = ClaimedRecord(R[e])]
    BY <1>1, <1>2, <1>5 DEF FencedInv, TypeOK, LedgerTypeOK, Prompt
  <2>2. HeldPrompt' = [HeldPrompt EXCEPT ![w] = <<e, R[e].claims + 1>>]
    BY <1>1, <1>2, <1>3, <1>5 DEF FencedInv, TypeOK, LedgerTypeOK, HeldPrompt
  <2>3. Atomic!Claimable(e)
    BY <1>1, <1>5 DEF Atomic!Claimable, ExpiredPrompt
  <2>4. Atomic!TryClaim(w, e)
    BY <1>1, <1>2, <1>4, <1>5, <2>1, <2>2, <2>3
       DEF Atomic!TryClaim, Atomic!ClaimedRecord, ClaimedRecord
  <2>5. QED
    BY <1>5, <2>4 DEF Atomic!LedgerNext, Atomic!TryClaim
<1>6. CASE e \notin Prompt
  <2>1. R' = R
    BY <1>2, <1>6 DEF FencedInv, TypeOK, LedgerTypeOK, Prompt
  <2>2. HeldPrompt' = HeldPrompt
    BY <1>1, <1>2, <1>6 DEF FencedInv, TypeOK, LedgerTypeOK, HeldPrompt
  <2>3. ExpiredPrompt' = ExpiredPrompt
    BY <1>2, <1>6 DEF ExpiredPrompt
  <2>4. QED
    BY <2>1, <2>2, <2>3 DEF Atomic!ledgerVars
<1>7. QED
  BY <1>5, <1>6

\* The unguarded write of an outcome is Conclude of the atomic ledger.
LEMMA WriteMaps ==
    ASSUME FencedInv, NEW w \in Workers, ConcludeWrite(w)
    PROVE  [Atomic!LedgerNext]_(Atomic!ledgerVars)
<1> DEFINE e == call[w].execution
           r == record[e]
           t == Written(r, call[w], held[w][2])
           outcome == call[w].outcome
           R == [x \in Prompt |-> record[x]]
<1>1. /\ e \in Executions /\ r \in LedgerRecord
      /\ held[w] \in Executions \X Nat /\ held[w] # None /\ held[w][1] = e
      /\ outcome \in {"succeeded", "failed", "abandoned"}
      /\ e \in Prompt => Owns(w)
      /\ record' = [record EXCEPT ![e] = t]
      /\ held' = [held EXCEPT ![w] = None]
      /\ ExpiredPrompt' = ExpiredPrompt \ {e}
  BY WriteFinds DEF ExpiredPrompt
<1>2. HeldPrompt' = [HeldPrompt EXCEPT ![w] = None]
  BY <1>1 DEF FencedInv, TypeOK, LedgerTypeOK, HeldPrompt
<1>3. CASE e \in Prompt
  <2>1. HeldPrompt[w] = held[w] /\ R[e] = r
    BY <1>1, <1>3 DEF HeldPrompt
  <2>2. r.status = "pending" /\ r.token = held[w][2] /\ r.result = 0
    BY <1>1, <1>3 DEF Owns, FencedInv, RecordIsFenced
  <2>3. t = Atomic!TerminalRecord(r, outcome)
    BY <1>1, <2>2 DEF Written, Atomic!TerminalRecord
  <2>4. R' = [R EXCEPT ![e] = Atomic!TerminalRecord(R[e], outcome)]
    BY <1>1, <1>3, <2>1, <2>3 DEF FencedInv, TypeOK, LedgerTypeOK, Prompt
  <2>5. Atomic!Owns(w)
    BY <1>1, <2>1, <2>2 DEF Atomic!Owns
  <2>6. Atomic!Conclude(w, outcome)
    BY <1>1, <1>2, <2>1, <2>4, <2>5 DEF Atomic!Conclude
  <2>7. QED
    BY <1>1, <2>6 DEF Atomic!LedgerNext, Atomic!Conclude
<1>4. CASE e \notin Prompt
  <2>1. R' = R
    BY <1>1, <1>4 DEF FencedInv, TypeOK, LedgerTypeOK, Prompt
  <2>2. HeldPrompt[w] = None
    BY <1>1, <1>4 DEF HeldPrompt
  <2>3. HeldPrompt' = HeldPrompt
    BY <1>2, <2>2 DEF HeldPrompt
  <2>4. ExpiredPrompt' = ExpiredPrompt
    BY <1>1, <1>4 DEF ExpiredPrompt
  <2>5. QED
    BY <2>1, <2>3, <2>4 DEF Atomic!ledgerVars
<1>5. QED
  BY <1>3, <1>4

\* A step that changes neither records, leases nor the claims held stutters.
LEMMA StutterMaps ==
    ASSUME UNCHANGED <<record, expired, held>>
    PROVE  [Atomic!LedgerNext]_(Atomic!ledgerVars)
BY DEF Atomic!ledgerVars, HeldPrompt, ExpiredPrompt

\* The end of a lease is Lapse of the atomic ledger, or concerns none of its
\* executions.
LEMMA ExpireMaps ==
    ASSUME NEW e \in Executions, Expire(e)
    PROVE  [Atomic!LedgerNext]_(Atomic!ledgerVars)
<1> DEFINE R == [x \in Prompt |-> record[x]]
<1>1. /\ record[e].status = "pending" /\ expired' = expired \cup {e}
      /\ R' = R /\ HeldPrompt' = HeldPrompt
  BY DEF Expire, Lapse, HeldPrompt
<1>2. CASE e \in Prompt
  <2>1. ExpiredPrompt' = ExpiredPrompt \cup {e}
    BY <1>1, <1>2 DEF ExpiredPrompt
  <2>2. Atomic!Lapse(e)
    BY <1>1, <1>2, <2>1 DEF Atomic!Lapse
  <2>3. QED
    BY <1>2, <2>2 DEF Atomic!LedgerNext
<1>3. CASE e \notin Prompt
  BY <1>1, <1>3 DEF Atomic!ledgerVars, ExpiredPrompt
<1>4. QED
  BY <1>2, <1>3

\* "Implements the same fenced state machine as InMemoryReplayLedger": on the
\* executions whose worker concludes within its lease or crashes, every
\* behaviour of the SQL ledger, with its interleaved reads, its unguarded
\* writes and the reclaim of a crashed worker's claim, is a behaviour of the
\* atomic one, whatever happens to the executions that outlive their lease.
THEOREM DurableImplementsAtomic == Spec => AtomicSpec
<1>1. Init => Atomic!LedgerInit
  BY DEF Init, LedgerInit, Atomic!LedgerInit, Atomic!EmptyRecord, EmptyRecord,
         HeldPrompt, ExpiredPrompt, Prompt
<1>2. FencedInv /\ [Next]_vars => [Atomic!LedgerNext]_(Atomic!ledgerVars)
  <2> SUFFICES ASSUME FencedInv, [Next]_vars
               PROVE  [Atomic!LedgerNext]_(Atomic!ledgerVars)
    OBVIOUS
  <2>1. TypeOK
    BY DEF FencedInv
  <2>2. CASE UNCHANGED vars
    BY <2>2, StutterMaps DEF vars
  <2>3. ASSUME NEW w \in Workers, ClaimCommit(w)
        PROVE  [Atomic!LedgerNext]_(Atomic!ledgerVars)
    BY <2>3, ClaimMaps
  <2>4. ASSUME NEW w \in Workers, ConcludeWrite(w)
        PROVE  [Atomic!LedgerNext]_(Atomic!ledgerVars)
    BY <2>4, WriteMaps
  <2>5. ASSUME NEW w \in Workers, ConcludeStale(w) \/ Crash(w)
        PROVE  [Atomic!LedgerNext]_(Atomic!ledgerVars)
    BY <2>1, <2>5, LetGoMaps DEF ConcludeStale, Crash
  <2>6. ASSUME NEW w \in Workers,
               \/ \E e \in Executions : ClaimRead(w, e)
               \/ ClaimLost(w)
               \/ \E outcome \in {"succeeded", "failed"} : ConcludeRead(w, outcome)
               \/ AbandonRead(w)
        PROVE  [Atomic!LedgerNext]_(Atomic!ledgerVars)
    BY <2>6, StutterMaps DEF ClaimRead, ClaimLost, ConcludeRead, AbandonRead
  <2>7. ASSUME NEW e \in Executions, Expire(e)
        PROVE  [Atomic!LedgerNext]_(Atomic!ledgerVars)
    BY <2>7, ExpireMaps
  <2>8. QED
    BY <2>2, <2>3, <2>4, <2>5, <2>6, <2>7 DEF Next
<1>3. QED
  BY <1>1, <1>2, LedgerIsFenced, PTL DEF Spec, AtomicSpec, Atomic!LedgerSpec

=============================================================================
