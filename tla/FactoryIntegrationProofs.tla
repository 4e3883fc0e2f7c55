---------------------- MODULE FactoryIntegrationProofs ----------------------
(***************************************************************************)
(* Integrations and deliveries for any plans, deliveries, workers and      *)
(* number of claims.                                                       *)
(*                                                                         *)
(* The composition only takes steps of the receipt boundary, so what is    *)
(* proved of SideEffects holds of it too.  Its own invariant says what a   *)
(* worker still knows when it writes: the version it read belongs to the   *)
(* status it read, and a result that was completed, returned or attested   *)
(* is a conflict or the head of the plan's branch, which is never moved    *)
(* again, by this plan or another of the same branch.                      *)
(***************************************************************************)
EXTENDS FactoryIntegration, SideEffectsProofs

\* Every token and result is the number of a claim.
TokensInRange ==
    /\ \A k \in Keys :
         /\ receipt[k].token \in 0 .. MaxClaims
         /\ receipt[k].result \in 0 .. MaxClaims
         /\ receipt[k].status = "absent" <=> receipt[k].token = 0
    /\ \A w \in Workers : call[w] # None =>
         /\ call[w].token \in 1 .. MaxClaims
         /\ call[w].pc = "recovering" => call[w].token # MaxClaims

PlanTypes ==
    /\ plan \in [Plans -> Plan]
    /\ attested \in [Plans -> [status : {"absent", "succeeded", "conflict"},
                               result : 0 .. MaxClaims]]
    /\ branch \in [Branches -> Head \cup {None}]
    /\ picked \in [Plans -> [1 .. MaxClaims -> Head \cup {None, Conflicted}]]

\* A version stands for a status.
Versions ==
    \A p \in Plans :
        /\ plan[p].version = 0 <=> plan[p].status = "ready"
        /\ plan[p].version = 1 <=> plan[p].status = "running"

\* Claim n of plan p ended in a conflict, or at the head that is published.
Published(p, n) ==
    /\ n \in 1 .. MaxClaims
    /\ \/ picked[p][n] = Conflicted
       \/ picked[p][n] \in Head /\ branch[BranchOf[p]] = picked[p][n]

\* What a worker knows of the plan in hand.
Informed(r) ==
    /\ r \in Work
    /\ r.pc = "start" => r.version = 0
    /\ r.pc \in {"effect", "append", "settle", "failing"} => r.version = 1
    /\ r.pc \in {"append", "settle"} => Published(r.plan, r.result)
    /\ r.pc = "settle" => attested[r.plan].status = Outcome(r.plan, r.result)

WorkInformed ==
    /\ work \in [Workers -> Work \cup {None}]
    /\ \A w \in Workers : work[w] # None => Informed(work[w])

\* A claim is made for the integration or the delivery in hand.
CallsInWork ==
    \A w \in Workers : call[w] # None =>
        /\ work[w] # None
        /\ \/ work[w].pc = "effect" /\ call[w].key = work[w].plan
           \/ work[w].pc = "deliver" /\ call[w].key \in Deliveries

CallEvidence ==
    \A w \in Workers :
        call[w] # None /\ call[w].key \in Plans /\ call[w].pc = "returned" =>
            Published(call[w].key, call[w].token)

PlanEvidence ==
    \A p \in Plans :
        /\ receipt[p].status = "completed" => Published(p, receipt[p].result)
        /\ attested[p].status # "absent" =>
             /\ attested[p].status = Outcome(p, attested[p].result)
             /\ Published(p, attested[p].result)
        /\ plan[p].status \in {"succeeded", "conflict"} =>
             attested[p].status = plan[p].status

DeliveryEvidence ==
    \A k \in Deliveries : receipt[k].status # "absent" =>
        LET h == receipt[k].request
        IN  /\ h \in Shipment
            /\ plan[h.plan].status = "succeeded"
            /\ branch[BranchOf[h.plan]] = h.head

FactoryInv ==
    /\ ReceiptInv
    /\ TokensInRange
    /\ PlanTypes
    /\ Versions
    /\ WorkInformed
    /\ CallsInWork
    /\ CallEvidence
    /\ PlanEvidence
    /\ DeliveryEvidence

USE FactoryAssumption, SideEffectsAssumption

\* Nothing has happened at the start.
LEMMA InitFactory == FactoryInit => FactoryInv
<1> SUFFICES ASSUME FactoryInit PROVE FactoryInv
  OBVIOUS
<1>1. ReceiptInv
  BY InitReceipts DEF FactoryInit
<1>2. TokensInRange /\ CallsInWork /\ CallEvidence /\ DeliveryEvidence
  BY DEF FactoryInit, Init, NoReceipt, TokensInRange, CallsInWork, CallEvidence,
         DeliveryEvidence
<1>3. PlanTypes /\ Versions
  BY DEF FactoryInit, PlanTypes, Versions, Plan, Status, NoAttestation
<1>4. WorkInformed
  BY DEF FactoryInit, WorkInformed
<1>5. PlanEvidence
  BY DEF FactoryInit, Init, NoReceipt, NoAttestation, PlanEvidence
<1>6. QED
  BY <1>1, <1>2, <1>3, <1>4, <1>5 DEF FactoryInv

----------------------------------------------------------------------------
(* Who writes what.                                                        *)

\* Every step of the composition is a step of the receipt boundary or leaves
\* the receipts alone.
LEMMA StoreStep ==
    ASSUME FactoryInv, FactoryNext
    PROVE  [Next]_vars
<1>1. \A w \in Workers : work[w] # None => work[w].plan \in Plans
  BY DEF FactoryInv, WorkInformed, Work
<1>2. ASSUME NEW w \in Workers, Claimed(w) PROVE Next
  BY <1>1, <1>2 DEF Claimed, InEffect, Doing, Next, Claim
<1>3. ASSUME NEW w \in Workers, InProgress(w) PROVE [Next]_vars
  BY <1>3 DEF InProgress, Next, Claim
<1>4. ASSUME NEW w \in Workers,
             Conflict(w) \/ Publish(w) \/ Passed(w) \/ Raise(w) \/ Conclude(w)
      PROVE  Next
  BY <1>4 DEF Conflict, Publish, Passed, Raise, Conclude, Next
<1>5. ASSUME NEW w \in Workers, StoreFails(w) \/ WorkerDies(w) PROVE [Next]_vars
  <2>1. call \in [Workers -> Call \cup {None}]
    BY DEF FactoryInv, ReceiptInv, TypeOK
  <2>2. CASE call[w] = None
    BY <1>5, <2>1, <2>2 DEF StoreFails, WorkerDies, vars
  <2>3. CASE call[w] # None
    <3>1. Crash(w)
      BY <1>5, <2>3 DEF StoreFails, WorkerDies, Crash, Return
    <3>2. QED
      BY <3>1 DEF Next
  <2>4. QED
    BY <2>2, <2>3
<1>6. ASSUME NEW w \in Workers, Delivery(w) PROVE Next
  BY <1>6 DEF Delivery, Deliver, DeliveryStep, DeliveryEnds, Next, Claim
<1>7. ASSUME NEW k \in Keys, LeaseExpires(k) PROVE Next
  BY <1>7 DEF LeaseExpires, Next
<1>8. ASSUME NEW w \in Workers, NEW p \in Plans, Begin(w, p) PROVE UNCHANGED vars
  BY <1>8 DEF Begin
<1>9. ASSUME NEW w \in Workers,
             Start(w) \/ Replay(w) \/ Pick(w) \/ Append(w) \/ Settle(w) \/ FailPlan(w)
      PROVE  UNCHANGED vars
  BY <1>9 DEF Start, Replay, Pick, Append, Settle, FailPlan
<1>10. QED
  BY <1>2, <1>3, <1>4, <1>5, <1>6, <1>7, <1>8, <1>9 DEF FactoryNext, Integrate

\* Each of the plan's stores has few writers.
LEMMA Writers ==
    ASSUME FactoryNext
    PROVE  /\ plan' # plan => \E w \in Workers : Start(w) \/ Settle(w) \/ FailPlan(w)
           /\ attested' # attested => \E w \in Workers : Append(w)
           /\ branch' # branch => \E w \in Workers : Publish(w)
           /\ picked' # picked => \E w \in Workers : Pick(w) \/ Conflict(w)
<1>1. ASSUME NEW w \in Workers, NEW p \in Plans, Begin(w, p)
      PROVE  UNCHANGED <<plan, attested, branch, picked>>
  BY <1>1 DEF Begin
<1>2. ASSUME NEW w \in Workers,
             Claimed(w) \/ Replay(w) \/ InProgress(w) \/ Passed(w)
               \/ Raise(w) \/ Conclude(w) \/ StoreFails(w)
      PROVE  UNCHANGED <<plan, attested, branch, picked>>
  BY <1>2 DEF Claimed, Replay, InProgress, Passed, Raise, Conclude,
              StoreFails, factoryVars
<1>3. ASSUME NEW w \in Workers, Delivery(w) \/ WorkerDies(w)
      PROVE  UNCHANGED <<plan, attested, branch, picked>>
  BY <1>3 DEF Delivery, Deliver, DeliveryStep, DeliveryEnds, WorkerDies, factoryVars
<1>4. ASSUME NEW k \in Keys, LeaseExpires(k)
      PROVE  UNCHANGED <<plan, attested, branch, picked>>
  BY <1>4 DEF LeaseExpires, factoryVars
<1>5. ASSUME NEW w \in Workers, Start(w) \/ Settle(w) \/ FailPlan(w)
      PROVE  UNCHANGED <<attested, branch, picked>>
  BY <1>5 DEF Start, Settle, FailPlan
<1>6. ASSUME NEW w \in Workers, Append(w)
      PROVE  UNCHANGED <<plan, branch, picked>>
  BY <1>6 DEF Append
<1>7. ASSUME NEW w \in Workers, Publish(w)
      PROVE  UNCHANGED <<plan, attested, picked>>
  BY <1>7 DEF Publish
<1>8. ASSUME NEW w \in Workers, Pick(w) \/ Conflict(w)
      PROVE  UNCHANGED <<plan, attested, branch>>
  BY <1>8 DEF Pick, Conflict
<1>9. QED
  BY <1>1, <1>2, <1>3, <1>4, <1>5, <1>6, <1>7, <1>8 DEF FactoryNext, Integrate

----------------------------------------------------------------------------
(* What a write may do.                                                    *)

\* A plan moves from READY to RUNNING and from there to its end, and ends well
\* or in a conflict only as its receipt says.
LEMMA PlanWrites ==
    ASSUME FactoryInv, FactoryNext
    PROVE  /\ plan' \in [Plans -> Plan]
           /\ \A p \in Plans :
                \/ plan'[p] = plan[p]
                \/ plan[p].status = "ready"
                     /\ plan'[p] = [status |-> "running", version |-> 1]
                \/ plan[p].status = "running"
                     /\ \E s \in {"failed", attested[p].status} \cap TerminalStatus :
                          plan'[p] = [status |-> s, version |-> 2]
<1> USE DEF FactoryInv, PlanTypes, Plan, Status, TerminalStatus
<1>1. CASE plan' = plan
  BY <1>1
<1>2. ASSUME NEW w \in Workers, Start(w), plan' # plan
      PROVE  /\ work[w].plan \in Plans
             /\ plan[work[w].plan].status = "ready"
             /\ plan' = [plan EXCEPT ![work[w].plan] = [status |-> "running", version |-> 1]]
  <2>1. Informed(work[w]) /\ work[w].pc = "start"
    BY <1>2 DEF Start, Doing, WorkInformed
  <2>2. work[w].version = 0 /\ work[w].plan \in Plans
    BY <2>1 DEF Informed, Work
  <2>3. QED
    BY <1>2, <2>2 DEF Start, CurrentVersion, SavePlan, Versions
<1>3. ASSUME NEW w \in Workers, Settle(w) \/ FailPlan(w), plan' # plan
      PROVE  /\ work[w].plan \in Plans
             /\ plan[work[w].plan].status = "running"
             /\ \E s \in {"failed", attested[work[w].plan].status} \cap TerminalStatus :
                  plan' = [plan EXCEPT ![work[w].plan] = [status |-> s, version |-> 2]]
  <2>1. Informed(work[w]) /\ work[w].pc \in {"settle", "failing"}
    BY <1>3 DEF Settle, FailPlan, Doing, WorkInformed
  <2>2. work[w].version = 1 /\ work[w].plan \in Plans
    BY <2>1 DEF Informed, Work
  <2>3. plan[work[w].plan].status = "running"
    BY <1>3, <2>2 DEF Settle, FailPlan, CurrentVersion, Versions
  <2>4. Settle(w) =>
          attested[work[w].plan].status = Outcome(work[w].plan, work[w].result)
    BY <2>1 DEF Settle, Doing, Informed
  <2>5. CASE Settle(w)
    <3>1. Outcome(work[w].plan, work[w].result)
            \in {"failed", attested[work[w].plan].status} \cap TerminalStatus
      BY <2>4, <2>5 DEF Outcome
    <3>2. plan' = [plan EXCEPT ![work[w].plan] =
                     [status |-> Outcome(work[w].plan, work[w].result), version |-> 2]]
      BY <1>3, <2>2, <2>5 DEF Settle, SavePlan
    <3>3. QED
      BY <2>2, <2>3, <3>1, <3>2
  <2>6. CASE FailPlan(w)
    <3>1. plan' = [plan EXCEPT ![work[w].plan] = [status |-> "failed", version |-> 2]]
      BY <1>3, <2>2, <2>6 DEF FailPlan, SavePlan
    <3>2. QED
      BY <2>2, <2>3, <3>1
  <2>7. QED
    BY <1>3, <2>5, <2>6
<1>4. ASSUME NEW w \in Workers, Start(w) \/ Settle(w) \/ FailPlan(w), plan' # plan
      PROVE  /\ plan' \in [Plans -> Plan]
             /\ \A p \in Plans :
                  \/ plan'[p] = plan[p]
                  \/ plan[p].status = "ready"
                       /\ plan'[p] = [status |-> "running", version |-> 1]
                  \/ plan[p].status = "running"
                       /\ \E s \in {"failed", attested[p].status} \cap TerminalStatus :
                            plan'[p] = [status |-> s, version |-> 2]
  <2>1. CASE Start(w)
    <3>1. /\ work[w].plan \in Plans
          /\ plan[work[w].plan].status = "ready"
          /\ plan' = [plan EXCEPT ![work[w].plan] = [status |-> "running", version |-> 1]]
      BY <1>2, <1>4, <2>1
    <3>2. [status |-> "running", version |-> 1] \in Plan
      OBVIOUS
    <3>3. QED
      BY <3>1, <3>2
  <2>2. CASE Settle(w) \/ FailPlan(w)
    <3>1. PICK s \in {"failed", attested[work[w].plan].status} \cap TerminalStatus :
             plan' = [plan EXCEPT ![work[w].plan] = [status |-> s, version |-> 2]]
      BY <1>3, <1>4, <2>2
    <3>2. [status |-> s, version |-> 2] \in Plan
      BY <3>1
    <3>3. work[w].plan \in Plans /\ plan[work[w].plan].status = "running"
      BY <1>3, <1>4, <2>2
    <3>4. QED
      BY <3>1, <3>2, <3>3
  <2>3. QED
    BY <1>4, <2>1, <2>2
<1>5. QED
  BY <1>1, <1>4, Writers

\* A receipt is appended once, for a result that was published or a conflict.
LEMMA AttestedWrites ==
    ASSUME FactoryInv, FactoryNext
    PROVE  /\ attested' \in [Plans -> [status : {"absent", "succeeded", "conflict"},
                                       result : 0 .. MaxClaims]]
           /\ \A p \in Plans :
                \/ attested'[p] = attested[p]
                \/ /\ attested[p] = NoAttestation
                   /\ attested'[p].status = Outcome(p, attested'[p].result)
                   /\ Published(p, attested'[p].result)
<1> USE DEF FactoryInv, PlanTypes
<1>1. CASE attested' = attested
  BY <1>1
<1>2. ASSUME NEW w \in Workers, Append(w), attested' # attested
      PROVE  LET p == work[w].plan IN
             /\ p \in Plans
             /\ work[w].result \in 0 .. MaxClaims
             /\ Published(p, work[w].result)
             /\ attested[p] \in {NoAttestation, Attestation(w)}
             /\ attested' = [attested EXCEPT ![p] = Attestation(w)]
  <2>1. Informed(work[w]) /\ work[w].pc = "append"
    BY <1>2 DEF Append, Doing, WorkInformed
  <2>2. QED
    BY <1>2, <2>1 DEF Append, Informed, Work
<1>3. ASSUME NEW w \in Workers, Append(w), attested' # attested
      PROVE  /\ Attestation(w) \in [status : {"absent", "succeeded", "conflict"},
                                    result : 0 .. MaxClaims]
             /\ Attestation(w).status = Outcome(work[w].plan, work[w].result)
             /\ Attestation(w).result = work[w].result
  BY <1>2, <1>3 DEF Attestation, Outcome
<1>4. ASSUME NEW w \in Workers, Append(w), attested' # attested
      PROVE  /\ attested' \in [Plans -> [status : {"absent", "succeeded", "conflict"},
                                         result : 0 .. MaxClaims]]
             /\ \A p \in Plans :
                  \/ attested'[p] = attested[p]
                  \/ /\ attested[p] = NoAttestation
                     /\ attested'[p].status = Outcome(p, attested'[p].result)
                     /\ Published(p, attested'[p].result)
  <2>1. /\ work[w].plan \in Plans
        /\ Published(work[w].plan, work[w].result)
        /\ attested[work[w].plan] \in {NoAttestation, Attestation(w)}
        /\ attested' = [attested EXCEPT ![work[w].plan] = Attestation(w)]
    BY <1>2, <1>4
  <2>2. QED
    BY <1>3, <1>4, <2>1
<1>5. QED
  BY <1>1, <1>4, Writers

\* A branch is pushed once.
LEMMA BranchWrites ==
    ASSUME FactoryInv, FactoryNext
    PROVE  /\ branch' \in [Branches -> Head \cup {None}]
           /\ \A b \in Branches : branch[b] # None => branch'[b] = branch[b]
<1> USE DEF FactoryInv, PlanTypes
<1>1. CASE branch' = branch
  BY <1>1
<1>2. ASSUME NEW w \in Workers, Publish(w)
      PROVE  /\ branch' \in [Branches -> Head \cup {None}]
             /\ \A b \in Branches : branch[b] # None => branch'[b] = branch[b]
  <2>1. work[w].plan \in Plans
    BY <1>2 DEF Publish, InEffect, Doing, WorkInformed, Work
  <2>2. PICK h : h = picked[work[w].plan][call[w].token]
    OBVIOUS
  <2>3. PICK b \in Branches : b = BranchOf[work[w].plan]
    BY <2>1
  <2>4. h \in Head /\ branch[b] = None /\ branch' = [branch EXCEPT ![b] = h]
    BY <1>2, <2>2, <2>3 DEF Publish, Publishable
  <2>5. QED
    BY <2>4
<1>3. QED
  BY <1>1, <1>2, Writers

\* What the cherry-picks of a claim ended in stays.
LEMMA PickedWrites ==
    ASSUME FactoryInv, FactoryNext
    PROVE  /\ picked' \in [Plans -> [1 .. MaxClaims -> Head \cup {None, Conflicted}]]
           /\ \A p \in Plans, n \in 1 .. MaxClaims :
                picked[p][n] # None => picked'[p][n] = picked[p][n]
<1> USE DEF FactoryInv, PlanTypes
<1>1. CASE picked' = picked
  BY <1>1
<1>2. ASSUME NEW w \in Workers, Pick(w) \/ Conflict(w)
      PROVE  LET p == work[w].plan
                 n == call[w].token
             IN  /\ p \in Plans /\ n \in 1 .. MaxClaims
                 /\ picked[p][n] = None
                 /\ \E h \in Head \cup {Conflicted} :
                      picked' = [picked EXCEPT ![p][n] = h]
  <2>1. work[w].plan \in Plans /\ call[w].token \in 1 .. MaxClaims
    BY <1>2 DEF Pick, Conflict, OperationReturns, OperationEnds, InEffect, Doing, At,
                WorkInformed, Work, TokensInRange
  <2>2. <<work[w].plan, call[w].token>> \in Head
    BY <2>1 DEF Head
  <2>3. BranchOf[work[w].plan] \in Branches
    BY <2>1
  <2>4. branch[BranchOf[work[w].plan]] \in Head \cup {None}
    BY <2>3
  <2>5. CASE Pick(w)
    BY <2>1, <2>2, <2>4, <2>5 DEF Pick
  <2>6. CASE Conflict(w)
    BY <2>1, <2>6 DEF Conflict
  <2>7. QED
    BY <1>2, <2>5, <2>6
<1>3. ASSUME NEW w \in Workers, Pick(w) \/ Conflict(w)
      PROVE  /\ picked' \in [Plans -> [1 .. MaxClaims -> Head \cup {None, Conflicted}]]
             /\ \A p \in Plans, n \in 1 .. MaxClaims :
                  picked[p][n] # None => picked'[p][n] = picked[p][n]
  <2>1. PICK h \in Head \cup {Conflicted} :
          picked' = [picked EXCEPT ![work[w].plan][call[w].token] = h]
    BY <1>2, <1>3
  <2>2. /\ work[w].plan \in Plans
        /\ call[w].token \in 1 .. MaxClaims
        /\ picked[work[w].plan][call[w].token] = None
    BY <1>2, <1>3
  <2>3. QED
    BY <2>1, <2>2
<1>4. QED
  BY <1>1, <1>3, Writers

\* What was published stays published.
LEMMA PublishedStays ==
    ASSUME FactoryInv, FactoryNext, NEW p \in Plans, NEW n, Published(p, n)
    PROVE  Published(p, n)' /\ Outcome(p, n)' = Outcome(p, n)
<1>1. n \in 1 .. MaxClaims /\ picked[p][n] # None /\ BranchOf[p] \in Branches
  BY DEF Published
<1>2. picked'[p][n] = picked[p][n]
  BY <1>1, PickedWrites
<1>3. picked[p][n] \in Head => branch'[BranchOf[p]] = branch[BranchOf[p]]
  BY <1>1, BranchWrites DEF Published
<1>4. QED
  BY <1>1, <1>2, <1>3 DEF Published, Outcome

\* What a worker knows stays true while others work.
LEMMA InformedStays ==
    ASSUME FactoryInv, FactoryNext, NEW r, Informed(r)
    PROVE  Informed(r)'
<1>1. r.plan \in Plans
  BY DEF Informed, Work
<1>2. PICK p \in Plans : p = r.plan
  BY <1>1
<1>3. PICK n : n = r.result
  OBVIOUS
<1>4. r.pc \in {"append", "settle"} =>
        Published(p, n)' /\ Outcome(p, n)' = Outcome(p, n)
  BY <1>2, <1>3, PublishedStays DEF Informed
<1>5. r.pc = "settle" => attested'[p].status = Outcome(p, n)
  <2>1. r.pc = "settle" => attested[p].status = Outcome(p, n)
    BY <1>2, <1>3 DEF Informed
  <2>2. Outcome(p, n) # "absent"
    BY DEF Outcome
  <2>3. QED
    BY <1>2, <2>1, <2>2, AttestedWrites DEF NoAttestation
<1>6. QED
  BY <1>2, <1>3, <1>4, <1>5 DEF Informed

----------------------------------------------------------------------------
(* What the receipt boundary may do.                                       *)

\* The number after one below the bound.
LEMMA NextUpTo ==
    ASSUME NEW m \in Nat, NEW n \in 1 .. m, n # m
    PROVE  n + 1 \in 1 .. m
  OBVIOUS

\* Tokens count claims up to the bound.
LEMMA TokensStep ==
    ASSUME ReceiptInv, TokensInRange, [Next]_vars
    PROVE  TokensInRange'
<1> USE DEF ReceiptInv, TypeOK, Receipt, Call, TokensInRange
<1>1. ASSUME NEW w \in Workers, NEW k \in Keys, NEW request \in Requests,
             InsertReceipt(w, k, request)
      PROVE  TokensInRange'
  BY <1>1 DEF InsertReceipt, Fresh, Run
<1>2. ASSUME NEW w \in Workers, NEW k \in Keys, NEW request \in Requests,
             ReadReceipt(w, k, request)
      PROVE  TokensInRange'
  BY <1>2 DEF ReadReceipt, Recoverable
<1>3. ASSUME NEW w \in Workers, TakeOver(w) PROVE TokensInRange'
  <2>1. /\ call[w] # None /\ call[w].key \in Keys
        /\ Fresh(call[w].key) \in 1 .. MaxClaims
    <3>1. call[w] # None /\ call[w].key \in Keys /\ call[w].pc = "recovering"
      BY <1>3 DEF TakeOver, At
    <3>2. call[w].token \in 1 .. MaxClaims /\ call[w].token # MaxClaims
      BY <3>1
    <3>3. call[w].token + 1 \in 1 .. MaxClaims
      <4>1. MaxClaims \in Nat
        BY SideEffectsAssumption
      <4>2. QED
        BY <3>2, <4>1, NextUpTo
    <3>4. receipt[call[w].key].token = call[w].token
      BY <1>3 DEF TakeOver, TokenUnchanged
    <3>5. QED
      BY <3>1, <3>3, <3>4 DEF Fresh
  <2>2. /\ receipt' = [receipt EXCEPT ![call[w].key] = Taken(@, call[w])]
        /\ call' = [call EXCEPT ![w] = [pc |-> "running", key |-> call[w].key,
                                        request |-> call[w].request,
                                        token |-> Fresh(call[w].key)]]
    BY <1>3 DEF TakeOver, Run
  <2>3. QED
    BY <2>1, <2>2 DEF Taken
<1>4. ASSUME NEW w \in Workers, LoseTakeOver(w) \/ FinishStale(w) \/ Crash(w)
      PROVE  TokensInRange'
  BY <1>4 DEF LoseTakeOver, FinishStale, Crash, Return
<1>5. ASSUME NEW w \in Workers, OperationReturns(w) \/ OperationRaises(w)
      PROVE  TokensInRange'
  BY <1>5 DEF OperationReturns, OperationRaises, OperationEnds, At
<1>6. ASSUME NEW w \in Workers, Finish(w) PROVE TokensInRange'
  BY <1>6 DEF Finish, At, Owns, Finished, Return
<1>7. ASSUME NEW k \in Keys, Expire(k) PROVE TokensInRange'
  BY <1>7 DEF Expire
<1>8. CASE UNCHANGED vars
  BY <1>8 DEF vars
<1>9. ASSUME NEW w \in Workers, Mutate(w) PROVE TokensInRange'
  BY <1>9 DEF Mutate
<1>10. QED
  BY <1>1, <1>2, <1>3, <1>4, <1>5, <1>6, <1>7, <1>8, <1>9 DEF Next, Claim

\* A receipt stays bound to its request, and is completed by the call whose
\* operation returned, with the token of that call.
ReceiptWrites ==
    \A k \in Keys :
        /\ receipt[k].status # "absent" =>
             receipt'[k].status # "absent" /\ receipt'[k].request = receipt[k].request
        /\ receipt'[k].status = "completed" =>
             \/ receipt'[k] = receipt[k]
             \/ \E w \in Workers : /\ call[w] # None
                                   /\ call[w].key = k
                                   /\ call[w].pc = "returned"
                                   /\ receipt'[k].result = call[w].token

\* Every step of the receipt boundary writes receipts that way.
LEMMA ReceiptWritesStep ==
    ASSUME ReceiptInv, [Next]_vars
    PROVE  ReceiptWrites
<1> USE DEF ReceiptInv, TypeOK, Receipt, Call, ReceiptWrites
<1>1. ASSUME NEW w \in Workers, NEW k \in Keys, NEW request \in Requests,
             InsertReceipt(w, k, request)
      PROVE  ReceiptWrites
  BY <1>1 DEF InsertReceipt
<1>2. ASSUME NEW w \in Workers, TakeOver(w) PROVE ReceiptWrites
  BY <1>2 DEF TakeOver, At, Taken
<1>3. ASSUME NEW w \in Workers, Finish(w) PROVE ReceiptWrites
  BY <1>3 DEF Finish, At, Owns, Finished
<1>4. CASE receipt' = receipt
  BY <1>4
<1>5. QED
  BY <1>1, <1>2, <1>3, <1>4
     DEF Next, Claim, ReadReceipt, LoseTakeOver, Mutate, OperationReturns,
         OperationRaises, OperationEnds, FinishStale, Crash, Expire, vars

\* No operation returned in this step.
NoReturn ==
    \A v \in Workers :
        call'[v] # None /\ call'[v].pc = "returned" => call'[v] = call[v]

\* Only OperationReturns makes an operation return.
LEMMA Quiet ==
    ASSUME ReceiptInv, NEW w \in Workers,
           \/ \E k \in Keys, request \in Requests :
                InsertReceipt(w, k, request) \/ ReadReceipt(w, k, request)
           \/ TakeOver(w) \/ LoseTakeOver(w) \/ OperationRaises(w)
           \/ Finish(w) \/ FinishStale(w)
           \/ call' = [call EXCEPT ![w] = None]
    PROVE  NoReturn
BY DEF ReceiptInv, TypeOK, Call, NoReturn, InsertReceipt, Run, ReadReceipt, TakeOver,
       LoseTakeOver, OperationRaises, OperationEnds, At, Finish, FinishStale, Return

\* In every step of the composition an operation returns only after a conflict,
\* at the published head, or in a delivery.
LEMMA ReturnedIsPublished ==
    ASSUME FactoryInv, FactoryNext, NEW v \in Workers,
           call'[v] # None, call'[v].pc = "returned", call'[v].key \in Plans
    PROVE  Published(call[v].key, call[v].token)'
<1>1. call \in [Workers -> Call \cup {None}] /\ ReceiptInv
  BY DEF FactoryInv, ReceiptInv, TypeOK
<1>0. ASSUME call'[v] = call[v] PROVE Published(call[v].key, call[v].token)'
  <2>1. PICK p \in Plans : p = call[v].key
    BY <1>0
  <2>2. PICK n : n = call[v].token
    OBVIOUS
  <2>3. Published(p, n)'
    BY <1>0, <2>1, <2>2, PublishedStays DEF FactoryInv, CallEvidence
  <2>4. QED
    BY <1>0, <2>1, <2>2, <2>3
<1>2. CASE NoReturn
  BY <1>2, <1>0 DEF NoReturn
<1>3. CASE call' = call
  BY <1>3, <1>0
<1>4. \A w \in Workers : work[w] # None => work[w].plan \in Keys /\ work[w].plan \in Requests
  BY DEF FactoryInv, WorkInformed, Work
<1>5. ASSUME NEW w \in Workers, Claimed(w) PROVE NoReturn
  BY <1>1, <1>4, <1>5, Quiet DEF Claimed, InEffect, Doing
<1>6. ASSUME NEW w \in Workers, InProgress(w) PROVE NoReturn \/ call' = call
  BY <1>1, <1>6, Quiet DEF InProgress, vars
<1>7. ASSUME NEW w \in Workers,
             Raise(w) \/ Conclude(w) \/ StoreFails(w) \/ WorkerDies(w) \/ DeliveryEnds(w)
      PROVE  NoReturn
  BY <1>1, <1>7, Quiet DEF Raise, Conclude, StoreFails, WorkerDies, DeliveryEnds
<1>8. ASSUME NEW w \in Workers, NEW d \in Deliveries, NEW h \in Shipment, Deliver(w, d, h)
      PROVE  NoReturn
  BY <1>1, <1>8, Quiet DEF Deliver
<1>9. ASSUME NEW w \in Workers, DeliveryStep(w), ~NoReturn, call' # call
      PROVE  Published(call[v].key, call[v].token)'
  <2>1. OperationReturns(w) /\ call[w].key \in Deliveries
    BY <1>1, <1>9, Quiet DEF DeliveryStep, Doing, Mutate, OperationReturns, OperationEnds,
                             At, FactoryInv, CallsInWork
  <2>2. v # w
    BY <1>1, <2>1 DEF OperationReturns, OperationEnds, At, Call
  <2>3. call'[v] = call[v]
    BY <1>1, <2>1, <2>2 DEF OperationReturns, OperationEnds
  <2>4. QED
    BY <1>0, <2>3
<1>10. ASSUME NEW w \in Workers, Conflict(w) \/ Passed(w)
       PROVE  Published(call[v].key, call[v].token)'
  <2>1. CASE v # w
    <3>1. call'[v] = call[v]
      BY <1>1, <1>10, <2>1 DEF Conflict, Passed, OperationReturns, OperationEnds
    <3>2. QED
      BY <1>0, <3>1
  <2>2. CASE v = w
    <3>1. /\ call[w] # None /\ call[w].key = work[w].plan /\ call[w] \in Call
          /\ call[w].token \in 1 .. MaxClaims
      BY <1>1, <1>10 DEF Conflict, Passed, OperationReturns, OperationEnds, At,
                         InEffect, Doing, FactoryInv, CallsInWork, TokensInRange
    <3>2. call'[w].key = work[w].plan /\ call'[w].token = call[w].token
      BY <1>1, <1>10, <3>1 DEF Conflict, Passed, OperationReturns, OperationEnds, Call
    <3>3. PICK p \in Plans : p = work[w].plan
      BY <2>2, <3>2
    <3>4. PICK n \in 1 .. MaxClaims : n = call[w].token
      BY <3>1
    <3>5. CASE Conflict(w)
      <4>1. picked' = [picked EXCEPT ![p][n] = Conflicted]
        BY <3>3, <3>4, <3>5 DEF Conflict
      <4>2. picked'[p][n] = Conflicted
        BY <4>1 DEF FactoryInv, PlanTypes
      <4>3. QED
        BY <2>2, <3>2, <3>3, <3>4, <4>2 DEF Published
    <3>6. CASE Passed(w)
      <4>1. Published(p, n)
        BY <3>3, <3>4, <3>6 DEF Passed, AtHead, Published
      <4>2. Published(p, n)'
        BY <4>1, PublishedStays
      <4>3. QED
        BY <2>2, <3>2, <3>3, <3>4, <4>2
    <3>7. QED
      BY <1>10, <3>5, <3>6
  <2>3. QED
    BY <2>1, <2>2
<1>11. ASSUME NEW w \in Workers, NEW p \in Plans, Begin(w, p) PROVE call' = call
  BY <1>11 DEF Begin, vars
<1>12. ASSUME NEW w \in Workers,
              Start(w) \/ Replay(w) \/ Pick(w) \/ Publish(w) \/ Append(w)
                \/ Settle(w) \/ FailPlan(w)
       PROVE  call' = call
  BY <1>12 DEF Start, Replay, Pick, Publish, Mutate, Append, Settle, FailPlan, vars
<1>13. ASSUME NEW k \in Keys, LeaseExpires(k) PROVE call' = call
  BY <1>13 DEF LeaseExpires, Expire
<1>14. QED
  BY <1>2, <1>3, <1>5, <1>6, <1>7, <1>8, <1>9, <1>10, <1>11, <1>12, <1>13
     DEF FactoryNext, Integrate, Delivery

\* The first claim of a delivery binds it to the published head of a plan that
\* succeeded.
LEMMA DeliveryIsBound ==
    ASSUME FactoryInv, FactoryNext, NEW k \in Deliveries,
           receipt[k].status = "absent", receipt'[k].status # "absent"
    PROVE  receipt'[k].request \in Shipment /\ Bound(receipt'[k].request)
<1>1. receipt \in [Keys -> Receipt] /\ CallsBound /\ k \in Keys
  BY DEF FactoryInv, ReceiptInv, TypeOK
<1>2. \A w \in Workers : work[w] # None => work[w].plan \in Plans
  BY DEF FactoryInv, WorkInformed, Work
<1>3. ASSUME NEW w \in Workers, TakeOver(w) \/ Finish(w) PROVE FALSE
  <2>1. call[w] # None /\ receipt[call[w].key].status # "absent"
    BY <1>1, <1>3 DEF TakeOver, Finish, At, CallsBound, CallIsBound
  <2>2. QED
    BY <1>1, <1>3, <2>1 DEF TakeOver, Finish
<1>4. ASSUME NEW w \in Workers, Claimed(w) PROVE FALSE
  BY <1>1, <1>2, <1>3, <1>4 DEF Claimed, InEffect, Doing, InsertReceipt, ReadReceipt
<1>5. ASSUME NEW w \in Workers, Conclude(w) \/ DeliveryStep(w) \/ DeliveryEnds(w)
      PROVE  FALSE
  BY <1>3, <1>5 DEF Conclude, DeliveryStep, DeliveryEnds, Mutate, OperationReturns,
                    OperationRaises, OperationEnds, LoseTakeOver, FinishStale
<1>6. ASSUME NEW w \in Workers, NEW d \in Deliveries, NEW h \in Shipment, Deliver(w, d, h)
      PROVE  receipt'[k].request = h /\ Bound(h)
  BY <1>1, <1>6 DEF Deliver, InsertReceipt, ReadReceipt
<1>7. receipt' # receipt
  OBVIOUS
<1>8. ASSUME NEW w \in Workers, NEW p \in Plans, Begin(w, p) PROVE FALSE
  BY <1>7, <1>8 DEF Begin, vars
<1>9. ASSUME NEW w \in Workers,
             Start(w) \/ Replay(w) \/ Pick(w) \/ Publish(w) \/ Append(w)
               \/ Settle(w) \/ FailPlan(w)
      PROVE  FALSE
  BY <1>7, <1>9 DEF Start, Replay, Pick, Publish, Mutate, Append, Settle, FailPlan, vars
<1>10. ASSUME NEW w \in Workers,
              InProgress(w) \/ Conflict(w) \/ Passed(w) \/ Raise(w)
                \/ StoreFails(w) \/ WorkerDies(w)
       PROVE  FALSE
  BY <1>7, <1>10 DEF InProgress, Conflict, Passed, Raise, StoreFails, WorkerDies, vars,
                     LoseTakeOver, FinishStale, OperationReturns, OperationRaises,
                     OperationEnds
<1>11. ASSUME NEW x \in Keys, LeaseExpires(x) PROVE FALSE
  BY <1>7, <1>11 DEF LeaseExpires, Expire
<1>12. QED
  BY <1>4, <1>5, <1>6, <1>8, <1>9, <1>10, <1>11 DEF FactoryNext, Integrate, Delivery

----------------------------------------------------------------------------
(* What a worker knows.                                                    *)

\* A step that gives one worker other work leaves the others what they know.
LEMMA OthersInformed ==
    ASSUME FactoryInv, FactoryNext, NEW w \in Workers, NEW r,
           work' = [work EXCEPT ![w] = r], r # None => Informed(r)'
    PROVE  WorkInformed'
<1>1. work \in [Workers -> Work \cup {None}]
  BY DEF FactoryInv, WorkInformed
<1>2. r \in Work \cup {None}
  BY DEF Informed
<1>3. ASSUME NEW v \in Workers, work'[v] # None PROVE Informed(work[v])'
  <2>1. CASE v = w
    BY <1>1, <1>3, <2>1 DEF Informed
  <2>2. CASE v # w
    <3>1. PICK x : x = work[v]
      OBVIOUS
    <3>2. work'[v] = x /\ Informed(x)
      BY <1>1, <1>3, <2>2, <3>1 DEF FactoryInv, WorkInformed
    <3>3. Informed(x)'
      BY <3>2, InformedStays
    <3>4. QED
      BY <3>2, <3>3 DEF Informed
  <2>3. QED
    BY <2>1, <2>2
<1>4. QED
  BY <1>1, <1>2, <1>3 DEF WorkInformed

\* Each step leaves its worker with what the code is about to rely on.
LEMMA WorkInformedStep ==
    ASSUME FactoryInv, FactoryNext
    PROVE  WorkInformed'
<1>1. work \in [Workers -> Work \cup {None}]
  BY DEF FactoryInv, WorkInformed
<1>2. CASE work' = work
  <2>1. ASSUME NEW v \in Workers, work'[v] # None PROVE Informed(work[v])'
    <3>1. PICK x : x = work[v]
      OBVIOUS
    <3>2. work'[v] = x /\ Informed(x)
      BY <1>2, <2>1, <3>1 DEF FactoryInv, WorkInformed
    <3>3. Informed(x)'
      BY <3>2, InformedStays
    <3>4. QED
      BY <3>2, <3>3 DEF Informed
  <2>2. QED
    BY <1>1, <1>2, <2>1 DEF WorkInformed
<1>3. ASSUME NEW w \in Workers, End(w) PROVE WorkInformed'
  BY <1>3, OthersInformed DEF End
<1>4. ASSUME NEW w \in Workers, NEW p \in Plans, Begin(w, p) PROVE WorkInformed'
  <2>1. PICK r : r = [pc |-> IF plan[p].status = "ready" THEN "start" ELSE "effect",
                      plan |-> p, version |-> plan[p].version, result |-> 0]
    OBVIOUS
  <2>2. /\ r \in Work
        /\ r.pc \in {"start", "effect"}
        /\ r.pc = "start" => r.version = 0
        /\ r.pc = "effect" => r.version = 1
    <3>1. plan[p].version \in 0 .. 2 /\ plan[p].status \in {"ready", "running"}
      BY <1>4 DEF Begin, FactoryInv, PlanTypes, Plan
    <3>2. r \in Work /\ r.pc \in {"start", "effect"}
      BY <2>1, <3>1 DEF Work
    <3>3. QED
      BY <2>1, <3>1, <3>2 DEF FactoryInv, Versions
  <2>3. Informed(r)'
    BY <2>2 DEF Informed
  <2>4. work' = [work EXCEPT ![w] = r]
    BY <1>4, <2>1 DEF Begin
  <2>5. QED
    BY <2>3, <2>4, OthersInformed
<1>5. ASSUME NEW w \in Workers, Start(w) PROVE WorkInformed'
  <2>1. Informed(work[w]) /\ work[w].pc = "start" /\ work[w] \in Work
    BY <1>5 DEF Start, Doing, FactoryInv, WorkInformed, Informed
  <2>2. CASE CurrentVersion(w)
    <3>1. PICK r : r = [work[w] EXCEPT !.pc = "effect", !.version = 1]
      OBVIOUS
    <3>2. r \in Work /\ r.pc = "effect" /\ r.version = 1
      <4>1. ASSUME NEW x \in Work, NEW n \in 0 .. 2
            PROVE  /\ [x EXCEPT !.pc = "effect", !.version = n] \in Work
                   /\ [x EXCEPT !.pc = "effect", !.version = n].pc = "effect"
                   /\ [x EXCEPT !.pc = "effect", !.version = n].version = n
        BY DEF Work
      <4>2. 1 \in 0 .. 2
        OBVIOUS
      <4>3. QED
        BY <2>1, <3>1, <4>1, <4>2
    <3>3. Informed(r)'
      BY <3>2 DEF Informed
    <3>4. work' = [work EXCEPT ![w] = r]
      BY <1>1, <1>5, <2>1, <2>2, <3>1 DEF Start, Informed, Work
    <3>5. QED
      BY <3>3, <3>4, OthersInformed
  <2>3. QED
    BY <1>3, <1>5, <2>2 DEF Start
<1>6. ASSUME NEW w \in Workers, Append(w) PROVE WorkInformed'
  <2>1. Informed(work[w]) /\ work[w].pc = "append" /\ work[w] \in Work
    BY <1>6 DEF Append, Doing, FactoryInv, WorkInformed, Informed
  <2>2. CASE Goto(w, "settle") /\ attested' = [attested EXCEPT ![work[w].plan] = Attestation(w)]
    <3>1. PICK r : r = [work[w] EXCEPT !.pc = "settle"]
      OBVIOUS
    <3>2. r \in Work /\ r.pc = "settle" /\ r.version = 1 /\ r.plan = work[w].plan
      BY <2>1, <3>1 DEF Informed, Work
    <3>3. r.plan \in Plans /\ r.result = work[w].result
      BY <2>1, <3>1, <3>2 DEF Work
    <3>4. attested'[r.plan].status = Outcome(r.plan, r.result)
      BY <2>2, <3>2, <3>3 DEF Attestation, FactoryInv, PlanTypes
    <3>7. PICK p \in Plans : p = r.plan
      BY <3>3
    <3>8. PICK n : n = r.result
      OBVIOUS
    <3>9. Published(p, n)
      BY <2>1, <3>2, <3>3, <3>7, <3>8 DEF Informed
    <3>10. Published(p, n)' /\ Outcome(p, n)' = Outcome(p, n)
      BY <3>9, PublishedStays
    <3>11. Informed(r)'
      BY <3>2, <3>4, <3>7, <3>8, <3>10 DEF Informed
    <3>5. work' = [work EXCEPT ![w] = r]
      BY <1>1, <2>2, <3>1 DEF Goto
    <3>6. QED
      BY <3>5, <3>11, OthersInformed
  <2>3. QED
    BY <1>3, <1>6, <2>2 DEF Append
<1>7. ASSUME NEW w \in Workers, NEW n \in 0 .. MaxClaims, work[w] # None,
             work[w].pc = "effect", Published(work[w].plan, n),
             work' = [work EXCEPT ![w].pc = "append", ![w].result = n]
      PROVE  WorkInformed'
  <2>1. Informed(work[w]) /\ work[w] \in Work
    BY <1>7 DEF FactoryInv, WorkInformed, Informed
  <2>2. PICK r : r = [work[w] EXCEPT !.pc = "append", !.result = n]
    OBVIOUS
  <2>3. /\ r \in Work /\ r.pc = "append" /\ r.version = 1
        /\ r.plan = work[w].plan /\ r.result = n
    BY <1>7, <2>1, <2>2 DEF Informed, Work
  <2>4. Published(r.plan, r.result)'
    <3>1. PICK p \in Plans : p = work[w].plan
      BY <2>1 DEF Work
    <3>2. Published(p, n)'
      BY <1>7, <3>1, PublishedStays
    <3>3. QED
      BY <2>3, <3>1, <3>2
  <2>5. Informed(r)'
    BY <2>3, <2>4 DEF Informed
  <2>6. work' = [work EXCEPT ![w] = r]
    BY <1>1, <1>7, <2>2
  <2>7. QED
    BY <2>5, <2>6, OthersInformed
<1>8. ASSUME NEW w \in Workers, Replay(w) PROVE WorkInformed'
  <2>1. work[w] # None /\ work[w].pc = "effect" /\ work[w].plan \in Plans
    BY <1>8 DEF Replay, InEffect, Doing, FactoryInv, WorkInformed, Work
  <2>2. /\ Published(work[w].plan, receipt[work[w].plan].result)
        /\ receipt[work[w].plan].result \in 0 .. MaxClaims
    BY <1>8, <2>1 DEF Replay, FactoryInv, PlanEvidence, TokensInRange
  <2>3. QED
    BY <1>7, <1>8, <2>1, <2>2 DEF Replay
<1>9. ASSUME NEW w \in Workers, work[w] # None, work[w].pc = "effect", Goto(w, "failing")
      PROVE  WorkInformed'
  <2>1. Informed(work[w]) /\ work[w] \in Work
    BY <1>9 DEF FactoryInv, WorkInformed, Informed
  <2>2. PICK r : r = [work[w] EXCEPT !.pc = "failing"]
    OBVIOUS
  <2>3. r \in Work /\ r.pc = "failing" /\ r.version = 1
    BY <1>9, <2>1, <2>2 DEF Informed, Work
  <2>4. Informed(r)'
    BY <2>3 DEF Informed
  <2>5. work' = [work EXCEPT ![w] = r]
    BY <1>1, <1>9, <2>2 DEF Goto
  <2>6. QED
    BY <2>4, <2>5, OthersInformed
<1>10. ASSUME NEW w \in Workers, Conclude(w) PROVE WorkInformed'
  <2>1. work[w] # None /\ work[w].pc = "effect" /\ work[w].plan \in Plans
    BY <1>10 DEF Conclude, InEffect, Doing, FactoryInv, WorkInformed, Work
  <2>2. /\ call[w] # None /\ call[w].key = work[w].plan
        /\ call[w].token \in 0 .. MaxClaims
    BY <1>10, <2>1 DEF Conclude, Finish, At, FactoryInv, CallsInWork, TokensInRange
  <2>3. call[w].pc = "returned" => Published(work[w].plan, call[w].token)
    BY <2>1, <2>2 DEF FactoryInv, CallEvidence
  <2>4. QED
    BY <1>7, <1>9, <1>10, <2>1, <2>2, <2>3 DEF Conclude, Goto
<1>11. ASSUME NEW w \in Workers, StoreFails(w) PROVE WorkInformed'
  BY <1>9, <1>11 DEF StoreFails, InEffect, Doing
<1>12. ASSUME NEW w \in Workers, NEW d \in Deliveries, NEW h \in Shipment, Deliver(w, d, h)
       PROVE  WorkInformed'
  <2>1. PICK r : r = [pc |-> "deliver", plan |-> h.plan, version |-> 0, result |-> 0]
    OBVIOUS
  <2>2. r \in Work /\ r.pc = "deliver"
    BY <2>1 DEF Work, Shipment
  <2>3. Informed(r)'
    BY <2>2 DEF Informed
  <2>4. work' = [work EXCEPT ![w] = r]
    BY <1>12, <2>1 DEF Deliver
  <2>5. QED
    BY <2>3, <2>4, OthersInformed
<1>13. ASSUME NEW w \in Workers,
              Settle(w) \/ FailPlan(w) \/ InProgress(w) \/ WorkerDies(w) \/ DeliveryEnds(w)
       PROVE  WorkInformed'
  BY <1>3, <1>13 DEF Settle, FailPlan, InProgress, WorkerDies, DeliveryEnds
<1>14. ASSUME NEW w \in Workers,
              Claimed(w) \/ Conflict(w) \/ Pick(w) \/ Publish(w) \/ Passed(w)
                \/ Raise(w) \/ DeliveryStep(w)
       PROVE  work' = work
  BY <1>14 DEF Claimed, Conflict, Pick, Publish, Passed, Raise, DeliveryStep, factoryVars
<1>15. ASSUME NEW k \in Keys, LeaseExpires(k) PROVE work' = work
  BY <1>15 DEF LeaseExpires, factoryVars
<1>16. QED
  BY <1>2, <1>4, <1>5, <1>6, <1>8, <1>10, <1>11, <1>12, <1>13, <1>14, <1>15
     DEF FactoryNext, Integrate, Delivery

\* A call is made, and ends, within the work it belongs to.
LEMMA CallsInWorkStep ==
    ASSUME FactoryInv, FactoryNext
    PROVE  CallsInWork'
<1>1. /\ work \in [Workers -> Work \cup {None}]
      /\ call \in [Workers -> Call \cup {None}]
      /\ CallsInWork
  BY DEF FactoryInv, ReceiptInv, TypeOK, WorkInformed
<1>2. \A w \in Workers : work[w] # None => work[w] \in Work /\ work[w].plan \in Plans
  BY <1>1 DEF Work
<1>3. ASSUME NEW w \in Workers,
             call' = [call EXCEPT ![w] = None],
             \A v \in Workers \ {w} : work'[v] = work[v]
      PROVE  CallsInWork'
  BY <1>1, <1>3 DEF CallsInWork
<1>4. ASSUME NEW w \in Workers, call' = call, call[w] = None,
             \A v \in Workers \ {w} : work'[v] = work[v]
      PROVE  CallsInWork'
  BY <1>1, <1>4 DEF CallsInWork
<1>5. ASSUME NEW w \in Workers, NEW c \in Call, work' = work, work[w] # None,
             call' = [call EXCEPT ![w] = c],
             \/ work[w].pc = "effect" /\ c.key = work[w].plan
             \/ work[w].pc = "deliver" /\ c.key \in Deliveries
      PROVE  CallsInWork'
  BY <1>1, <1>5 DEF CallsInWork
<1>6. CASE work' = work /\ call' = call
  BY <1>1, <1>6 DEF CallsInWork
<1>7. ASSUME NEW w \in Workers, work' = work,
             TakeOver(w) \/ Mutate(w) \/ OperationReturns(w) \/ OperationRaises(w)
      PROVE  CallsInWork'
  <2>1. call[w] # None /\ call[w] \in Call /\ call[w].key \in Keys
    BY <1>1, <1>7 DEF TakeOver, Mutate, OperationReturns, OperationRaises,
                      OperationEnds, At, Call
  <2>2. CASE TakeOver(w)
    <3>1. PICK c : c = [pc |-> "running", key |-> call[w].key,
                        request |-> call[w].request, token |-> Fresh(call[w].key)]
      OBVIOUS
    <3>2. receipt[call[w].key].token \in Nat
      BY <2>1 DEF FactoryInv, ReceiptInv, TypeOK, Receipt
    <3>3. Fresh(call[w].key) \in Nat
      BY <3>2 DEF Fresh
    <3>4. c \in Call /\ c.key = call[w].key
      BY <2>1, <3>1, <3>3 DEF Call
    <3>5. call' = [call EXCEPT ![w] = c]
      BY <2>2, <3>1 DEF TakeOver, Run
    <3>6. QED
      BY <1>1, <1>5, <1>7, <2>1, <3>4, <3>5 DEF CallsInWork
  <2>3. ASSUME NEW pc \in {"returned", "raised"}, call' = [call EXCEPT ![w].pc = pc]
        PROVE  CallsInWork'
    <3>1. PICK c : c = [call[w] EXCEPT !.pc = pc]
      OBVIOUS
    <3>2. c \in Call /\ c.key = call[w].key
      BY <2>1, <3>1 DEF Call
    <3>3. call' = [call EXCEPT ![w] = c]
      BY <1>1, <2>3, <3>1
    <3>4. QED
      BY <1>1, <1>5, <1>7, <2>1, <3>2, <3>3 DEF CallsInWork
  <2>4. QED
    BY <1>6, <1>7, <2>2, <2>3 DEF Mutate, OperationReturns, OperationRaises, OperationEnds
<1>8. ASSUME NEW w \in Workers, NEW p \in Plans, Begin(w, p) PROVE CallsInWork'
  BY <1>1, <1>4, <1>8 DEF Begin, CallsInWork, vars
<1>9. ASSUME NEW w \in Workers, Start(w) PROVE CallsInWork'
  BY <1>1, <1>2, <1>4, <1>9 DEF Start, Doing, End, CallsInWork, vars
<1>10. ASSUME NEW w \in Workers, Replay(w) PROVE CallsInWork'
  BY <1>1, <1>4, <1>10 DEF Replay, vars
<1>11. ASSUME NEW w \in Workers, Append(w) \/ Settle(w) \/ FailPlan(w) PROVE CallsInWork'
  BY <1>1, <1>4, <1>11 DEF Append, Settle, FailPlan, Doing, Goto, End, CallsInWork, vars
<1>12. ASSUME NEW w \in Workers, Pick(w) \/ Publish(w) PROVE CallsInWork'
  BY <1>6, <1>12 DEF Pick, Publish, Mutate, vars
<1>13. ASSUME NEW w \in Workers, InProgress(w) PROVE CallsInWork'
  BY <1>1, <1>3, <1>4, <1>13 DEF InProgress, End, LoseTakeOver, FinishStale, Return, vars
<1>14. ASSUME NEW w \in Workers, Conclude(w) PROVE CallsInWork'
  BY <1>1, <1>3, <1>14 DEF Conclude, Finish, Return
<1>15. ASSUME NEW w \in Workers, StoreFails(w) \/ WorkerDies(w) PROVE CallsInWork'
  BY <1>1, <1>3, <1>15 DEF StoreFails, WorkerDies, Goto, End
<1>16. ASSUME NEW w \in Workers, DeliveryEnds(w) PROVE CallsInWork'
  BY <1>1, <1>3, <1>16 DEF DeliveryEnds, LoseTakeOver, Finish, FinishStale, Return, End
<1>17. ASSUME NEW w \in Workers,
              Conflict(w) \/ Passed(w) \/ Raise(w) \/ DeliveryStep(w)
       PROVE  CallsInWork'
  BY <1>7, <1>17 DEF Conflict, Passed, Raise, DeliveryStep, factoryVars
<1>18. ASSUME NEW w \in Workers, Claimed(w) PROVE CallsInWork'
  <2>1. /\ work' = work /\ work[w] # None /\ work[w].pc = "effect"
        /\ work[w].plan \in Keys /\ work[w].plan \in Requests
    BY <1>2, <1>18 DEF Claimed, InEffect, Doing, factoryVars
  <2>2. receipt[work[w].plan].token \in Nat
    BY <2>1 DEF FactoryInv, ReceiptInv, TypeOK, Receipt
  <2>3. CASE InsertReceipt(w, work[w].plan, work[w].plan)
    <3>1. PICK c : c = [pc |-> "running", key |-> work[w].plan,
                        request |-> work[w].plan, token |-> Fresh(work[w].plan)]
      OBVIOUS
    <3>2. Fresh(work[w].plan) \in Nat
      BY <2>2 DEF Fresh
    <3>3. c \in Call /\ c.key = work[w].plan
      BY <2>1, <3>1, <3>2 DEF Call
    <3>4. call' = [call EXCEPT ![w] = c]
      BY <2>3, <3>1 DEF InsertReceipt, Run
    <3>5. QED
      BY <1>5, <2>1, <3>3, <3>4
  <2>4. CASE ReadReceipt(w, work[w].plan, work[w].plan)
    <3>1. PICK c : c = [pc |-> "recovering", key |-> work[w].plan,
                        request |-> work[w].plan, token |-> receipt[work[w].plan].token]
      OBVIOUS
    <3>2. c \in Call /\ c.key = work[w].plan
      BY <2>1, <2>2, <3>1 DEF Call
    <3>3. call' = [call EXCEPT ![w] = c]
      BY <2>4, <3>1 DEF ReadReceipt
    <3>4. QED
      BY <1>5, <2>1, <3>2, <3>3
  <2>5. QED
    BY <1>7, <1>18, <2>1, <2>3, <2>4 DEF Claimed
<1>19. ASSUME NEW w \in Workers, NEW d \in Deliveries, NEW h \in Shipment, Deliver(w, d, h)
       PROVE  CallsInWork'
  <2>1. /\ \A v \in Workers \ {w} : work'[v] = work[v] /\ call'[v] = call[v]
        /\ work'[w] = [pc |-> "deliver", plan |-> h.plan, version |-> 0, result |-> 0]
        /\ call'[w].key = d
    BY <1>1, <1>19 DEF Deliver, InsertReceipt, ReadReceipt, Run
  <2>2. work'[w] # None
    <3>1. work'[w] \in Work
      BY <2>1 DEF Shipment, Work
    <3>2. QED
      BY <3>1, NoWorkAssumption
  <2>3. ASSUME NEW v \in Workers, call'[v] # None, v # w
        PROVE  /\ work'[v] # None
               /\ \/ work'[v].pc = "effect" /\ call'[v].key = work'[v].plan
                  \/ work'[v].pc = "deliver" /\ call'[v].key \in Deliveries
    BY <1>1, <2>1, <2>3 DEF CallsInWork
  <2>4. QED
    BY <2>1, <2>2, <2>3 DEF CallsInWork
<1>0. ASSUME NEW k \in Keys, LeaseExpires(k) PROVE CallsInWork'
  BY <1>6, <1>0 DEF LeaseExpires, Expire, factoryVars
<1>21. QED
  BY <1>8, <1>9, <1>10, <1>11, <1>12, <1>13, <1>14, <1>15, <1>16, <1>17, <1>18,
     <1>19, <1>0 DEF FactoryNext, Integrate, Delivery

----------------------------------------------------------------------------
\* One step of the composition preserves the invariant.
LEMMA FactoryStep == FactoryInv /\ [FactoryNext]_allVars => FactoryInv'
<1> SUFFICES ASSUME FactoryInv, [FactoryNext]_allVars PROVE FactoryInv'
  OBVIOUS
<1>1. CASE UNCHANGED allVars
  BY <1>1 DEF allVars, factoryVars, vars, FactoryInv, ReceiptInv, TypeOK, CallsBound,
     CallIsBound, Solo, Active, TokensInRange, PlanTypes, Versions, WorkInformed,
     Informed, Published, Outcome, CallsInWork, CallEvidence, PlanEvidence,
     DeliveryEvidence
<1>2. CASE FactoryNext
  <2>1. ReceiptInv'
    BY <1>2, StoreStep, ReceiptStep DEF FactoryInv
  <2>2. TokensInRange'
    BY <1>2, StoreStep, TokensStep DEF FactoryInv
  <2>3. PlanTypes'
    BY <1>2, PlanWrites, AttestedWrites, BranchWrites, PickedWrites, Writers
       DEF PlanTypes, FactoryInv
  <2>4. Versions'
    BY <1>2, PlanWrites DEF Versions, FactoryInv, TerminalStatus
  <2>5. CallEvidence'
    <3>1. ASSUME NEW w \in Workers, call'[w] # None, call'[w].key \in Plans,
                 call'[w].pc = "returned"
          PROVE  Published(call[w].key, call[w].token)'
      BY <1>2, <3>1, ReturnedIsPublished
    <3>2. QED
      BY <3>1 DEF CallEvidence
  <2>6. PlanEvidence'
    <3> SUFFICES ASSUME NEW p \in Plans
        PROVE  /\ receipt'[p].status = "completed" => Published(p, receipt[p].result)'
               /\ attested'[p].status # "absent" =>
                    /\ attested'[p].status = Outcome(p, attested[p].result)'
                    /\ Published(p, attested[p].result)'
               /\ plan'[p].status \in {"succeeded", "conflict"} =>
                    attested'[p].status = plan'[p].status
      BY DEF PlanEvidence
    <3>3. ASSUME receipt'[p].status = "completed"
          PROVE  Published(p, receipt[p].result)'
      <4>1. PICK n : n = receipt'[p].result
        OBVIOUS
      <4>2. ReceiptWrites
        BY <1>2, StoreStep, ReceiptWritesStep DEF FactoryInv
      <4>3. Published(p, n)
        BY <3>3, <4>1, <4>2 DEF ReceiptWrites, FactoryInv, PlanEvidence, CallEvidence
      <4>4. Published(p, n)'
        BY <1>2, <4>3, PublishedStays
      <4>5. QED
        BY <4>1, <4>4 DEF Published
    <3>4. ASSUME attested'[p].status # "absent"
          PROVE  /\ attested'[p].status = Outcome(p, attested[p].result)'
                 /\ Published(p, attested[p].result)'
      <4>1. PICK n : n = attested'[p].result
        OBVIOUS
      <4>2. attested'[p].status = Outcome(p, n) /\ Published(p, n)
        BY <1>2, <3>4, <4>1, AttestedWrites DEF FactoryInv, PlanEvidence
      <4>3. Published(p, n)' /\ Outcome(p, n)' = Outcome(p, n)
        BY <1>2, <4>2, PublishedStays
      <4>4. QED
        BY <4>1, <4>2, <4>3 DEF Published, Outcome
    <3>5. ASSUME plan'[p].status \in {"succeeded", "conflict"}
          PROVE  attested'[p].status = plan'[p].status
      <4>1. attested[p].status = plan'[p].status
        <5>1. CASE plan'[p] = plan[p]
          BY <3>5, <5>1 DEF FactoryInv, PlanEvidence
        <5>2. CASE \E s \in {"failed", attested[p].status} \cap TerminalStatus :
                     plan'[p] = [status |-> s, version |-> 2]
          BY <3>5, <5>2
        <5>3. CASE plan'[p] = [status |-> "running", version |-> 1]
          BY <3>5, <5>3
        <5>4. QED
          BY <1>2, <5>1, <5>2, <5>3, PlanWrites
      <4>2. attested'[p] = attested[p]
        BY <1>2, <3>5, <4>1, AttestedWrites DEF NoAttestation
      <4>3. QED
        BY <4>1, <4>2
    <3>6. QED
      BY <3>3, <3>4, <3>5
  <2>7. DeliveryEvidence'
    <3>1. ASSUME NEW h \in Shipment, plan[h.plan].status = "succeeded",
                 branch[BranchOf[h.plan]] = h.head
          PROVE  plan'[h.plan].status = "succeeded" /\ branch'[BranchOf[h.plan]] = h.head
      <4>1. h.plan \in Plans /\ h.head # None /\ BranchOf[h.plan] \in Branches
        BY DEF Shipment
      <4>2. QED
        BY <1>2, <3>1, <4>1, PlanWrites, BranchWrites
    <3>2. ASSUME NEW k \in Deliveries, receipt'[k].status # "absent"
          PROVE  /\ receipt'[k].request \in Shipment
                 /\ plan[receipt'[k].request.plan].status = "succeeded"
                 /\ branch[BranchOf[receipt'[k].request.plan]]
                      = receipt'[k].request.head
      <4>1. CASE receipt[k].status # "absent"
        BY <1>2, <4>1, StoreStep, ReceiptWritesStep
           DEF ReceiptWrites, FactoryInv, DeliveryEvidence
      <4>2. CASE receipt[k].status = "absent"
        <5>1. PICK h : h = receipt'[k].request
          OBVIOUS
        <5>2. h \in Shipment /\ Bound(h)
          BY <1>2, <3>2, <4>2, <5>1, DeliveryIsBound
        <5>3. /\ h.plan \in Plans
              /\ attested[h.plan].status = "succeeded"
              /\ picked[h.plan][attested[h.plan].result] = h.head
          BY <5>2 DEF Shipment, Bound, HeadOf
        <5>4. /\ Outcome(h.plan, attested[h.plan].result) = "succeeded"
              /\ Published(h.plan, attested[h.plan].result)
          BY <5>3 DEF FactoryInv, PlanEvidence
        <5>5. branch[BranchOf[h.plan]] = h.head
          BY <5>3, <5>4 DEF Outcome, Published
        <5>6. QED
          BY <5>1, <5>2, <5>5 DEF Bound
      <4>3. QED
        BY <4>1, <4>2
    <3>3. QED
      BY <3>1, <3>2 DEF DeliveryEvidence
  <2>8. QED
    BY <1>2, <2>1, <2>2, <2>3, <2>4, <2>5, <2>6, <2>7, WorkInformedStep,
       CallsInWorkStep DEF FactoryInv
<1>3. QED
  BY <1>1, <1>2

\* The invariant of the composition holds in every reachable state.
THEOREM FactoryInvariant == FactorySpec => []FactoryInv
BY InitFactory, FactoryStep, PTL DEF FactorySpec

\* "A successful receipt ... must match the completed durable side-effect
\* result": a receipt of success names the head the plan's remote branch is at,
\* and a plan ends as its receipt says, for any plans of any branches.
THEOREM EvidenceIsAlwaysPublished == FactorySpec => []EvidenceIsPublished
<1>1. FactoryInv => EvidenceIsPublished
  <2> SUFFICES ASSUME FactoryInv PROVE EvidenceIsPublished
    OBVIOUS
  <2>1. FactoryTypeOK
    BY DEF FactoryInv, ReceiptInv, PlanTypes, WorkInformed, FactoryTypeOK
  <2>2. QED
    <3>1. ASSUME NEW p \in Plans, attested[p].status = "succeeded"
          PROVE  HeadOf(p) \in Head /\ branch[BranchOf[p]] = HeadOf(p)
      BY <3>1 DEF FactoryInv, PlanEvidence, Published, Outcome, HeadOf
    <3>2. QED
      BY <2>1, <3>1 DEF FactoryInv, PlanEvidence, EvidenceIsPublished
<1>2. QED
  BY <1>1, FactoryInvariant, PTL

\* A deployment or release runs only under the handoff of a plan that succeeded
\* and whose head its branch is at, also when taken over, replayed or retried.
THEOREM DeliveriesAreAuthorized == FactorySpec => []DeliveryIsAuthorized
<1>1. FactoryInv => DeliveryIsAuthorized
  BY DEF FactoryInv, DeliveryEvidence, DeliveryIsAuthorized
<1>2. QED
  BY <1>1, FactoryInvariant, PTL

\* "A stale worker cannot replace a newer integration result": a terminal plan,
\* a receipt and a published branch are never written again.
THEOREM ResultsAreFinal == FactorySpec => ResultIsFinal
<1>1. FactoryInv /\ [FactoryNext]_allVars =>
        [/\ \A p \in Plans :
              /\ plan[p].status \in TerminalStatus => plan'[p] = plan[p]
              /\ attested[p] # NoAttestation => attested'[p] = attested[p]
         /\ \A b \in Branches : branch[b] # None => branch'[b] = branch[b]]_allVars
  BY PlanWrites, AttestedWrites, BranchWrites DEF TerminalStatus
<1>2. QED
  BY <1>1, FactoryInvariant, PTL DEF FactorySpec, ResultIsFinal

\* The composition implements the receipt boundary: integrations, deliveries
\* and their failures only take its steps.
THEOREM ImplementsSideEffects == FactorySpec => Spec
<1>1. FactoryInit => Init
  BY DEF FactoryInit
<1>2. FactoryInv /\ [FactoryNext]_allVars => [Next]_vars
  BY StoreStep DEF allVars
<1>3. QED
  BY <1>1, <1>2, FactoryInvariant, PTL DEF FactorySpec, Spec

\* The receipt boundary's promises hold of the composition, with integrations
\* and deliveries on top of it: a key is bound to one request, no live lease is
\* taken over, and where no operation outlives its lease one runs at a time and
\* none after a completed one.
THEOREM FactoryKeepsReceipts ==
  FactorySpec => /\ []OneRequestPerKey
                 /\ []OneOperationAtATime
                 /\ LiveLeaseNotTaken
                 /\ CompletedIsFinal
BY ImplementsSideEffects, RequestBinding, SingleOperation, LiveLeasesAreKept,
   CompletionIsFinal

=============================================================================
