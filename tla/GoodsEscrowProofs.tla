-------------------------- MODULE GoodsEscrowProofs --------------------------
(***************************************************************************)
(* Proofs about GoodsEscrow, for any number of members, deals and clients  *)
(* and any amounts: types, books, what a step may do, and the promise of   *)
(* EscrowPromise kept.                                                     *)
(***************************************************************************)
EXTENDS GoodsRefinement, EscrowProofs

-----------------------------------------------------------------------------
(* Type correctness.                                                       *)

\* The row LockFundsGoods writes: a whole gross amount, and a net amount
\* between nothing and the gross amount.
LEMMA GoodsAmounts ==
  ASSUME NEW base \in BaseAmounts, base > 0, NEW isRekberPay \in BOOLEAN,
         NEW tier \in SellerTiers, NEW shippingFee \in ShippingFees
  PROVE  LET gross == base + CalculateBuyerServiceFee(base, isRekberPay, tier) + shippingFee
             net == base - CalculateSellerServiceFee(base, tier)
         IN  gross \in Nat /\ net \in Nat /\ net <= gross
<1>1. base \in Nat /\ shippingFee \in Nat /\ tier \in Tiers
  BY AmountsAssumption
<1>2. CalculateBuyerServiceFee(base, isRekberPay, tier) \in Nat
  BY <1>1, BuyerServiceFeeType
<1>3. /\ CalculateSellerServiceFee(base, tier) \in Nat
      /\ CalculateSellerServiceFee(base, tier) <= base
  BY <1>1, SellerServiceFeeBounds
<1> QED
  BY <1>1, <1>2, <1>3

\* Every step keeps every variable in its type; above all no wallet balance
\* goes below zero (INV-01 of DDD.md).
LEMMA TypeStep == TypeOK /\ [Next]_vars => TypeOK'
<1> SUFFICES ASSUME TypeOK, [Next]_vars
             PROVE  TypeOK'
  OBVIOUS
<1> USE PartiesAssumption, CallersAssumption
<1>0. UNCHANGED <<database, frozen>> => EscrowTypeOK'
  BY DEF TypeOK, EscrowTypeOK, database
<1>1. ASSUME NEW t \in Txs, Create(t)
      PROVE  TypeOK'
  <2> PICK b \in Users, s \in Users, base \in BaseAmounts, isRekberPay \in BOOLEAN,
           overdue \in BOOLEAN, tier \in SellerTiers, shippingFee \in ShippingFees :
             LockFundsGoods(t, b, s, base, isRekberPay, tier, shippingFee, overdue)
    BY <1>1 DEF Create
  <2> DEFINE gross == base + CalculateBuyerServiceFee(base, isRekberPay, tier) + shippingFee
             net == base - CalculateSellerServiceFee(base, tier)
  <2>1. gross \in Nat /\ net \in Nat /\ net <= gross
    BY GoodsAmounts DEF LockFundsGoods
  <2>2. CreateTransaction(t, b, s, gross, net)
    BY DEF LockFundsGoods
  <2> HIDE DEF gross, net
  <2>3. EscrowTypeOK'
    BY <2>1, <2>2, CreateType DEF TypeOK
  <2> QED
    BY <2>3 DEF TypeOK, LockFundsGoods
<1>2. ASSUME NEW t \in Txs, DealStep(t, 0), UNCHANGED goodsVars
      PROVE  TypeOK'
  <2>1. EscrowTypeOK'
    BY <1>2, DealStepType DEF TypeOK
  <2> QED
    BY <1>2, <2>1 DEF TypeOK, goodsVars
<1>3. ASSUME NEW u \in Users, Freeze(u) \/ Unfreeze(u), UNCHANGED goodsVars
      PROVE  TypeOK'
  <2>1. EscrowTypeOK'
    BY <1>3, FreezeType DEF TypeOK
  <2> QED
    BY <1>3, <2>1 DEF TypeOK, goodsVars
<1>4. ASSUME NEW t \in Txs, NEW c \in Callers, RequestRelease(c, t)
      PROVE  TypeOK'
  BY <1>0, <1>4 DEF TypeOK, RequestRelease, SetCall, Calls, Actors
<1>5. ASSUME NEW t \in Txs, WorkerTake(t)
      PROVE  TypeOK'
  BY <1>0, <1>5 DEF TypeOK, WorkerTake, SetCall, Calls, Actors
<1>6. ASSUME NEW t \in Txs, DeadlinePasses(t)
      PROVE  TypeOK'
  BY <1>0, <1>6 DEF TypeOK, DeadlinePasses
<1>7. ASSUME NEW a \in Actors, NEW verdict, Screen(a, verdict)
       PROVE  TypeOK'
  <2>1. call[a].tx \in Txs
    BY <1>7 DEF TypeOK, Screen
  <2>2. SetCall(a, "cleared", call[a].tx) \/ EndCall(a)
    BY <1>7 DEF Screen
  <2>3. UNCHANGED <<database, expired, frozen, queue, audits, crashes>>
    BY <1>7 DEF Screen
  <2>4. CASE SetCall(a, "cleared", call[a].tx)
    BY <1>0, <2>1, <2>3, <2>4 DEF TypeOK, SetCall, Calls
  <2>5. CASE EndCall(a)
    BY <1>0, <2>3, <2>5 DEF TypeOK, EndCall, Idle, Calls
  <2> QED
    BY <2>2, <2>4, <2>5
<1>8. ASSUME NEW a \in Actors, CommitRelease(a)
      PROVE  TypeOK'
  <2> DEFINE t == call[a].tx
  <2>1. t \in Txs /\ status[t] # "NONE"
    BY <1>8 DEF TypeOK, CommitRelease, ReleaseFundsGoods
  <2>2. call' = [call EXCEPT ![a] = [stage |-> "committed", tx |-> t]]
    BY <1>8 DEF CommitRelease, ReleaseFundsGoods, SetCall
  <2>3. /\ call' \in [Actors -> Calls]
        /\ \A x \in Actors : call'[x].stage # "idle" => call'[x].tx \in Txs
    BY <2>1, <2>2 DEF TypeOK, Calls
  <2>4. PaySeller(t) /\ UNCHANGED <<terms, expired, dispute, frozen, queue, audits, crashes>>
    BY <1>8 DEF CommitRelease, ReleaseFundsGoods
  <2> HIDE DEF t
  <2>5. dispute' \in [Txs -> Disputes]
    BY <2>4 DEF TypeOK, EscrowTypeOK
  <2>6. EscrowTypeOK'
    BY <2>1, <2>4, <2>5, PaySellerType DEF TypeOK
  <2> QED
    BY <2>3, <2>4, <2>6 DEF TypeOK
<1>9. ASSUME NEW a \in Actors, ReleaseFails(a)
      PROVE  TypeOK'
  BY <1>0, <1>9 DEF TypeOK, ReleaseFails, EndCall, Idle, Calls
<1>10. ASSUME NEW a \in Actors, StartAudit(a)
       PROVE  TypeOK'
  BY <1>0, <1>10 DEF TypeOK, StartAudit, EndCall, Idle, Calls
<1>11. ASSUME WorkerScan
       PROVE  TypeOK'
  BY <1>0, <1>11 DEF TypeOK, WorkerScan, GetExpiredLockedTransactions
<1>12. ASSUME Crash
       PROVE  TypeOK'
  BY <1>0, <1>12 DEF TypeOK, Crash, Idle, Calls
<1>13. ASSUME UNCHANGED vars
       PROVE  TypeOK'
  BY <1>0, <1>13 DEF TypeOK, vars, goodsVars
<1> QED
  BY <1>1, <1>2, <1>3, <1>4, <1>5, <1>6, <1>7, <1>8, <1>9, <1>10, <1>11, <1>12, <1>13
     DEF Next, Release, ConfirmPaymentGoods, DealStep

\* Every reachable state is well typed.
THEOREM TypeCorrect == Spec => []TypeOK
<1>1. Init => TypeOK
  BY EscrowInitType, AmountsAssumption, CallersAssumption DEF Init, TypeOK, Calls, Idle
<1> QED
  BY <1>1, TypeStep, PTL DEF Spec

-----------------------------------------------------------------------------
(* Steps that move no money and change no status.                          *)

books == <<status, terms, balance, rows, finance>>

\* The shared steps on one deal that touch the books.
BooksStep(t) ==
  \/ ConfirmPayment(t)
  \/ CancelTransaction(t)
  \/ \E u \in Users : OpenDispute(t, u)
  \/ \E outcome \in Outcomes : ResolveDispute(t, outcome, 0)

\* Only six actions touch the books.
LEMMA NextCases ==
  ASSUME [Next]_vars
  PROVE  \/ UNCHANGED books
         \/ \E t \in Txs : Create(t)
         \/ \E t \in Txs : BooksStep(t) /\ UNCHANGED goodsVars
         \/ \E a \in Actors : CommitRelease(a)
<1>1. ASSUME NEW t \in Txs,
             \/ \E c \in Callers : RequestRelease(c, t)
             \/ WorkerTake(t) \/ AcknowledgeDispute(t) \/ DeadlinePasses(t)
      PROVE  UNCHANGED books
  BY <1>1 DEF RequestRelease, WorkerTake, AcknowledgeDispute, DeadlinePasses, database, books
<1>2. ASSUME NEW a \in Actors,
             \/ \E verdict \in {"safe", "unsafe", "unavailable"} : Screen(a, verdict)
             \/ ReleaseFails(a) \/ StartAudit(a)
      PROVE  UNCHANGED books
  BY <1>2 DEF Screen, ReleaseFails, StartAudit, database, books
<1>3. ASSUME WorkerScan \/ Crash \/ \E u \in Users : Freeze(u) \/ Unfreeze(u)
      PROVE  UNCHANGED books
  BY <1>3 DEF WorkerScan, Crash, Freeze, Unfreeze, database, books
<1>4. UNCHANGED vars => UNCHANGED books
  BY DEF vars, database, books
<1>5. ASSUME NEW t \in Txs, UNCHANGED goodsVars,
             ConfirmPaymentGoods(t) \/ CancelTransaction(t) \/ DisputeStep(t, 0)
      PROVE  AcknowledgeDispute(t) \/ BooksStep(t)
  BY <1>5 DEF ConfirmPaymentGoods, DisputeStep, BooksStep
<1> QED
  BY <1>1, <1>2, <1>3, <1>4, <1>5, Zenon DEF Next, Release, ConfirmPaymentGoods

-----------------------------------------------------------------------------
(* Status, ledger rows and disputes agree.                                 *)

\* The ledger rows of a deal follow its status through every step.
LEMMA LedgerStep == TypeOK /\ LedgerMatchesStatus /\ [Next]_vars => LedgerMatchesStatus'
<1> SUFFICES ASSUME TypeOK, LedgerMatchesStatus, [Next]_vars
             PROVE  LedgerMatchesStatus'
  OBVIOUS
<1> USE DEF LedgerMatchesStatus, Paid, Held, Settled
<1>1. CASE UNCHANGED books
  BY <1>1 DEF books
<1>2. ASSUME NEW t \in Txs, Create(t)
      PROVE  LedgerMatchesStatus'
  BY <1>2 DEF Create, LockFundsGoods, CreateTransaction, SetStatus, TypeOK, EscrowTypeOK, EscrowTypeOK
<1>3. ASSUME NEW t \in Txs, ConfirmPayment(t)
      PROVE  LedgerMatchesStatus'
  BY <1>3 DEF ConfirmPayment, UpdateBalance, SetStatus, TypeOK, EscrowTypeOK, EscrowTypeOK, LedgerTypes
<1>4. ASSUME NEW t \in Txs, CancelTransaction(t)
      PROVE  LedgerMatchesStatus'
  BY <1>4 DEF CancelTransaction, SetStatus, TypeOK, EscrowTypeOK, EscrowTypeOK
<1>5. ASSUME NEW t \in Txs, NEW u \in Users, OpenDispute(t, u)
      PROVE  LedgerMatchesStatus'
  BY <1>5 DEF OpenDispute, SetStatus, TypeOK, EscrowTypeOK, EscrowTypeOK
<1>6. ASSUME NEW t \in Txs, NEW outcome \in Outcomes, ResolveDispute(t, outcome, 0)
      PROVE  LedgerMatchesStatus'
  BY <1>6 DEF ResolveDispute, RefundBuyer, PaySeller, UpdateBalance, SetStatus, TypeOK, EscrowTypeOK,
              EscrowTypeOK, LedgerTypes
<1>7. ASSUME NEW a \in Actors, CommitRelease(a)
      PROVE  LedgerMatchesStatus'
  <2> DEFINE t == call[a].tx
  <2>1. t \in Txs /\ status[t] = "FUNDS_LOCKED" /\ PaySeller(t)
    BY <1>7 DEF CommitRelease, ReleaseFundsGoods, TypeOK, EscrowTypeOK
  <2> HIDE DEF t
  <2> QED
    BY <2>1 DEF PaySeller, UpdateBalance, SetStatus, TypeOK, EscrowTypeOK, EscrowTypeOK,
                LedgerTypes
<1> QED
  BY <1>1, <1>2, <1>3, <1>4, <1>5, <1>6, <1>7, NextCases DEF BooksStep

\* The dispute row of a deal and its status follow each other.
LEMMA DisputesStep == TypeOK /\ DisputeMatchesStatus /\ [Next]_vars => DisputeMatchesStatus'
<1> SUFFICES ASSUME TypeOK, DisputeMatchesStatus, [Next]_vars
             PROVE  DisputeMatchesStatus'
  OBVIOUS
<1>1. ASSUME UNCHANGED <<status, dispute>>
      PROVE  DisputeMatchesStatus'
  BY <1>1 DEF DisputeMatchesStatus
<1>2. ASSUME NEW t \in Txs, Create(t)
      PROVE  DisputeMatchesStatus'
  BY <1>2, StatusKeepsDispute DEF Create, LockFundsGoods, CreateTransaction, TxStatus, TypeOK, EscrowTypeOK
<1>3. ASSUME NEW t \in Txs, DealStep(t, 0)
      PROVE  DisputeMatchesStatus'
  BY <1>3, DealStepDispute DEF TypeOK, EscrowTypeOK
<1>4. ASSUME NEW a \in Actors, CommitRelease(a)
      PROVE  DisputeMatchesStatus'
  <2> DEFINE t == call[a].tx
  <2>1. /\ t \in Txs /\ status[t] = "FUNDS_LOCKED"
        /\ SetStatus(t, "RELEASED") /\ UNCHANGED dispute
    BY <1>4 DEF CommitRelease, ReleaseFundsGoods, PaySeller, TypeOK, EscrowTypeOK
  <2> HIDE DEF t
  <2> QED
    BY <2>1, StatusKeepsDispute DEF TypeOK, EscrowTypeOK, TxStatus
<1>5. ASSUME NEW t \in Txs,
             \/ \E c \in Callers : RequestRelease(c, t)
             \/ WorkerTake(t) \/ DeadlinePasses(t)
      PROVE  UNCHANGED <<status, dispute>>
  BY <1>5 DEF RequestRelease, WorkerTake, DeadlinePasses, database
<1>6. ASSUME NEW a \in Actors,
             \/ \E verdict \in {"safe", "unsafe", "unavailable"} : Screen(a, verdict)
             \/ ReleaseFails(a) \/ StartAudit(a)
      PROVE  UNCHANGED <<status, dispute>>
  BY <1>6 DEF Screen, ReleaseFails, StartAudit, database
<1>7. WorkerScan \/ Crash \/ (\E u \in Users : Freeze(u) \/ Unfreeze(u)) \/ UNCHANGED vars
         => UNCHANGED <<status, dispute>>
  BY DEF WorkerScan, Crash, Freeze, Unfreeze, database, vars
<1> QED
  BY <1>1, <1>2, <1>3, <1>4, <1>5, <1>6, <1>7
     DEF Next, Release, ConfirmPaymentGoods, DealStep

\* What is in flight between the commit of a release and its audit record
\* belongs to one call only.
LEMMA AuditStep ==
  TypeOK /\ DisputeMatchesStatus /\ AuditedOnce /\ [Next]_vars => AuditedOnce'
<1> SUFFICES ASSUME TypeOK, DisputeMatchesStatus, AuditedOnce, [Next]_vars
             PROVE  AuditedOnce'
  OBVIOUS
<1> USE DEF AuditedOnce, Committed
<1>1. ASSUME UNCHANGED <<status, audits, dispute>>, call' \in [Actors -> Calls],
             NEW a \in Actors, \A x \in Actors \ {a} : call'[x] = call[x],
             call'[a].stage # "committed"
      PROVE  AuditedOnce'
  BY <1>1
<1>2. ASSUME NEW t \in Txs, NEW s \in TxStatus, SetStatus(t, s), status[t] # "RELEASED",
             UNCHANGED <<audits, call>>, \A x \in Txs \ {t} : dispute'[x] = dispute[x]
      PROVE  AuditedOnce'
  BY <1>2 DEF SetStatus, TypeOK, EscrowTypeOK
<1>3. ASSUME NEW t \in Txs,
             Create(t) \/ (BooksStep(t) /\ UNCHANGED goodsVars)
      PROVE  AuditedOnce'
  <2>1. \E s \in TxStatus : SetStatus(t, s)
    BY <1>3 DEF Create, LockFundsGoods, CreateTransaction, BooksStep, ConfirmPayment,
                CancelTransaction, OpenDispute, ResolveDispute, RefundBuyer, PaySeller, TxStatus
  <2>2. status[t] # "RELEASED" /\ UNCHANGED <<audits, call>>
    BY <1>3 DEF Create, LockFundsGoods, CreateTransaction, BooksStep, ConfirmPayment,
                CancelTransaction, OpenDispute, ResolveDispute, goodsVars
  <2>3. \A x \in Txs \ {t} : dispute'[x] = dispute[x]
    BY <1>3 DEF Create, LockFundsGoods, CreateTransaction, BooksStep, ConfirmPayment,
                CancelTransaction, OpenDispute, ResolveDispute, SetDispute, TypeOK, EscrowTypeOK
  <2> QED
    BY <1>2, <2>1, <2>2, <2>3
<1>4. ASSUME NEW t \in Txs, AcknowledgeDispute(t), UNCHANGED goodsVars
      PROVE  AuditedOnce'
  BY <1>4 DEF AcknowledgeDispute, SetDispute, goodsVars, TypeOK, EscrowTypeOK
<1>5. ASSUME NEW t \in Txs, NEW c \in Callers, RequestRelease(c, t)
      PROVE  AuditedOnce'
  <2>1. c \in Actors
    BY DEF Actors
  <2> QED
    BY <1>1, <1>5, <2>1, TypeStep DEF RequestRelease, SetCall, database, TypeOK, EscrowTypeOK
<1>6. ASSUME NEW t \in Txs, WorkerTake(t)
      PROVE  AuditedOnce'
  <2>1. Worker \in Actors
    BY DEF Actors
  <2>2. CASE UNCHANGED call
    BY <1>6, <2>2 DEF WorkerTake, database
  <2>3. CASE SetCall(Worker, "screening", t)
    BY <1>1, <1>6, <2>1, <2>3, TypeStep DEF WorkerTake, SetCall, database, TypeOK, EscrowTypeOK
  <2> QED
    BY <1>6, <2>2, <2>3 DEF WorkerTake
<1>7. ASSUME NEW a \in Actors, NEW verdict, Screen(a, verdict)
      PROVE  AuditedOnce'
  <2>1. SetCall(a, "cleared", call[a].tx) \/ EndCall(a)
    BY <1>7 DEF Screen
  <2>2. UNCHANGED <<status, audits, dispute>>
    BY <1>7 DEF Screen, database
  <2>3. CASE SetCall(a, "cleared", call[a].tx)
    BY <1>1, <2>2, <2>3, TypeStep DEF SetCall, TypeOK, EscrowTypeOK
  <2>4. CASE EndCall(a)
    BY <1>1, <2>2, <2>4, TypeStep DEF EndCall, Idle, TypeOK, EscrowTypeOK
  <2> QED
    BY <2>1, <2>3, <2>4
<1>8. ASSUME NEW a \in Actors, ReleaseFails(a)
      PROVE  AuditedOnce'
  BY <1>1, <1>8, TypeStep DEF ReleaseFails, EndCall, Idle, database, TypeOK, EscrowTypeOK
<1>9. ASSUME NEW a \in Actors, CommitRelease(a)
      PROVE  AuditedOnce'
  <2> DEFINE t == call[a].tx
  <2>1. t \in Txs /\ status[t] = "FUNDS_LOCKED" /\ SetStatus(t, "RELEASED")
    BY <1>9 DEF CommitRelease, ReleaseFundsGoods, PaySeller, TypeOK, EscrowTypeOK
  <2>2. SetCall(a, "committed", t) /\ UNCHANGED <<audits, dispute>>
    BY <1>9 DEF CommitRelease, ReleaseFundsGoods
  <2>3. dispute[t].status = "NONE"
    BY <2>1 DEF DisputeMatchesStatus, TypeOK, EscrowTypeOK, Disputes, DisputeStatus
  <2>4. call[a] # [stage |-> "committed", tx |-> t]
    BY <1>9 DEF CommitRelease, ReleaseFundsGoods
  <2> HIDE DEF t
  <2>5. audits[t] = 0
    <3>1. audits[t] \in Nat /\ audits[t] <= 1 /\ audits[t] # 1
      BY <2>1 DEF TypeOK, EscrowTypeOK
    <3> QED
      BY <3>1
  <2>6. \A b \in Actors : call[b] # [stage |-> "committed", tx |-> t]
    BY <2>1
  <2> QED
    BY <2>1, <2>2, <2>3, <2>5, <2>6 DEF SetStatus, SetCall, TypeOK, EscrowTypeOK
<1>10. ASSUME NEW a \in Actors, StartAudit(a)
       PROVE  AuditedOnce'
  <2> DEFINE t == call[a].tx
  <2>1. t \in Txs /\ Committed(a, t)
    BY <1>10 DEF StartAudit, TypeOK, EscrowTypeOK, Calls
  <2>2. UNCHANGED <<status, dispute>>
    BY <1>10 DEF StartAudit, database
  <2>3. audits' = [audits EXCEPT ![t] = @ + 1] /\ EndCall(a)
    BY <1>10 DEF StartAudit
  <2> HIDE DEF t
  <2> QED
    BY <2>1, <2>2, <2>3 DEF EndCall, Idle, TypeOK, EscrowTypeOK
<1>11. ASSUME Crash
       PROVE  AuditedOnce'
  BY <1>11 DEF Crash, Idle, database
<1>12. ASSUME \/ WorkerScan
              \/ (\E u \in Users : Freeze(u) \/ Unfreeze(u)) /\ UNCHANGED goodsVars
              \/ (\E t \in Txs : DeadlinePasses(t)) \/ UNCHANGED vars
       PROVE  AuditedOnce'
  BY <1>12 DEF WorkerScan, Freeze, Unfreeze, DeadlinePasses, database, goodsVars, vars
<1> QED
  BY <1>3, <1>4, <1>5, <1>6, <1>7, <1>8, <1>9, <1>10, <1>11, <1>12
     DEF Next, Release, ConfirmPaymentGoods, DisputeStep, BooksStep

-----------------------------------------------------------------------------
(* The money adds up.                                                      *)

HeldIn(s, t) == IF s \in {"FUNDS_LOCKED", "DISPUTED"} THEN terms[t].gross ELSE 0
KeptIn(s, t) == IF s = "RELEASED" THEN terms[t].gross - terms[t].net ELSE 0

MoneyMatches == EscrowMatches /\ RevenueMatches /\ MoneyConserved

\* What is held and what is kept are whole amounts, deal by deal.
LEMMA DealAmountsType ==
  ASSUME TypeOK
  PROVE  /\ HeldAmounts \in [Txs -> Nat]
         /\ Retentions \in [Txs -> Nat]
BY DEF TypeOK, EscrowTypeOK, Terms, HeldAmounts, Retentions, Held

\* Setting one wallet to another balance changes what the wallets hold together.
LEMMA WalletTotal ==
  ASSUME balance \in [Users -> Nat], NEW u \in Users, NEW v \in Nat,
         balance' = [balance EXCEPT ![u] = v]
  PROVE  Total(balance') = Total(balance) - balance[u] + v
BY PartiesAssumption, TotalUpdate, Zenon

\* The one arithmetic argument behind every money movement: deal t goes from
\* one status to another, wallet u moves by m, and the platform row by what
\* the change of status adds to the held and to the kept money.  If the three
\* movements cancel out, the books balance afterwards.
LEMMA Transfer ==
  ASSUME TypeOK, MoneyMatches, NEW t \in Txs, NEW s \in TxStatus, NEW u \in Users,
         NEW m \in Int, NEW held \in Int, NEW kept \in Int,
         status[t] # "NONE", balance[u] + m >= 0, m + held + kept = 0,
         HeldIn(s, t) = HeldIn(status[t], t) + held,
         KeptIn(s, t) = KeptIn(status[t], t) + kept,
         status' = [status EXCEPT ![t] = s],
         terms' = terms,
         balance' = [balance EXCEPT ![u] = balance[u] + m],
         finance' = [escrow |-> finance.escrow + held, revenue |-> finance.revenue + kept,
                     midtransFees |-> finance.midtransFees]
  PROVE  MoneyMatches'
<1>1. terms[t] \in Terms /\ terms[t].net <= terms[t].gross
  BY DEF TypeOK, EscrowTypeOK
<1>2. HeldIn(s, t) \in Nat /\ KeptIn(s, t) \in Nat
  BY <1>1 DEF HeldIn, KeptIn, Terms
<1>3. HeldAmounts' = [HeldAmounts EXCEPT ![t] = HeldIn(s, t)]
  BY DEF TypeOK, EscrowTypeOK, HeldAmounts, Held, HeldIn
<1>4. Retentions' = [Retentions EXCEPT ![t] = KeptIn(s, t)]
  BY DEF TypeOK, EscrowTypeOK, Retentions, KeptIn
<1>5. HeldAmounts[t] = HeldIn(status[t], t) /\ Retentions[t] = KeptIn(status[t], t)
  BY DEF HeldAmounts, Held, Retentions, HeldIn, KeptIn
<1>6. IsFiniteSet(Txs) /\ IsFiniteSet(Users)
  BY PartiesAssumption
<1> DEFINE newHeld == HeldIn(s, t)
           newKept == KeptIn(s, t)
           newBalance == balance[u] + m
<1>7. Total(HeldAmounts') = Total(HeldAmounts) + held
  <2>1. newHeld \in Nat /\ HeldAmounts' = [HeldAmounts EXCEPT ![t] = newHeld]
    BY <1>2, <1>3
  <2>2. Total(HeldAmounts) \in Nat /\ HeldAmounts[t] \in Nat
    BY <1>6, DealAmountsType, TotalType
  <2>3. newHeld = HeldAmounts[t] + held
    BY <1>5
  <2> HIDE DEF newHeld
  <2>4. Total(HeldAmounts') = Total(HeldAmounts) - HeldAmounts[t] + newHeld
    BY <1>6, <2>1, DealAmountsType, TotalUpdate
  <2> QED
    BY <2>2, <2>3, <2>4
<1>8. Total(Retentions') = Total(Retentions) + kept
  <2>1. newKept \in Nat /\ Retentions' = [Retentions EXCEPT ![t] = newKept]
    BY <1>2, <1>4
  <2>2. Total(Retentions) \in Nat /\ Retentions[t] \in Nat
    BY <1>6, DealAmountsType, TotalType
  <2>3. newKept = Retentions[t] + kept
    BY <1>5
  <2> HIDE DEF newKept
  <2>4. Total(Retentions') = Total(Retentions) - Retentions[t] + newKept
    BY <1>6, <2>1, DealAmountsType, TotalUpdate
  <2> QED
    BY <2>2, <2>3, <2>4
<1>9. Total(balance') = Total(balance) + m
  <2>1. /\ balance \in [Users -> Nat] /\ balance[u] \in Nat /\ newBalance \in Nat
        /\ balance' = [balance EXCEPT ![u] = newBalance]
    BY DEF TypeOK, EscrowTypeOK
  <2>2. newBalance = balance[u] + m
    OBVIOUS
  <2> HIDE DEF newBalance
  <2>3. Total(balance') = Total(balance) - balance[u] + newBalance
    BY <2>1, WalletTotal, Zenon
  <2>4. Total(balance) \in Nat
    BY <1>6, <2>1, TotalType
  <2> QED
    BY <2>1, <2>2, <2>3, <2>4
<1>10. Total(balance) \in Nat /\ Total(HeldAmounts) \in Nat /\ Total(Retentions) \in Nat
  BY <1>6, DealAmountsType, TotalType DEF TypeOK, EscrowTypeOK
<1>11. finance.escrow \in Int /\ finance.revenue \in Int
  BY DEF TypeOK, EscrowTypeOK
<1>12. EscrowMatches'
  BY <1>7 DEF MoneyMatches, EscrowMatches
<1>13. RevenueMatches'
  BY <1>8 DEF MoneyMatches, RevenueMatches
<1>14. MoneyConserved'
  BY <1>9, <1>10, <1>11 DEF MoneyMatches, MoneyConserved
<1> QED
  BY <1>12, <1>13, <1>14 DEF MoneyMatches

\* Paying the seller of a deal whose money is held balances.
LEMMA PaySellerBalances ==
  ASSUME TypeOK, MoneyMatches, NEW t \in Txs, Held(t), PaySeller(t), terms' = terms
  PROVE  MoneyMatches'
<1>1. status[t] # "NONE" /\ "RELEASED" \in TxStatus
  BY DEF Held, TxStatus
<1>2. terms[t] \in Terms
  BY <1>1 DEF TypeOK, EscrowTypeOK
<1> DEFINE u == terms[t].seller
           m == terms[t].net
           held == -terms[t].gross
           kept == terms[t].gross - terms[t].net
<1>3. u \in Users /\ m \in Int /\ m >= 0 /\ held \in Int /\ kept \in Int /\ m + held + kept = 0
  BY <1>2 DEF Terms
<1>4. balance[u] + m >= 0
  BY <1>3 DEF TypeOK, EscrowTypeOK
<1>5. /\ HeldIn("RELEASED", t) = HeldIn(status[t], t) + held
      /\ KeptIn("RELEASED", t) = KeptIn(status[t], t) + kept
  BY <1>2 DEF HeldIn, KeptIn, Held, Terms
<1>6. /\ status' = [status EXCEPT ![t] = "RELEASED"]
      /\ balance' = [balance EXCEPT ![u] = balance[u] + m]
      /\ finance' = [escrow |-> finance.escrow + held, revenue |-> finance.revenue + kept,
                     midtransFees |-> finance.midtransFees]
  BY <1>2 DEF PaySeller, UpdateBalance, UpdateFinance, SetStatus, Terms, TypeOK, EscrowTypeOK
<1> HIDE DEF u, m, held, kept
<1> QED
  BY <1>1, <1>3, <1>4, <1>5, <1>6, Transfer

\* Nothing of a goods deal is released before the rest, so a refund is whole.
LEMMA GoodsRefund ==
  ASSUME TypeOK, NEW t \in Txs, status[t] # "NONE"
  PROVE  RefundAmount(t, 0) = terms[t].gross
BY DEF TypeOK, EscrowTypeOK, Terms, RefundAmount

\* Giving the buyer of a held deal the gross amount back balances.
LEMMA RefundBuyerBalances ==
  ASSUME TypeOK, MoneyMatches, NEW t \in Txs, Held(t), RefundBuyer(t, 0), terms' = terms
  PROVE  MoneyMatches'
<1>1. status[t] # "NONE" /\ "REFUNDED" \in TxStatus
  BY DEF Held, TxStatus
<1>2. terms[t] \in Terms
  BY <1>1 DEF TypeOK, EscrowTypeOK
<1> DEFINE u == terms[t].buyer
           m == terms[t].gross
           held == -terms[t].gross
<1>3. u \in Users /\ m \in Int /\ m >= 0 /\ held \in Int /\ 0 \in Int /\ m + held + 0 = 0
  BY <1>2 DEF Terms
<1>4. balance[u] + m >= 0
  BY <1>3 DEF TypeOK, EscrowTypeOK
<1>5. /\ HeldIn("REFUNDED", t) = HeldIn(status[t], t) + held
      /\ KeptIn("REFUNDED", t) = KeptIn(status[t], t) + 0
  BY <1>2 DEF HeldIn, KeptIn, Held, Terms
<1>6. /\ status' = [status EXCEPT ![t] = "REFUNDED"]
      /\ balance' = [balance EXCEPT ![u] = balance[u] + m]
      /\ finance' = [escrow |-> finance.escrow + held, revenue |-> finance.revenue + 0,
                     midtransFees |-> finance.midtransFees]
  <2>1. RefundAmount(t, 0) = m
    BY <1>1, GoodsRefund
  <2>2. UpdateBalance(t, "REFUND", u, m) /\ SetStatus(t, "REFUNDED") /\ UpdateFinance(held, 0, 0)
    BY <2>1 DEF RefundBuyer
  <2> HIDE DEF u, m, held
  <2> QED
    BY <2>2 DEF UpdateBalance, UpdateFinance, SetStatus, TypeOK, EscrowTypeOK
<1> HIDE DEF u, m, held
<1> QED
  BY <1>1, <1>3, <1>4, <1>5, <1>6, Transfer

\* Taking the gross amount from the buyer of an unpaid deal balances.
LEMMA ConfirmPaymentBalances ==
  ASSUME TypeOK, MoneyMatches, NEW t \in Txs, ConfirmPayment(t)
  PROVE  MoneyMatches'
<1>1. status[t] = "WAITING_PAYMENT" /\ "FUNDS_LOCKED" \in TxStatus
  BY DEF ConfirmPayment, TxStatus
<1>2. terms[t] \in Terms
  BY <1>1 DEF TypeOK, EscrowTypeOK
<1> DEFINE u == terms[t].buyer
           m == -terms[t].gross
           held == terms[t].gross
<1>3. u \in Users /\ m \in Int /\ held \in Int /\ 0 \in Int /\ m + held + 0 = 0
  BY <1>2 DEF Terms
<1>4. balance[u] + m >= 0
  BY <1>2 DEF ConfirmPayment, UpdateBalance, TypeOK, EscrowTypeOK, Terms
<1>5. /\ HeldIn("FUNDS_LOCKED", t) = HeldIn(status[t], t) + held
      /\ KeptIn("FUNDS_LOCKED", t) = KeptIn(status[t], t) + 0
  BY <1>1, <1>2 DEF HeldIn, KeptIn, Terms
<1>6. /\ status' = [status EXCEPT ![t] = "FUNDS_LOCKED"]
      /\ terms' = terms
      /\ balance' = [balance EXCEPT ![u] = balance[u] + m]
      /\ finance' = [escrow |-> finance.escrow + held, revenue |-> finance.revenue + 0,
                     midtransFees |-> finance.midtransFees]
  BY DEF ConfirmPayment, UpdateBalance, UpdateFinance, SetStatus, TypeOK, EscrowTypeOK
<1> HIDE DEF u, m, held
<1> QED
  BY <1>1, <1>3, <1>4, <1>5, <1>6, Transfer

\* A step that changes a status without entering or leaving escrow, and moves
\* no money, keeps the books balanced.
LEMMA StatusOnlyBalances ==
  ASSUME TypeOK, MoneyMatches, NEW t \in Txs, NEW s \in TxStatus,
         status' = [status EXCEPT ![t] = s],
         \A x \in Txs \ {t} : terms'[x] = terms[x],
         \/ status[t] \in {"NONE", "WAITING_PAYMENT"} /\ s \in {"WAITING_PAYMENT", "CANCELLED"}
         \/ status[t] = "FUNDS_LOCKED" /\ s = "DISPUTED" /\ terms'[t] = terms[t],
         UNCHANGED <<balance, finance>>
  PROVE  MoneyMatches'
<1>1. HeldAmounts' = HeldAmounts
  BY DEF TypeOK, EscrowTypeOK, HeldAmounts, Held
<1>2. Retentions' = Retentions
  BY DEF TypeOK, EscrowTypeOK, Retentions
<1> QED
  BY <1>1, <1>2 DEF MoneyMatches, EscrowMatches, RevenueMatches, MoneyConserved

\* Every step keeps the books balanced.
LEMMA MoneyStep == TypeOK /\ MoneyMatches /\ [Next]_vars => MoneyMatches'
<1> SUFFICES ASSUME TypeOK, MoneyMatches, [Next]_vars
             PROVE  MoneyMatches'
  OBVIOUS
<1>1. CASE UNCHANGED books
  BY <1>1 DEF books, MoneyMatches, EscrowMatches, RevenueMatches, MoneyConserved, HeldAmounts,
              Retentions, Held
<1>2. ASSUME NEW t \in Txs, Create(t)
      PROVE  MoneyMatches'
  <2> PICK b, s, gross, net : CreateTransaction(t, b, s, gross, net)
    BY <1>2 DEF Create, LockFundsGoods
  <2>1. /\ status[t] = "NONE"
        /\ status' = [status EXCEPT ![t] = "WAITING_PAYMENT"]
        /\ UNCHANGED <<balance, finance>>
    BY DEF CreateTransaction, SetStatus
  <2>2. \A x \in Txs \ {t} : terms'[x] = terms[x]
    BY DEF CreateTransaction, TypeOK, EscrowTypeOK
  <2> QED
    BY <2>1, <2>2, StatusOnlyBalances DEF TxStatus
<1>3. ASSUME NEW t \in Txs, ConfirmPayment(t)
      PROVE  MoneyMatches'
  BY <1>3, ConfirmPaymentBalances
<1>4. ASSUME NEW t \in Txs, CancelTransaction(t)
      PROVE  MoneyMatches'
  BY <1>4, StatusOnlyBalances DEF CancelTransaction, SetStatus, TxStatus
<1>5. ASSUME NEW t \in Txs, NEW u \in Users, OpenDispute(t, u)
      PROVE  MoneyMatches'
  BY <1>5, StatusOnlyBalances DEF OpenDispute, SetStatus, TxStatus
<1>6. ASSUME NEW t \in Txs, NEW outcome \in Outcomes, ResolveDispute(t, outcome, 0)
      PROVE  MoneyMatches'
  <2>1. Held(t) /\ terms' = terms /\ (RefundBuyer(t, 0) \/ PaySeller(t))
    BY <1>6 DEF ResolveDispute, Held
  <2> QED
    BY <2>1, RefundBuyerBalances, PaySellerBalances
<1>7. ASSUME NEW a \in Actors, CommitRelease(a)
      PROVE  MoneyMatches'
  <2> DEFINE t == call[a].tx
  <2>1. t \in Txs /\ Held(t) /\ PaySeller(t) /\ terms' = terms
    BY <1>7 DEF CommitRelease, ReleaseFundsGoods, TypeOK, EscrowTypeOK, Held
  <2> HIDE DEF t
  <2> QED
    BY <2>1, PaySellerBalances
<1> QED
  BY <1>1, <1>2, <1>3, <1>4, <1>5, <1>6, <1>7, NextCases DEF BooksStep

\* The empty platform: nothing held, nothing kept, every wallet as it was.
LEMMA MoneyInit == Init => MoneyMatches
<1> SUFFICES ASSUME Init PROVE MoneyMatches
  OBVIOUS
<1>1. /\ HeldAmounts \in [Txs -> Nat] /\ \A t \in Txs : HeldAmounts[t] = 0
      /\ Retentions \in [Txs -> Nat] /\ \A t \in Txs : Retentions[t] = 0
  BY DEF Init, EscrowInit, HeldAmounts, Retentions, Held
<1>2. Total(HeldAmounts) = 0 /\ Total(Retentions) = 0
  BY <1>1, TotalZero
<1>3. Total(InitialBalance) \in Nat
  BY PartiesAssumption, TotalType
<1> QED
  BY <1>2, <1>3 DEF Init, EscrowInit, MoneyMatches, EscrowMatches, RevenueMatches, MoneyConserved

-----------------------------------------------------------------------------
(* The theorems.  Each follows from a step lemma and from the invariants   *)
(* that lemma rests on.                                                    *)

\* The ledger rows of every deal agree with its status, for ever.
THEOREM LedgerCorrect == Spec => []LedgerMatchesStatus
<1>1. Init => LedgerMatchesStatus
  BY DEF Init, EscrowInit, LedgerMatchesStatus, Paid, Held, Settled, LedgerTypes
<1> QED
  BY <1>1, TypeCorrect, LedgerStep, PTL DEF Spec

\* A disputed transaction and its dispute row agree, for ever.
THEOREM DisputeCorrect == Spec => []DisputeMatchesStatus
<1>1. Init => DisputeMatchesStatus
  BY DEF Init, EscrowInit, DisputeMatchesStatus
<1> QED
  BY <1>1, TypeCorrect, DisputesStep, PTL DEF Spec

\* However many clients and workers race to release a deal, one logs it once.
THEOREM AuditCorrect == Spec => []AuditedOnce
<1>1. Init => AuditedOnce
  BY DEF Init, EscrowInit, AuditedOnce, Committed, Idle
<1> QED
  BY <1>1, TypeCorrect, DisputeCorrect, AuditStep, PTL DEF Spec

\* All three statements about money at once.
LEMMA MoneyCorrect == Spec => []MoneyMatches
BY MoneyInit, TypeCorrect, MoneyStep, PTL DEF Spec

\* Escrow holds exactly the money of the locked and disputed deals, whatever
\* the number of members, deals, clients and the amounts.
THEOREM EscrowCorrect == Spec => []EscrowMatches
<1>1. MoneyMatches => EscrowMatches
  BY DEF MoneyMatches
<1> QED
  BY <1>1, MoneyCorrect, PTL

\* Revenue is exactly what was kept back from the released deals.
THEOREM RevenueCorrect == Spec => []RevenueMatches
<1>1. MoneyMatches => RevenueMatches
  BY DEF MoneyMatches
<1> QED
  BY <1>1, MoneyCorrect, PTL

\* No rupiah is made or lost.
THEOREM ConservationCorrect == Spec => []MoneyConserved
<1>1. MoneyMatches => MoneyConserved
  BY DEF MoneyMatches
<1> QED
  BY <1>1, MoneyCorrect, PTL

-----------------------------------------------------------------------------
(* Every wallet can be recomputed from its ledger rows.                    *)

\* With the ledger in step with the status a row counts once or not at all.
RowsCountOnce ==
  \A u \in Users :
    /\ Debits(u)  = [t \in Txs |->
         IF Paid(t) /\ terms[t].buyer = u THEN terms[t].gross ELSE 0]
    /\ Payouts(u) = [t \in Txs |->
         IF status[t] = "RELEASED" /\ terms[t].seller = u THEN terms[t].net ELSE 0]
    /\ Refunds(u) = [t \in Txs |->
         IF status[t] = "REFUNDED" /\ terms[t].buyer = u THEN terms[t].gross ELSE 0]

LEMMA RowsCount == TypeOK /\ LedgerMatchesStatus => RowsCountOnce
<1> SUFFICES ASSUME TypeOK, LedgerMatchesStatus, NEW u \in Users, NEW t \in Txs
             PROVE  /\ Debits(u)[t] =
                         IF Paid(t) /\ terms[t].buyer = u THEN terms[t].gross ELSE 0
                    /\ Payouts(u)[t] =
                         IF status[t] = "RELEASED" /\ terms[t].seller = u
                           THEN terms[t].net ELSE 0
                    /\ Refunds(u)[t] =
                         IF status[t] = "REFUNDED" /\ terms[t].buyer = u
                           THEN terms[t].gross ELSE 0
  BY DEF Debits, Payouts, Refunds, RowsCountOnce
<1>1. CASE status[t] = "NONE"
  BY <1>1 DEF Debits, Payouts, Refunds, Paid, Held, Settled
<1>2. CASE status[t] # "NONE"
  <2>1. terms[t].gross \in Nat /\ terms[t].net \in Nat
    BY <1>2 DEF TypeOK, EscrowTypeOK, Terms
  <2> QED
    BY <1>2, <2>1 DEF Debits, Payouts, Refunds, LedgerMatchesStatus
<1> QED
  BY <1>1, <1>2

LEMMA RowsCountNext == (TypeOK /\ LedgerMatchesStatus)' => RowsCountOnce'
BY RowsCount, PTL

\* The amounts the rows stand for are whole numbers of rupiah.
LEMMA RowAmountsType ==
  ASSUME TypeOK, RowsCountOnce, NEW u \in Users
  PROVE  /\ Debits(u) \in [Txs -> Nat]
         /\ Payouts(u) \in [Txs -> Nat]
         /\ Refunds(u) \in [Txs -> Nat]
<1>1. \A t \in Txs : status[t] # "NONE" => terms[t].gross \in Nat /\ terms[t].net \in Nat
  BY DEF TypeOK, EscrowTypeOK, Terms
<1> QED
  BY <1>1 DEF RowsCountOnce, Paid, Held, Settled

\* A step that touches the status, the terms and the rows of deal t alone
\* keeps wallet u reconciled if what it does to the balance of u is what it
\* does to the rows of t that u is a party to.
LEMMA OneDealReconciles ==
  ASSUME TypeOK, LedgerMatchesStatus, TypeOK', LedgerMatchesStatus',
         NEW t \in Txs, NEW u \in Users,
         \A x \in Txs \ {t} :
           status'[x] = status[x] /\ terms'[x] = terms[x] /\ rows'[x] = rows[x],
         balance[u] + Total(Debits(u))
           = InitialBalance[u] + Total(Payouts(u)) + Total(Refunds(u)),
         balance'[u] + Debits(u)'[t] + Payouts(u)[t] + Refunds(u)[t]
           = balance[u] + Debits(u)[t] + Payouts(u)'[t] + Refunds(u)'[t]
  PROVE  balance'[u] + Total(Debits(u)')
           = InitialBalance[u] + Total(Payouts(u)') + Total(Refunds(u)')
<1>1. RowsCountOnce /\ RowsCountOnce'
  BY RowsCount, RowsCountNext
<1>2. /\ Debits(u) \in [Txs -> Nat]
      /\ Payouts(u) \in [Txs -> Nat]
      /\ Refunds(u) \in [Txs -> Nat]
  BY <1>1, RowAmountsType
<1>3. /\ Debits(u)'  \in [Txs -> Nat]
      /\ Payouts(u)' \in [Txs -> Nat]
      /\ Refunds(u)' \in [Txs -> Nat]
  <2>1. \A x \in Txs : status'[x] # "NONE" =>
          terms'[x].gross \in Nat /\ terms'[x].net \in Nat
    BY DEF TypeOK, EscrowTypeOK, Terms
  <2> QED
    BY <1>1, <2>1 DEF RowsCountOnce, Paid, Held, Settled
<1>4. \A x \in Txs : x # t =>
        /\ Debits(u)'[x] = Debits(u)[x]
        /\ Payouts(u)'[x] = Payouts(u)[x]
        /\ Refunds(u)'[x] = Refunds(u)[x]
  BY DEF Debits, Payouts, Refunds
<1>5. balance[u] \in Nat /\ balance'[u] \in Nat /\ InitialBalance[u] \in Nat
  BY PartiesAssumption DEF TypeOK, EscrowTypeOK
<1> DEFINE start == InitialBalance[u]
           b == balance[u]
           d == Debits(u)
           p == Payouts(u)
           r == Refunds(u)
           bNext == balance'[u]
           dNext == Debits(u)'
           pNext == Payouts(u)'
           rNext == Refunds(u)'
<1>6. /\ b \in Nat /\ d \in [Txs -> Nat] /\ p \in [Txs -> Nat] /\ r \in [Txs -> Nat]
      /\ bNext \in Nat /\ dNext \in [Txs -> Nat] /\ pNext \in [Txs -> Nat]
      /\ rNext \in [Txs -> Nat] /\ start \in Nat
  BY <1>2, <1>3, <1>5
<1>7. \A x \in Txs : x # t => dNext[x] = d[x] /\ pNext[x] = p[x] /\ rNext[x] = r[x]
  BY <1>4
<1>8. /\ b + Total(d) = start + Total(p) + Total(r)
      /\ bNext + dNext[t] + p[t] + r[t] = b + d[t] + pNext[t] + rNext[t]
  OBVIOUS
<1>9. IsFiniteSet(Txs)
  BY PartiesAssumption
<1>10. \A f, g \in [Txs -> Nat] :
         (\A x \in Txs : x # t => g[x] = f[x]) => Total(g) = Total(f) - f[t] + g[t]
  BY <1>9, TotalChange
<1> HIDE DEF start, b, d, p, r, bNext, dNext, pNext, rNext
<1>11. /\ Total(dNext) = Total(d) - d[t] + dNext[t]
       /\ Total(pNext) = Total(p) - p[t] + pNext[t]
       /\ Total(rNext) = Total(r) - r[t] + rNext[t]
  BY <1>6, <1>7, <1>10
<1>12. /\ Total(d) \in Nat /\ Total(p) \in Nat /\ Total(r) \in Nat
       /\ d[t] \in Nat /\ p[t] \in Nat /\ r[t] \in Nat
       /\ dNext[t] \in Nat /\ pNext[t] \in Nat /\ rNext[t] \in Nat
  BY <1>6, <1>9, TotalType
<1>13. bNext + Total(dNext) = start + Total(pNext) + Total(rNext)
  BY <1>6, <1>8, <1>11, <1>12
<1> QED
  BY <1>13 DEF start, bNext, dNext, pNext, rNext

\* Every step keeps every wallet reconciled with the ledger.
LEMMA ReconcileStep ==
  TypeOK /\ LedgerMatchesStatus /\ WalletsReconcile /\ [Next]_vars => WalletsReconcile'
<1> SUFFICES ASSUME TypeOK, LedgerMatchesStatus, WalletsReconcile, [Next]_vars
             PROVE  WalletsReconcile'
  OBVIOUS
<1>1. TypeOK' /\ LedgerMatchesStatus' /\ RowsCountOnce /\ RowsCountOnce'
  BY TypeStep, LedgerStep, RowsCount, RowsCountNext
<1> DEFINE Touches(t) ==
             \A x \in Txs \ {t} :
               status'[x] = status[x] /\ terms'[x] = terms[x] /\ rows'[x] = rows[x]
           Balances(t, u) ==
             balance'[u] + Debits(u)'[t] + Payouts(u)[t] + Refunds(u)[t]
               = balance[u] + Debits(u)[t] + Payouts(u)'[t] + Refunds(u)'[t]
<1>2. ASSUME NEW t \in Txs, Touches(t), \A u \in Users : Balances(t, u)
      PROVE  WalletsReconcile'
  BY <1>1, <1>2, OneDealReconciles DEF WalletsReconcile
<1> HIDE DEF Touches, Balances
<1>3. CASE UNCHANGED books
  BY <1>3 DEF books, WalletsReconcile, Debits, Payouts, Refunds
<1>4. ASSUME NEW t \in Txs, NEW s \in TxStatus, SetStatus(t, s), UNCHANGED <<balance, rows>>,
             \A x \in Txs \ {t} : terms'[x] = terms[x],
             \/ status[t] \in {"NONE", "WAITING_PAYMENT"} /\ s \in {"WAITING_PAYMENT", "CANCELLED"}
             \/ status[t] = "FUNDS_LOCKED" /\ s = "DISPUTED" /\ terms'[t] = terms[t]
      PROVE  WalletsReconcile'
  <2>1. Touches(t)
    BY <1>4 DEF Touches, SetStatus, TypeOK, EscrowTypeOK
  <2>2. ASSUME NEW u \in Users
        PROVE  /\ Debits(u)'[t] = Debits(u)[t]
               /\ Payouts(u)'[t] = Payouts(u)[t]
               /\ Refunds(u)'[t] = Refunds(u)[t]
    <3>1. status'[t] = s
      BY <1>4 DEF SetStatus, TypeOK, EscrowTypeOK
    <3>2. CASE status[t] \in {"NONE", "WAITING_PAYMENT"} /\ s \in {"WAITING_PAYMENT", "CANCELLED"}
      BY <1>1, <3>1, <3>2 DEF RowsCountOnce, Paid, Held, Settled
    <3>3. CASE status[t] = "FUNDS_LOCKED" /\ s = "DISPUTED" /\ terms'[t] = terms[t]
      BY <1>1, <3>1, <3>3 DEF RowsCountOnce, Paid, Held, Settled
    <3> QED
      BY <1>4, <3>2, <3>3
  <2>3. \A u \in Users : Balances(t, u)
    BY <1>4, <2>2 DEF Balances
  <2> QED
    BY <1>2, <2>1, <2>3
<1>5. ASSUME NEW t \in Txs,
             Create(t) \/ CancelTransaction(t) \/ \E u \in Users : OpenDispute(t, u)
      PROVE  WalletsReconcile'
  BY <1>4, <1>5 DEF Create, LockFundsGoods, CreateTransaction, CancelTransaction, OpenDispute, TxStatus, TypeOK, EscrowTypeOK
<1>6. ASSUME NEW t \in Txs, NEW s \in TxStatus, SetStatus(t, s), UNCHANGED terms,
             NEW k \in LedgerTypes, NEW w \in Users, NEW m \in Int, UpdateBalance(t, k, w, m)
      PROVE  /\ Touches(t)
             /\ status'[t] = s
             /\ balance'[w] = balance[w] + m
             /\ \A u \in Users : u # w => balance'[u] = balance[u]
  BY <1>6 DEF Touches, SetStatus, UpdateBalance, TypeOK, EscrowTypeOK
<1>7. \A t \in Txs : status[t] # "NONE" =>
        terms[t].buyer \in Users /\ terms[t].seller \in Users
        /\ terms[t].gross \in Nat /\ terms[t].net \in Nat
  BY DEF TypeOK, EscrowTypeOK, Terms
<1>8. \A u \in Users : balance[u] \in Nat /\ balance'[u] \in Nat
  BY <1>1 DEF TypeOK, EscrowTypeOK
<1>9. ASSUME NEW t \in Txs, ConfirmPayment(t)
      PROVE  WalletsReconcile'
  <2> DEFINE b == terms[t].buyer
             m == -terms[t].gross
  <2>1. /\ status[t] = "WAITING_PAYMENT" /\ UpdateBalance(t, "PAYMENT", b, m)
        /\ SetStatus(t, "FUNDS_LOCKED") /\ terms' = terms
    BY <1>9 DEF ConfirmPayment
  <2>2. b \in Users /\ m \in Int /\ "PAYMENT" \in LedgerTypes /\ "FUNDS_LOCKED" \in TxStatus
    BY <1>7, <2>1 DEF LedgerTypes, TxStatus
  <2>3. /\ Touches(t)
        /\ status'[t] = "FUNDS_LOCKED"
        /\ balance'[b] = balance[b] + m
        /\ \A u \in Users : u # b => balance'[u] = balance[u]
    <3> HIDE DEF b, m
    <3> QED BY <1>6, <2>1, <2>2
  <2>4. ASSUME NEW u \in Users
        PROVE  /\ Debits(u)[t] = 0 /\ Debits(u)'[t] = IF b = u THEN terms[t].gross ELSE 0
               /\ Payouts(u)[t] = 0 /\ Payouts(u)'[t] = 0
               /\ Refunds(u)[t] = 0 /\ Refunds(u)'[t] = 0
    BY <1>1, <2>1, <2>3 DEF RowsCountOnce, Paid, Held, Settled
  <2>5. ASSUME NEW u \in Users
        PROVE  Balances(t, u)
    BY <1>7, <1>8, <2>1, <2>3, <2>4 DEF Balances
  <2> QED
    BY <1>2, <2>3, <2>5
<1>10. ASSUME NEW t \in Txs, Held(t), RefundBuyer(t, 0), UNCHANGED terms
       PROVE  WalletsReconcile'
  <2> DEFINE b == terms[t].buyer
             m == terms[t].gross
  <2>1. UpdateBalance(t, "REFUND", b, m) /\ SetStatus(t, "REFUNDED") /\ status[t] # "NONE"
    BY <1>10, GoodsRefund DEF RefundBuyer, Held
  <2>2. b \in Users /\ m \in Int /\ "REFUND" \in LedgerTypes /\ "REFUNDED" \in TxStatus
    BY <1>7, <2>1 DEF LedgerTypes, TxStatus
  <2>3. /\ Touches(t)
        /\ status'[t] = "REFUNDED"
        /\ balance'[b] = balance[b] + m
        /\ \A u \in Users : u # b => balance'[u] = balance[u]
    <3> HIDE DEF b, m
    <3> QED BY <1>6, <1>10, <2>1, <2>2
  <2>4. ASSUME NEW u \in Users
        PROVE  /\ Debits(u)'[t] = Debits(u)[t]
               /\ Payouts(u)[t] = 0 /\ Payouts(u)'[t] = 0
               /\ Refunds(u)[t] = 0 /\ Refunds(u)'[t] = IF b = u THEN m ELSE 0
    BY <1>1, <1>10, <2>3 DEF RowsCountOnce, Paid, Held, Settled
  <2>5. ASSUME NEW u \in Users
        PROVE  Debits(u)[t] \in Nat
    BY <1>1, RowAmountsType
  <2>6. ASSUME NEW u \in Users
        PROVE  Balances(t, u)
    BY <1>7, <1>8, <2>1, <2>3, <2>4, <2>5 DEF Balances
  <2> QED
    BY <1>2, <2>3, <2>6
<1>11. ASSUME NEW t \in Txs, Held(t), PaySeller(t), UNCHANGED terms
       PROVE  WalletsReconcile'
  <2> DEFINE w == terms[t].seller
             m == terms[t].net
  <2>1. UpdateBalance(t, "RECEIVE_FUNDS", w, m) /\ SetStatus(t, "RELEASED") /\ status[t] # "NONE"
    BY <1>11 DEF PaySeller, Held
  <2>2. w \in Users /\ m \in Int /\ "RECEIVE_FUNDS" \in LedgerTypes /\ "RELEASED" \in TxStatus
    BY <1>7, <2>1 DEF LedgerTypes, TxStatus
  <2>3. /\ Touches(t)
        /\ status'[t] = "RELEASED"
        /\ balance'[w] = balance[w] + m
        /\ \A u \in Users : u # w => balance'[u] = balance[u]
    <3> HIDE DEF w, m
    <3> QED BY <1>6, <1>11, <2>1, <2>2
  <2>4. ASSUME NEW u \in Users
        PROVE  /\ Debits(u)'[t] = Debits(u)[t]
               /\ Payouts(u)[t] = 0 /\ Payouts(u)'[t] = IF w = u THEN m ELSE 0
               /\ Refunds(u)[t] = 0 /\ Refunds(u)'[t] = 0
    BY <1>1, <1>11, <2>3 DEF RowsCountOnce, Paid, Held, Settled
  <2>5. ASSUME NEW u \in Users
        PROVE  Debits(u)[t] \in Nat
    BY <1>1, RowAmountsType
  <2>6. ASSUME NEW u \in Users
        PROVE  Balances(t, u)
    BY <1>7, <1>8, <2>1, <2>3, <2>4, <2>5 DEF Balances
  <2> QED
    BY <1>2, <2>3, <2>6
<1>12. ASSUME NEW t \in Txs, NEW outcome \in Outcomes, ResolveDispute(t, outcome, 0)
       PROVE  WalletsReconcile'
  <2>1. Held(t) /\ terms' = terms /\ (RefundBuyer(t, 0) \/ PaySeller(t))
    BY <1>12 DEF ResolveDispute, Held
  <2> QED
    BY <1>10, <1>11, <2>1
<1>13. ASSUME NEW a \in Actors, CommitRelease(a)
       PROVE  WalletsReconcile'
  <2> DEFINE t == call[a].tx
  <2>1. t \in Txs /\ Held(t) /\ PaySeller(t) /\ terms' = terms
    BY <1>13 DEF CommitRelease, ReleaseFundsGoods, TypeOK, EscrowTypeOK, Held
  <2> HIDE DEF t
  <2> QED
    BY <1>11, <2>1
<1> QED
  BY <1>3, <1>5, <1>9, <1>12, <1>13, NextCases DEF BooksStep

\* For every wallet, balance and ledger agree, for ever.
THEOREM ReconcileCorrect == Spec => []WalletsReconcile
<1>1. Init => WalletsReconcile
  <2> SUFFICES ASSUME Init, NEW u \in Users
               PROVE  balance[u] + Total(Debits(u))
                        = InitialBalance[u] + Total(Payouts(u)) + Total(Refunds(u))
    BY DEF WalletsReconcile
  <2>1. /\ Debits(u) \in [Txs -> Nat] /\ \A t \in Txs : Debits(u)[t] = 0
        /\ Payouts(u) \in [Txs -> Nat] /\ \A t \in Txs : Payouts(u)[t] = 0
        /\ Refunds(u) \in [Txs -> Nat] /\ \A t \in Txs : Refunds(u)[t] = 0
    BY DEF Init, EscrowInit, Debits, Payouts, Refunds
  <2>2. Total(Debits(u)) = 0 /\ Total(Payouts(u)) = 0 /\ Total(Refunds(u)) = 0
    BY <2>1, TotalZero
  <2> QED
    BY <2>2, PartiesAssumption DEF Init, EscrowInit
<1> QED
  BY <1>1, TypeCorrect, LedgerCorrect, ReconcileStep, PTL DEF Spec

-----------------------------------------------------------------------------
(* What a step may do.                                                     *)

\* A step that changes the status of a deal has the authority to.
LEMMA AuthorisedStep ==
  TypeOK /\ DisputeMatchesStatus /\ [Next]_vars =>
    \A t \in Txs : status'[t] # status[t] => Authorised(t)
<1> SUFFICES ASSUME TypeOK, DisputeMatchesStatus, [Next]_vars,
                    NEW x \in Txs, status'[x] # status[x]
             PROVE  Authorised(x)
  OBVIOUS
<1> USE DEF Authorised, SetStatus
<1>1. CASE UNCHANGED books
  BY <1>1 DEF books
<1>2. ASSUME NEW t \in Txs, Create(t) \/ ConfirmPayment(t) \/ CancelTransaction(t)
      PROVE  Authorised(x)
  BY <1>2 DEF Create, LockFundsGoods, CreateTransaction, ConfirmPayment, CancelTransaction, TypeOK, EscrowTypeOK
<1>3. ASSUME NEW t \in Txs, NEW u \in Users, OpenDispute(t, u)
      PROVE  Authorised(x)
  BY <1>3 DEF OpenDispute, TypeOK, EscrowTypeOK
<1>4. ASSUME NEW t \in Txs, NEW outcome \in Outcomes, ResolveDispute(t, outcome, 0)
      PROVE  Authorised(x)
  BY <1>4 DEF ResolveDispute, RefundBuyer, PaySeller, SetDispute, TypeOK, EscrowTypeOK
<1>5. ASSUME NEW a \in Actors, CommitRelease(a)
      PROVE  Authorised(x)
  <2> DEFINE t == call[a].tx
  <2>1. t \in Txs /\ status[t] = "FUNDS_LOCKED" /\ status' = [status EXCEPT ![t] = "RELEASED"]
    BY <1>5 DEF CommitRelease, ReleaseFundsGoods, PaySeller, TypeOK, EscrowTypeOK
  <2>2. call[a] = [stage |-> "cleared", tx |-> t]
    BY <1>5 DEF CommitRelease, ReleaseFundsGoods, TypeOK, EscrowTypeOK, Calls
  <2>3. dispute[t].status = "NONE"
    BY <2>1 DEF DisputeMatchesStatus, TypeOK, EscrowTypeOK, Disputes, DisputeStatus
  <2> HIDE DEF t
  <2>4. x = t /\ status'[t] = "RELEASED"
    BY <2>1 DEF TypeOK, EscrowTypeOK
  <2> QED
    BY <2>1, <2>2, <2>3, <2>4
<1> QED
  BY <1>1, <1>2, <1>3, <1>4, <1>5, NextCases DEF BooksStep

\* Money leaves escrow only by a screened release of an undisputed deal or by
\* the answer of an administrator, however calls, workers and disputes race.
THEOREM SettlementCorrect == Spec => SettlementAuthorised
<1>1. /\ TypeOK /\ DisputeMatchesStatus
      /\ [Next]_vars
      => [\A t \in Txs : status'[t] # status[t] => Authorised(t)]_vars
  BY AuthorisedStep
<1> QED
  BY <1>1, TypeCorrect, DisputeCorrect, PTL DEF Spec, SettlementAuthorised

-----------------------------------------------------------------------------
(* GoodsEscrow implements EscrowPromise: the initial state maps to an      *)
(* initial state, and every step to a step of one deal or to none.         *)

\* What is known of every reachable state.
Sound == TypeOK /\ DisputeMatchesStatus

-----------------------------------------------------------------------------
(* The mapping.                                                            *)

\* The dispute and the status never disagree about where a deal stands.
LEMMA PhaseIsStatus ==
  ASSUME Sound, NEW t \in Txs
  PROVE  PhaseOf(t) = PhaseOfStatus(status[t])
BY DEF Sound, DisputeMatchesStatus, PhaseOf, PhaseOfStatus

\* A status that is set moves its deal and no other.
LEMMA PhaseMoves ==
  ASSUME Sound, Sound', NEW t \in Txs, NEW s, SetStatus(t, s)
  PROVE  /\ DealPhases[t] = PhaseOfStatus(status[t])
         /\ DealPhases' = [DealPhases EXCEPT ![t] = PhaseOfStatus(s)]
<1>1. \A x \in Txs : PhaseOf(x) = PhaseOfStatus(status[x])
  BY PhaseIsStatus
<1>2. \A x \in Txs : PhaseOf(x)' = PhaseOfStatus(status'[x])
  <2>1. Sound' => \A x \in Txs : PhaseOf(x)' = PhaseOfStatus(status'[x])
    BY DEF Sound, DisputeMatchesStatus, PhaseOf, PhaseOfStatus
  <2> QED
    BY <2>1
<1>3. status' = [status EXCEPT ![t] = s] /\ status \in [Txs -> TxStatus]
  BY DEF SetStatus, Sound, TypeOK, EscrowTypeOK
<1> QED
  BY <1>1, <1>2, <1>3 DEF DealPhases

\* The agreement of a deal that exists does not depend on its status.
LEMMA AgreementsStay ==
  ASSUME Sound, NEW t \in Txs, NEW s, SetStatus(t, s), terms' = terms,
         status[t] # "NONE", s # "NONE"
  PROVE  DealAgreements' = DealAgreements
<1>1. \A x \in Txs : status'[x] = "NONE" <=> status[x] = "NONE"
  BY DEF SetStatus, Sound, TypeOK, EscrowTypeOK
<1> QED
  BY <1>1 DEF DealAgreements, AgreementOf

\* The agreement of a deal, as the promise sees it.
LEMMA AgreementFields ==
  ASSUME Sound, NEW t \in Txs, status[t] # "NONE"
  PROVE  /\ DealAgreements[t].buyer = terms[t].buyer
         /\ DealAgreements[t].seller = terms[t].seller
         /\ DealAgreements[t].gross = terms[t].gross
         /\ DealAgreements[t].net = terms[t].net
BY DEF DealAgreements, AgreementOf

\* What leaves status, dispute, terms and money alone is invisible.
LEMMA Invisible ==
  ASSUME UNCHANGED database
  PROVE  UNCHANGED Promise!vars
BY DEF database, Promise!vars, DealPhases, PhaseOf, DealAgreements, AgreementOf

-----------------------------------------------------------------------------
(* Each step of the code as a step of the promise.                         *)

LEMMA CreateIsAgree ==
  ASSUME Sound, Sound', NEW t \in Txs, Create(t)
  PROVE  Promise!Agree(t)
<1>0. PICK b \in Users, s \in Users : \E gross, net : CreateTransaction(t, b, s, gross, net)
  BY DEF Create, LockFundsGoods
<1>1. PICK gross, net : CreateTransaction(t, b, s, gross, net)
  BY <1>0
<1>2. /\ status[t] = "NONE" /\ SetStatus(t, "WAITING_PAYMENT")
      /\ UNCHANGED <<balance, finance>>
      /\ \A x \in Txs : x # t => terms'[x] = terms[x]
  BY <1>1 DEF CreateTransaction, Sound, TypeOK, EscrowTypeOK
<1>3. status' = [status EXCEPT ![t] = "WAITING_PAYMENT"] /\ status \in [Txs -> TxStatus]
  BY <1>2 DEF SetStatus, Sound, TypeOK, EscrowTypeOK
<1>4. DealPhases[t] = "none" /\ DealPhases' = [DealPhases EXCEPT ![t] = "agreed"]
  BY <1>2, PhaseMoves DEF PhaseOfStatus
<1>5. terms'[t] \in Terms /\ terms'[t].net <= terms'[t].gross
  BY <1>3 DEF Sound, TypeOK, EscrowTypeOK
<1>6. /\ DealAgreements'[t].net <= DealAgreements'[t].gross
      /\ DealAgreements'[t] \in Promise!Agreements
  BY <1>3, <1>5 DEF DealAgreements, AgreementOf, Promise!Agreements, Terms
<1>7. DealAgreements' = [DealAgreements EXCEPT ![t] = DealAgreements'[t]]
  BY <1>2, <1>3 DEF DealAgreements, AgreementOf
<1> QED
  BY <1>2, <1>4, <1>6, <1>7 DEF Promise!Agree, Promise!Move

LEMMA ConfirmIsFund ==
  ASSUME Sound, Sound', NEW t \in Txs, ConfirmPayment(t)
  PROVE  Promise!Fund(t)
<1>1. /\ status[t] = "WAITING_PAYMENT" /\ SetStatus(t, "FUNDS_LOCKED") /\ terms' = terms
      /\ UpdateBalance(t, "PAYMENT", terms[t].buyer, -terms[t].gross)
      /\ UpdateFinance(terms[t].gross, 0, 0)
  BY DEF ConfirmPayment
<1>2. DealPhases[t] = "agreed" /\ DealPhases' = [DealPhases EXCEPT ![t] = "held"]
  BY <1>1, PhaseMoves DEF PhaseOfStatus
<1>3. DealAgreements' = DealAgreements
  BY <1>1, AgreementsStay
<1>4. /\ DealAgreements[t].buyer = terms[t].buyer
      /\ DealAgreements[t].gross = terms[t].gross
  BY <1>1, AgreementFields
<1>5. terms[t].buyer \in Users /\ terms[t].gross \in Nat /\ balance \in [Users -> Nat]
      /\ finance \in [escrow : Int, revenue : Int, midtransFees : Int]
  BY <1>1 DEF Sound, TypeOK, EscrowTypeOK, Terms
<1>6. /\ balance[terms[t].buyer] >= terms[t].gross
      /\ balance' = [balance EXCEPT ![terms[t].buyer] = @ - terms[t].gross]
  <2> DEFINE u == terms[t].buyer
             gross == terms[t].gross
  <2>1. u \in Users /\ gross \in Nat /\ balance[u] \in Nat
    BY <1>5
  <2>2. /\ -gross < 0 => balance[u] + (-gross) >= 0
        /\ balance' = [balance EXCEPT ![u] = balance[u] + (-gross)]
    BY <1>1 DEF UpdateBalance
  <2> HIDE DEF u, gross
  <2>3. balance[u] >= gross /\ balance[u] + (-gross) = balance[u] - gross
    BY <2>1, <2>2
  <2>4. balance' = [balance EXCEPT ![u] = balance[u] - gross]
    BY <2>2, <2>3
  <2> QED
    BY <2>3, <2>4 DEF u, gross
<1>7. finance'.escrow = finance.escrow + terms[t].gross /\ finance'.revenue = finance.revenue
  BY <1>1, <1>5 DEF UpdateFinance
<1> QED
  BY <1>2, <1>3, <1>4, <1>6, <1>7 DEF Promise!Fund, Promise!Move

\* Both ways to pay the seller.
LEMMA PaySellerIsRelease ==
  ASSUME Sound, Sound', NEW t \in Txs, status[t] \in {"FUNDS_LOCKED", "DISPUTED"},
         PaySeller(t), terms' = terms
  PROVE  \E from \in {"held", "contested"} : Promise!Release(t, from)
<1>1. /\ SetStatus(t, "RELEASED")
      /\ UpdateBalance(t, "RECEIVE_FUNDS", terms[t].seller, terms[t].net)
      /\ UpdateFinance(-terms[t].gross, terms[t].gross - terms[t].net, terms[t].midtransFee)
  BY DEF PaySeller
<1>2. /\ DealPhases[t] \in {"held", "contested"}
      /\ DealPhases' = [DealPhases EXCEPT ![t] = "released"]
  BY <1>1, PhaseMoves DEF PhaseOfStatus
<1>3. DealAgreements' = DealAgreements
  BY <1>1, AgreementsStay
<1>4. /\ DealAgreements[t].seller = terms[t].seller
      /\ DealAgreements[t].gross = terms[t].gross
      /\ DealAgreements[t].net = terms[t].net
  BY AgreementFields
<1>5. terms[t].gross \in Nat /\ terms[t].net \in Nat
      /\ finance \in [escrow : Int, revenue : Int, midtransFees : Int]
  BY DEF Sound, TypeOK, EscrowTypeOK, Terms
<1>6. balance' = [balance EXCEPT ![terms[t].seller] = @ + terms[t].net]
  BY <1>1 DEF UpdateBalance
<1>7. /\ finance'.escrow = finance.escrow - terms[t].gross
      /\ finance'.revenue = finance.revenue + (terms[t].gross - terms[t].net)
  BY <1>1, <1>5 DEF UpdateFinance
<1>8. Promise!Release(t, DealPhases[t])
  BY <1>2, <1>3, <1>4, <1>6, <1>7 DEF Promise!Release, Promise!Move
<1> QED
  BY <1>2, <1>8

LEMMA RefundIsRefund ==
  ASSUME Sound, Sound', NEW t \in Txs, status[t] = "DISPUTED",
         RefundBuyer(t, 0), terms' = terms
  PROVE  Promise!Refund(t)
<1>1. terms[t].gross \in Nat
      /\ finance \in [escrow : Int, revenue : Int, midtransFees : Int]
  BY DEF Sound, TypeOK, EscrowTypeOK, Terms
<1>2. RefundAmount(t, 0) = terms[t].gross
  BY <1>1 DEF RefundAmount
<1>3. /\ SetStatus(t, "REFUNDED")
      /\ UpdateBalance(t, "REFUND", terms[t].buyer, terms[t].gross)
      /\ UpdateFinance(-terms[t].gross, 0, 0)
  BY <1>2 DEF RefundBuyer
<1>4. /\ DealPhases[t] = "contested"
      /\ DealPhases' = [DealPhases EXCEPT ![t] = "refunded"]
  BY <1>3, PhaseMoves DEF PhaseOfStatus
<1>5. DealAgreements' = DealAgreements
  BY <1>3, AgreementsStay
<1>6. /\ DealAgreements[t].buyer = terms[t].buyer
      /\ DealAgreements[t].gross = terms[t].gross
  BY AgreementFields
<1>7. balance' = [balance EXCEPT ![terms[t].buyer] = @ + terms[t].gross]
  BY <1>3 DEF UpdateBalance
<1>8. finance'.escrow = finance.escrow - terms[t].gross /\ finance'.revenue = finance.revenue
  BY <1>1, <1>3 DEF UpdateFinance
<1> QED
  BY <1>4, <1>5, <1>6, <1>7, <1>8 DEF Promise!Refund, Promise!Move

LEMMA CancelIsDrop ==
  ASSUME Sound, Sound', NEW t \in Txs, CancelTransaction(t)
  PROVE  Promise!Drop(t)
<1>1. /\ status[t] = "WAITING_PAYMENT" /\ SetStatus(t, "CANCELLED")
      /\ UNCHANGED <<terms, balance, finance>>
  BY DEF CancelTransaction
<1> QED
  BY <1>1, PhaseMoves, AgreementsStay DEF PhaseOfStatus, Promise!Drop, Promise!Move, Promise!Keep

LEMMA OpenIsContest ==
  ASSUME Sound, Sound', NEW t \in Txs, NEW u, OpenDispute(t, u)
  PROVE  Promise!Contest(t)
<1>1. /\ status[t] = "FUNDS_LOCKED" /\ SetStatus(t, "DISPUTED")
      /\ UNCHANGED <<terms, balance, finance>>
  BY DEF OpenDispute
<1> QED
  BY <1>1, PhaseMoves, AgreementsStay DEF PhaseOfStatus, Promise!Contest, Promise!Move, Promise!Keep

\* An administrator who takes a dispute up moves nothing the parties agreed on.
LEMMA AcknowledgeIsInvisible ==
  ASSUME Sound, Sound', NEW t \in Txs, AcknowledgeDispute(t)
  PROVE  UNCHANGED Promise!vars
<1>1. \A x \in Txs : PhaseOf(x)' = PhaseOf(x)
  BY DEF AcknowledgeDispute, SetDispute, PhaseOf, Sound, TypeOK, EscrowTypeOK
<1> QED
  BY <1>1 DEF AcknowledgeDispute, Promise!vars, DealPhases, DealAgreements, AgreementOf

LEMMA DisputeKeepsPromise ==
  ASSUME Sound, Sound', NEW t \in Txs, DisputeStep(t, 0)
  PROVE  Promise!Next \/ UNCHANGED Promise!vars
<1>1. ASSUME NEW u \in Users, OpenDispute(t, u)
      PROVE  Promise!Next
  BY <1>1, OpenIsContest DEF Promise!Next
<1>2. ASSUME NEW outcome \in Outcomes, ResolveDispute(t, outcome, 0)
      PROVE  Promise!Next
  <2>1. status[t] = "DISPUTED" /\ terms' = terms /\ (RefundBuyer(t, 0) \/ PaySeller(t))
    BY <1>2 DEF ResolveDispute
  <2> QED
    BY <2>1, RefundIsRefund, PaySellerIsRelease DEF Promise!Next
<1> QED
  BY <1>1, <1>2, AcknowledgeIsInvisible DEF DisputeStep

\* Every step, whoever takes it: what only touches calls, screening, the worker,
\* audits, time, freezes and crashes is invisible.
LEMMA StepKeepsPromise ==
  Sound /\ Sound' /\ [Next]_vars => [Promise!Next]_Promise!vars
<1> SUFFICES ASSUME Sound, Sound', [Next]_vars
             PROVE  Promise!Next \/ UNCHANGED Promise!vars
  OBVIOUS
<1>1. ASSUME NEW t \in Txs, Create(t)
      PROVE  Promise!Next
  BY <1>1, CreateIsAgree DEF Promise!Next
<1>2. ASSUME NEW t \in Txs, ConfirmPaymentGoods(t)
      PROVE  Promise!Next
  BY <1>2, ConfirmIsFund DEF ConfirmPaymentGoods, Promise!Next
<1>3. ASSUME NEW t \in Txs, CancelTransaction(t)
      PROVE  Promise!Next
  BY <1>3, CancelIsDrop DEF Promise!Next
<1>4. ASSUME NEW t \in Txs, DisputeStep(t, 0)
      PROVE  Promise!Next \/ UNCHANGED Promise!vars
  BY <1>4, DisputeKeepsPromise
<1>5. ASSUME NEW a \in Actors, CommitRelease(a)
      PROVE  Promise!Next
  <2> DEFINE t == call[a].tx
  <2>1. /\ t \in Txs /\ status[t] = "FUNDS_LOCKED"
        /\ PaySeller(t) /\ terms' = terms
    BY <1>5 DEF CommitRelease, ReleaseFundsGoods, Sound, TypeOK, EscrowTypeOK, Calls
  <2> HIDE DEF t
  <2> QED
    BY <2>1, PaySellerIsRelease DEF Promise!Next
<1>6. CASE UNCHANGED database
  BY <1>6, Invisible
<1>7. ASSUME UNCHANGED vars
      PROVE  UNCHANGED database
  BY <1>7 DEF vars, database
<1> QED
  BY <1>1, <1>2, <1>3, <1>4, <1>5, <1>6, <1>7
     DEF Next, Release, RequestRelease, WorkerTake, DeadlinePasses, Screen, ReleaseFails,
         StartAudit, WorkerScan, Freeze, Unfreeze, Crash

\* Nothing is agreed on at the start, and nothing is in the vault.
LEMMA InitKeepsPromise == Init => Promise!Init
BY DEF Init, EscrowInit, Promise!Init, DealPhases, PhaseOf, PhaseOfStatus,
       DealAgreements, AgreementOf

\* Goods escrow keeps the promise: whatever requests, the worker, disputes,
\* webhooks, frozen wallets and crashes do, every step is a step of one deal
\* with exactly its movement of money, or is invisible to the parties.
THEOREM PromiseKept == Spec => KeepsPromise
<1>1. Sound <=> TypeOK /\ DisputeMatchesStatus
  BY DEF Sound
<1> QED
  BY <1>1, InitKeepsPromise, StepKeepsPromise, TypeCorrect, DisputeCorrect, PTL
     DEF Spec, KeepsPromise, Promise!Spec
=============================================================================
