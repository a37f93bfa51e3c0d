---------------------------- MODULE EscrowProofs ----------------------------
(***************************************************************************)
(* What every kind of escrow may rely on: the shared steps keep the tables *)
(* well typed, and a dispute in step with its transaction.                 *)
(***************************************************************************)
EXTENDS Escrow, MoneyProofs

-----------------------------------------------------------------------------
(* Bounds on the fees, for every amount.                                   *)

\* A percentage between 0 and 100 of an amount is a part of the amount.
LEMMA PercentBounds ==
  ASSUME NEW amount \in Nat, NEW p \in 0 .. 100
  PROVE  /\ Percent(p, amount) \in Nat
         /\ Percent(p, amount) <= amount
<1> DEFINE product == amount * p
<1>1. product \in Nat /\ product <= 100 * amount
  BY Z3
<1> HIDE DEF product
<1>2. product \div 100 \in Nat /\ product \div 100 <= amount
  BY <1>1
<1> QED
  BY <1>2 DEF Percent, product

\* The buyer's fee never lowers what the buyer pays.
THEOREM BuyerServiceFeeType ==
  ASSUME NEW base \in Nat, NEW isRekberPay \in BOOLEAN, NEW tier \in Tiers
  PROVE  CalculateBuyerServiceFee(base, isRekberPay, tier) \in Nat
<1>1. tier # "BRONZE" => BuyerRate[tier] \in 0 .. 100
  BY DEF Tiers, BuyerRate
<1>2. tier # "BRONZE" => Percent(BuyerRate[tier], base) \in Nat
  BY <1>1, PercentBounds
<1> QED
  BY <1>2, FeesAssumption DEF CalculateBuyerServiceFee

\* The commission never takes more than the seller's price, so the net amount
\* LockFundsGoods writes into the row is never negative.
THEOREM SellerServiceFeeBounds ==
  ASSUME NEW base \in Nat, NEW tier \in Tiers
  PROVE  /\ CalculateSellerServiceFee(base, tier) \in Nat
         /\ CalculateSellerServiceFee(base, tier) <= base
<1>1. SellerRate[tier] \in 0 .. 100
  BY DEF Tiers, SellerRate
<1> QED
  BY <1>1, PercentBounds DEF CalculateSellerServiceFee

-----------------------------------------------------------------------------
(* The shared steps.                                                       *)

\* The shared steps on one deal.  released is what its milestones have taken
\* out of escrow so far.
DealStep(t, released) ==
  \/ ConfirmPayment(t)
  \/ CancelTransaction(t)
  \/ DisputeStep(t, released)

-----------------------------------------------------------------------------
(* Type correctness.                                                       *)

\* A refund is a whole number of rupiah and at most the gross amount.
LEMMA RefundAmountBounds ==
  ASSUME EscrowTypeOK, NEW t \in Txs, status[t] # "NONE", NEW released \in Nat
  PROVE  RefundAmount(t, released) \in Nat /\ RefundAmount(t, released) <= terms[t].gross
BY DEF EscrowTypeOK, Terms, RefundAmount

\* Crediting a wallet keeps the tables well typed.
LEMMA CreditType ==
  ASSUME EscrowTypeOK, NEW t \in Txs, NEW k \in LedgerTypes, NEW u \in Users, NEW m \in Nat,
         UpdateBalance(t, k, u, m)
  PROVE  balance' \in [Users -> Nat] /\ rows' \in [Txs -> [LedgerTypes -> Nat]]
BY DEF EscrowTypeOK, UpdateBalance, LedgerTypes

\* Debiting a wallet keeps the tables well typed: a balance never goes below
\* zero (INV-01 of DDD.md).
LEMMA DebitType ==
  ASSUME EscrowTypeOK, NEW t \in Txs, NEW k \in LedgerTypes, NEW u \in Users, NEW m \in Nat,
         UpdateBalance(t, k, u, -m)
  PROVE  balance' \in [Users -> Nat] /\ rows' \in [Txs -> [LedgerTypes -> Nat]]
BY DEF EscrowTypeOK, UpdateBalance, LedgerTypes

\* The platform row takes any whole delta.
LEMMA FinanceType ==
  ASSUME EscrowTypeOK, NEW e \in Int, NEW r \in Int, NEW f \in Int, UpdateFinance(e, r, f)
  PROVE  finance' \in [escrow : Int, revenue : Int, midtransFees : Int]
BY DEF EscrowTypeOK, UpdateFinance

\* A status that is set is a status.
LEMMA StatusType ==
  ASSUME EscrowTypeOK, NEW t \in Txs, NEW s \in TxStatus, SetStatus(t, s)
  PROVE  /\ status' \in [Txs -> TxStatus]
         /\ \A x \in Txs : x # t => status'[x] = status[x]
BY DEF EscrowTypeOK, SetStatus

\* Creating a row with a net amount between nothing and the gross amount.
LEMMA CreateType ==
  ASSUME EscrowTypeOK, NEW t \in Txs, NEW b \in Users, NEW s \in Users,
         NEW gross \in Nat, NEW net \in Nat, net <= gross,
         CreateTransaction(t, b, s, gross, net)
  PROVE  EscrowTypeOK'
<1> DEFINE row == [buyer |-> b, seller |-> s, midtransFee |-> 0, gross |-> gross, net |-> net]
<1>1. row \in Terms /\ row.net <= row.gross
  BY DEF Terms
<1>2. terms' = [terms EXCEPT ![t] = row]
  BY DEF CreateTransaction
<1> HIDE DEF row
<1> QED
  BY <1>1, <1>2 DEF EscrowTypeOK, CreateTransaction, SetStatus, TxStatus

\* Paying the seller of a deal keeps the tables well typed.
LEMMA PaySellerType ==
  ASSUME EscrowTypeOK, NEW t \in Txs, status[t] # "NONE", PaySeller(t), terms' = terms,
         frozen' = frozen, dispute' \in [Txs -> Disputes]
  PROVE  EscrowTypeOK'
<1>1. terms[t].seller \in Users /\ terms[t].net \in Nat /\ terms[t].gross \in Nat
      /\ terms[t].midtransFee \in Int
  BY DEF EscrowTypeOK, Terms
<1>2. balance' \in [Users -> Nat] /\ rows' \in [Txs -> [LedgerTypes -> Nat]]
  <2>1. UpdateBalance(t, "RECEIVE_FUNDS", terms[t].seller, terms[t].net)
    BY DEF PaySeller
  <2> QED
    BY <1>1, <2>1, CreditType DEF LedgerTypes
<1>3. finance' \in [escrow : Int, revenue : Int, midtransFees : Int]
  BY <1>1, FinanceType DEF PaySeller
<1>4. status' \in [Txs -> TxStatus] /\ \A x \in Txs : x # t => status'[x] = status[x]
  BY StatusType DEF PaySeller, TxStatus
<1> QED
  BY <1>2, <1>3, <1>4 DEF EscrowTypeOK

\* Refunding the buyer of a deal keeps the tables well typed.
LEMMA RefundBuyerType ==
  ASSUME EscrowTypeOK, NEW t \in Txs, status[t] # "NONE", NEW released \in Nat,
         RefundBuyer(t, released), terms' = terms, frozen' = frozen,
         dispute' \in [Txs -> Disputes]
  PROVE  EscrowTypeOK'
<1> DEFINE m == RefundAmount(t, released)
<1>1. terms[t].buyer \in Users /\ m \in Nat
  BY RefundAmountBounds DEF EscrowTypeOK, Terms
<1>2. balance' \in [Users -> Nat] /\ rows' \in [Txs -> [LedgerTypes -> Nat]]
  <2>1. UpdateBalance(t, "REFUND", terms[t].buyer, m)
    BY DEF RefundBuyer
  <2> HIDE DEF m
  <2> QED
    BY <1>1, <2>1, CreditType DEF LedgerTypes
<1>3. finance' \in [escrow : Int, revenue : Int, midtransFees : Int]
  <2>1. -m \in Int /\ UpdateFinance(-m, 0, 0)
    BY <1>1 DEF RefundBuyer
  <2> HIDE DEF m
  <2> QED
    BY <2>1, FinanceType
<1>4. status' \in [Txs -> TxStatus] /\ \A x \in Txs : x # t => status'[x] = status[x]
  BY StatusType DEF RefundBuyer, TxStatus
<1> QED
  BY <1>2, <1>3, <1>4 DEF EscrowTypeOK

\* The shared steps keep the tables well typed.
LEMMA DealStepType ==
  ASSUME EscrowTypeOK, NEW t \in Txs, NEW released \in Nat, DealStep(t, released)
  PROVE  EscrowTypeOK'
<1>1. CASE ConfirmPayment(t)
  <2>1. terms[t].buyer \in Users /\ terms[t].gross \in Nat /\ "PAYMENT" \in LedgerTypes
    BY <1>1 DEF EscrowTypeOK, ConfirmPayment, Terms, LedgerTypes
  <2>2. balance' \in [Users -> Nat] /\ rows' \in [Txs -> [LedgerTypes -> Nat]]
    BY <1>1, <2>1, DebitType DEF ConfirmPayment
  <2>3. finance' \in [escrow : Int, revenue : Int, midtransFees : Int]
    BY <1>1, <2>1, FinanceType DEF ConfirmPayment
  <2>4. status' \in [Txs -> TxStatus] /\ \A x \in Txs : x # t => status'[x] = status[x]
    BY <1>1, StatusType DEF ConfirmPayment, TxStatus
  <2> QED
    BY <1>1, <2>2, <2>3, <2>4 DEF EscrowTypeOK, ConfirmPayment
<1>2. CASE CancelTransaction(t)
  BY <1>2 DEF EscrowTypeOK, CancelTransaction, SetStatus, TxStatus
<1>3. ASSUME NEW u \in Users, OpenDispute(t, u)
      PROVE  EscrowTypeOK'
  BY <1>3 DEF EscrowTypeOK, OpenDispute, SetStatus, SetDispute, TxStatus, Disputes, DisputeStatus
<1>4. CASE AcknowledgeDispute(t)
  BY <1>4 DEF EscrowTypeOK, AcknowledgeDispute, SetDispute, Disputes, DisputeStatus
<1>5. ASSUME NEW outcome \in Outcomes, ResolveDispute(t, outcome, released)
      PROVE  EscrowTypeOK'
  <2>1. dispute' \in [Txs -> Disputes]
    BY <1>5 DEF EscrowTypeOK, SetDispute, ResolveDispute, Disputes, DisputeStatus
  <2>2. status[t] # "NONE" /\ terms' = terms /\ frozen' = frozen
        /\ (RefundBuyer(t, released) \/ PaySeller(t))
    BY <1>5 DEF ResolveDispute
  <2> QED
    BY <2>1, <2>2, RefundBuyerType, PaySellerType
<1> QED
  BY <1>1, <1>2, <1>3, <1>4, <1>5 DEF DealStep, DisputeStep

\* So do the operator's.
LEMMA FreezeType ==
  ASSUME EscrowTypeOK, NEW u \in Users, Freeze(u) \/ Unfreeze(u)
  PROVE  EscrowTypeOK'
BY DEF EscrowTypeOK, Freeze, Unfreeze, database

\* The empty tables are well typed.
LEMMA EscrowInitType == EscrowInit => EscrowTypeOK
BY PartiesAssumption DEF EscrowInit, EscrowTypeOK, TxStatus, Disputes, DisputeStatus, LedgerTypes

-----------------------------------------------------------------------------
(* Status and dispute agree.                                               *)

\* Moving the status of an undisputed deal past the disputes.
LEMMA StatusKeepsDispute ==
  ASSUME EscrowTypeOK, DisputeMatchesStatus, NEW t \in Txs, NEW s \in TxStatus,
         SetStatus(t, s), UNCHANGED dispute,
         \/ status[t] = "NONE" /\ s = "WAITING_PAYMENT"
         \/ status[t] = "WAITING_PAYMENT" /\ s \in {"FUNDS_LOCKED", "CANCELLED"}
         \/ status[t] = "FUNDS_LOCKED" /\ s = "RELEASED"
  PROVE  DisputeMatchesStatus'
BY DEF SetStatus, EscrowTypeOK, DisputeMatchesStatus

\* The shared steps keep a dispute and its transaction in step.
LEMMA DealStepDispute ==
  ASSUME EscrowTypeOK, DisputeMatchesStatus, NEW t \in Txs, NEW released,
         DealStep(t, released)
  PROVE  DisputeMatchesStatus'
<1>1. CASE ConfirmPayment(t) \/ CancelTransaction(t)
  BY <1>1, StatusKeepsDispute DEF ConfirmPayment, CancelTransaction, TxStatus
<1>2. ASSUME NEW u \in Users, OpenDispute(t, u)
      PROVE  DisputeMatchesStatus'
  BY <1>2 DEF DisputeMatchesStatus, OpenDispute, SetStatus, SetDispute, EscrowTypeOK
<1>3. CASE AcknowledgeDispute(t)
  BY <1>3 DEF DisputeMatchesStatus, AcknowledgeDispute, SetDispute, EscrowTypeOK
<1>4. ASSUME NEW outcome \in Outcomes, ResolveDispute(t, outcome, released)
      PROVE  DisputeMatchesStatus'
  BY <1>4 DEF DisputeMatchesStatus, ResolveDispute, RefundBuyer, PaySeller, SetStatus,
              SetDispute, EscrowTypeOK
<1> QED
  BY <1>1, <1>2, <1>3, <1>4 DEF DealStep, DisputeStep

\* A deal without a dispute row is not disputed and not refunded.
LEMMA EscrowInitDispute == EscrowInit => DisputeMatchesStatus
BY DEF EscrowInit, DisputeMatchesStatus
=============================================================================
