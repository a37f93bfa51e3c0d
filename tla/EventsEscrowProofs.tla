------------------------- MODULE EventsEscrowProofs -------------------------
(***************************************************************************)
(* Proofs about EventsEscrow, for any number of members, events, invoices  *)
(* and clients and any amounts.                                            *)
(***************************************************************************)
EXTENDS EventsEscrow, EscrowProofs

-----------------------------------------------------------------------------
(* Adding invoices up.                                                     *)

\* AmountsOf with the table of invoices as a parameter, so that it can be
\* compared before and after a step.
Claims(S, inv) == [p \in Payouts |-> IF p \in S THEN inv[p].amount ELSE 0]

LEMMA AmountsAreClaims ==
  /\ \A S : AmountsOf(S) = Claims(S, invoice)
  /\ \A S : AmountsOf(S)' = Claims(S', invoice')
BY DEF AmountsOf, Claims

LEMMA ClaimsType ==
  ASSUME NEW inv, NEW S, \A p \in Payouts : p \in S => inv[p].amount \in Nat
  PROVE  Claims(S, inv) \in [Payouts -> Nat] /\ Total(Claims(S, inv)) \in Nat
<1>1. Claims(S, inv) \in [Payouts -> Nat]
  BY DEF Claims
<1> QED
  BY <1>1, TotalType, VendorsAssumption

\* Sets of invoices without a common invoice claim the sum of what each claims.
LEMMA ClaimsAdd ==
  ASSUME NEW inv, NEW S, NEW R, S \cap R = {},
         \A p \in Payouts : p \in S \cup R => inv[p].amount \in Nat
  PROVE  Total(Claims(S \cup R, inv)) = Total(Claims(S, inv)) + Total(Claims(R, inv))
<1> DEFINE f == Claims(S, inv)
           g == Claims(R, inv)
           h == Claims(S \cup R, inv)
<1>1. f \in [Payouts -> Nat] /\ g \in [Payouts -> Nat] /\ h \in [Payouts -> Nat]
  BY ClaimsType
<1>2. \A p \in Payouts : (f[p] = 0 /\ h[p] = g[p]) \/ (g[p] = 0 /\ h[p] = f[p])
  BY DEF Claims
<1>3. IsFiniteSet(Payouts)
  BY VendorsAssumption
<1> HIDE DEF f, g, h
<1>4. Total(h) = Total(f) + Total(g)
  BY <1>1, <1>2, <1>3, TotalDisjoint
<1> QED
  BY <1>4 DEF f, g, h

\* One invoice claims its amount, and no invoice nothing.
LEMMA ClaimsOne ==
  ASSUME NEW inv, NEW p \in Payouts, inv[p].amount \in Nat
  PROVE  Total(Claims({p}, inv)) = inv[p].amount /\ Total(Claims({}, inv)) = 0
<1>1. Claims({p}, inv) \in [Payouts -> Nat] /\ Claims({}, inv) \in [Payouts -> Nat]
  BY ClaimsType
<1>2. /\ Claims({p}, inv)[p] = inv[p].amount /\ Claims({}, inv)[p] = 0
      /\ \A x \in Payouts : x # p => Claims({p}, inv)[x] = Claims({}, inv)[x]
      /\ \A x \in Payouts : Claims({}, inv)[x] = 0
  BY DEF Claims
<1>3. Total(Claims({}, inv)) = 0
  BY <1>1, <1>2, TotalZero
<1>4. Total(Claims({p}, inv))
        = Total(Claims({}, inv)) - Claims({}, inv)[p] + Claims({p}, inv)[p]
  BY <1>1, <1>2, TotalChange, VendorsAssumption
<1> QED
  BY <1>2, <1>3, <1>4

\* Without an invoice nothing is claimed.
LEMMA ClaimsNone ==
  ASSUME NEW inv, NEW S, \A p \in Payouts : p \notin S
  PROVE  Total(Claims(S, inv)) = 0
<1>1. Claims(S, inv) \in [Payouts -> Nat] /\ \A p \in Payouts : Claims(S, inv)[p] = 0
  BY DEF Claims
<1> QED
  BY <1>1, TotalZero

\* More invoices claim no less.
LEMMA ClaimsMonotone ==
  ASSUME NEW inv, NEW S, NEW R, S \subseteq R,
         \A p \in Payouts : p \in R => inv[p].amount \in Nat
  PROVE  Total(Claims(S, inv)) <= Total(Claims(R, inv))
<1>1. Claims(S, inv) \in [Payouts -> Nat] /\ Claims(R, inv) \in [Payouts -> Nat]
  BY ClaimsType
<1>2. \A p \in Payouts : Claims(S, inv)[p] <= Claims(R, inv)[p]
  BY DEF Claims
<1> QED
  BY <1>1, <1>2, TotalMonotone, VendorsAssumption

\* What an invoice claims does not depend on the other invoices.
LEMMA ClaimsSame ==
  ASSUME NEW inv, NEW invNext, NEW S, \A p \in Payouts : p \in S => invNext[p] = inv[p]
  PROVE  Claims(S, invNext) = Claims(S, inv)
BY DEF Claims

-----------------------------------------------------------------------------
(* Type correctness.  Paying an invoice reads the invoice and its event,   *)
(* so the types rest on both rows being there.                             *)

\* What a client works on has been filed; what it is about to mark disbursed
\* has no wallet; what it has paid stays paid.
JobsFiled ==
  \A c \in Callers :
    /\ call[c].stage \in {"screening", "cleared", "committed"} => call[c].job \in Txs \cup Payouts
    /\ call[c].stage # "idle" /\ call[c].job \in Payouts => payoutStatus[call[c].job] # "NONE"
    /\ call[c].stage = "checked" => invoice[call[c].job].vendor = External
    /\ call[c].stage = "committed" /\ call[c].job \in Payouts => call[c].job \in advanced

\* Invoices are filed against events that were paid.
FiledArePaid == \A p \in Payouts : payoutStatus[p] # "NONE" => Paid(invoice[p].tx)

\* Events have no seller fee.
NoSellerFee == \A t \in Txs : status[t] # "NONE" => terms[t].net = terms[t].gross

TypeInv == TypeOK /\ JobsFiled /\ FiledArePaid /\ NoSellerFee

\* The columns of an invoice that was filed.
LEMMA FiledInvoice ==
  ASSUME TypeInv, NEW p \in Payouts, payoutStatus[p] # "NONE"
  PROVE  /\ invoice[p] \in Invoices /\ invoice[p].tx \in Txs
         /\ invoice[p].vendor \in Vendors \cup {External} /\ invoice[p].amount \in Nat
         /\ Paid(invoice[p].tx) /\ status[invoice[p].tx] # "NONE"
BY DEF TypeInv, TypeOK, FiledArePaid, Invoices, Paid, Held, Settled

\* The platform fee is a part of the budget.
LEMMA PlatformFeeBounds ==
  ASSUME NEW amount \in Nat
  PROVE  EventPlatformFee(amount) \in Nat /\ EventPlatformFee(amount) <= amount
BY PercentBounds DEF EventPlatformFee

\* Paid stays paid, and released stays released.
LEMMA PaidStays ==
  ASSUME TypeInv, NEW t \in Txs, NEW s \in TxStatus, SetStatus(t, s),
         Paid(t) => s \in {"FUNDS_LOCKED", "DISPUTED", "RELEASED", "REFUNDED"},
         status[t] # "RELEASED"
  PROVE  \A x \in Txs : /\ Paid(x) => Paid(x)'
                        /\ status[x] = "RELEASED" => status'[x] = "RELEASED"
BY DEF SetStatus, Paid, Held, Settled, TypeInv, TypeOK, EscrowTypeOK

\* A step that leaves the invoices and the calls alone.
LEMMA DealsType ==
  ASSUME TypeInv, EscrowTypeOK', UNCHANGED <<drawn, invoice, payoutStatus, advanced, asGoods, call, audits>>,
         pledged' \in [Pledges -> Nat],
         \A x \in Txs : Paid(x) => Paid(x)',
         \A x \in Txs : status[x] = "RELEASED" => status'[x] = "RELEASED",
         \A x \in Txs : status'[x] # "NONE" => terms'[x].net = terms'[x].gross
  PROVE  TypeInv'
<1>1. TypeOK'
  BY DEF TypeInv, TypeOK
<1>2. JobsFiled'
  BY DEF TypeInv, JobsFiled
<1>3. FiledArePaid'
  BY FiledInvoice DEF TypeInv, FiledArePaid
<1> QED
  BY <1>1, <1>2, <1>3 DEF TypeInv, NoSellerFee

\* Creating an event.
LEMMA CreateEventsType ==
  ASSUME TypeInv, NEW t \in Txs, Create(t)
  PROVE  TypeInv'
<1> PICK b \in Users, s \in Users, base \in BaseAmounts, pledges \in [Vendors -> PledgeAmounts] :
           LockFundsEvents(t, b, s, base, pledges)
  BY DEF Create
<1>1. base \in Nat
  BY VendorsAssumption DEF LockFundsEvents
<1>2. CreateTransaction(t, b, s, base, base)
  BY DEF LockFundsEvents
<1>3. EscrowTypeOK'
  BY <1>1, <1>2, CreateType DEF TypeInv, TypeOK
<1>4. pledged' = [k \in Pledges |-> IF k[1] = t THEN pledges[k[2]] ELSE pledged[k]]
      /\ UNCHANGED <<drawn, invoice, payoutStatus, advanced, asGoods, call, audits>>
  BY DEF LockFundsEvents
<1>5. pledged' \in [Pledges -> Nat]
  BY <1>4, VendorsAssumption DEF TypeInv, TypeOK, Pledges
<1>6. status[t] = "NONE" /\ SetStatus(t, "WAITING_PAYMENT")
  BY <1>2 DEF CreateTransaction
<1>7. \A x \in Txs : (Paid(x) => Paid(x)') /\ (status[x] = "RELEASED" => status'[x] = "RELEASED")
  BY <1>6, PaidStays DEF TxStatus, Paid, Held, Settled
<1>8. \A x \in Txs : status'[x] # "NONE" => terms'[x].net = terms'[x].gross
  BY <1>2 DEF CreateTransaction, SetStatus, TypeInv, TypeOK, EscrowTypeOK, NoSellerFee
<1> QED
  BY <1>3, <1>4, <1>5, <1>7, <1>8, DealsType

\* The shared steps on one event: its columns stay, and once paid it stays paid.
LEMMA DealMoves ==
  ASSUME TypeInv, NEW t \in Txs, DealStep(t, 0)
  PROVE  /\ terms' = terms
         /\ \A x \in Txs : Paid(x) => Paid(x)'
         /\ \A x \in Txs : status'[x] # "NONE" => status[x] # "NONE"
         /\ \A x \in Txs : status[x] = "RELEASED" => status'[x] = "RELEASED"
<1> USE DEF TypeInv, TypeOK, EscrowTypeOK, SetStatus, Paid, Held, Settled, TxStatus
<1>1. CASE ConfirmPayment(t)
  BY <1>1 DEF ConfirmPayment
<1>2. CASE CancelTransaction(t)
  BY <1>2 DEF CancelTransaction
<1>3. CASE \E u \in Users : OpenDispute(t, u)
  BY <1>3 DEF OpenDispute
<1>4. CASE AcknowledgeDispute(t)
  BY <1>4 DEF AcknowledgeDispute
<1>5. CASE \E outcome \in Outcomes : ResolveDispute(t, outcome, 0)
  BY <1>5 DEF ResolveDispute, RefundBuyer, PaySeller
<1> QED
  BY <1>1, <1>2, <1>3, <1>4, <1>5 DEF DealStep, DisputeStep

LEMMA DealEventsType ==
  ASSUME TypeInv, NEW t \in Txs, DealStep(t, 0), UNCHANGED eventsVars
  PROVE  TypeInv'
<1>1. EscrowTypeOK'
  BY DealStepType DEF TypeInv, TypeOK
<1>2. \A x \in Txs : status'[x] # "NONE" => terms'[x].net = terms'[x].gross
  BY DealMoves DEF TypeInv, NoSellerFee
<1> QED
  BY <1>1, <1>2, DealMoves, DealsType DEF eventsVars, TypeInv, TypeOK

\* Filing an invoice.
LEMMA SubmitType ==
  ASSUME TypeInv, NEW t \in Txs, NEW p \in Payouts, NEW v \in Vendors \cup {External},
         NEW amount \in ClaimAmounts, SubmitEventVendorInvoice(p, t, v, amount)
  PROVE  TypeInv'
<1> DEFINE row == [tx |-> t, vendor |-> v, amount |-> amount]
<1>1. /\ payoutStatus[p] = "NONE" /\ status[t] = "FUNDS_LOCKED"
      /\ invoice' = [invoice EXCEPT ![p] = row]
      /\ payoutStatus' = [payoutStatus EXCEPT ![p] = "PENDING"]
      /\ UNCHANGED <<database, frozen, pledged, drawn, advanced, asGoods, call, audits>>
  BY DEF SubmitEventVendorInvoice, File
<1>2. row \in Invoices /\ row.tx = t
  BY VendorsAssumption DEF Invoices
<1> HIDE DEF row
<1>3. EscrowTypeOK'
  BY <1>1 DEF TypeInv, TypeOK, EscrowTypeOK, database
<1>4. /\ invoice'[p] = row /\ payoutStatus'[p] = "PENDING"
      /\ \A x \in Payouts : x # p => invoice'[x] = invoice[x] /\ payoutStatus'[x] = payoutStatus[x]
      /\ invoice' \in [Payouts -> Invoices \cup {NoInvoice}]
      /\ payoutStatus' \in [Payouts -> PayoutStatus]
  BY <1>1, <1>2 DEF TypeInv, TypeOK, PayoutStatus
<1>5. TypeOK'
  BY <1>1, <1>2, <1>3, <1>4 DEF TypeInv, TypeOK, database
<1>6. JobsFiled'
  <2> SUFFICES ASSUME NEW c \in Callers
               PROVE  /\ call[c].stage # "idle" /\ call[c].job \in Payouts
                           => payoutStatus'[call[c].job] # "NONE"
                      /\ call[c].stage = "checked" => invoice'[call[c].job].vendor = External
    BY <1>1 DEF TypeInv, JobsFiled
  <2>1. call[c].stage # "idle" => call[c].job # p
    BY <1>1 DEF TypeInv, JobsFiled
  <2> QED
    BY <1>4, <2>1 DEF TypeInv, TypeOK, JobsFiled
<1>7. FiledArePaid'
  BY <1>1, <1>2, <1>4 DEF TypeInv, FiledArePaid, Paid, Held, Settled, database
<1>8. NoSellerFee'
  BY <1>1 DEF TypeInv, NoSellerFee, database
<1> QED
  BY <1>5, <1>6, <1>7, <1>8 DEF TypeInv

-----------------------------------------------------------------------------
(* Paying invoices.                                                        *)

\* What both ways of paying do to the invoices in S, which nobody has paid and
\* which belong to members: the wallets and the ledger, the pledges and the
\* status.  The other invoices of outside vendors may move among themselves.
PaySet(t, S) ==
  /\ t \in Txs /\ S \subseteq FiledFor(t)
  /\ \A p \in S : payoutStatus[p] # "APPROVED" /\ invoice[p].vendor \in Vendors
  /\ CreditVendors(t, S)
  /\ DrawDown(t, S)
  /\ payoutStatus' \in [Payouts -> PayoutStatus]
  /\ \A p \in S : payoutStatus'[p] = "APPROVED"
  /\ \A p \in Payouts : p \notin S =>
       \/ payoutStatus'[p] = payoutStatus[p]
       \/ /\ payoutStatus[p] \notin {"NONE", "APPROVED"} /\ invoice[p].vendor = External
          /\ payoutStatus'[p] = "PENDING_DISBURSEMENT"
  /\ UNCHANGED <<terms, dispute, frozen, pledged, invoice, asGoods>>

\* Settling an event takes its invoices and its fee out of escrow.
LEMMA SettleType ==
  ASSUME TypeInv, NEW t \in Txs, status[t] # "NONE", SettleEvent(t)
  PROVE  finance' \in [escrow : Int, revenue : Int, midtransFees : Int]
<1>1. /\ terms[t].gross \in Nat /\ terms[t].midtransFee \in Int
  BY DEF TypeInv, TypeOK, EscrowTypeOK, Terms
<1>2. Total(AmountsOf(FiledFor(t))) \in Nat
  BY ClaimsType, FiledInvoice, AmountsAreClaims DEF FiledFor
<1>3. EventPlatformFee(terms[t].gross) \in Nat
  BY <1>1, PlatformFeeBounds
<1>4. -(Total(AmountsOf(FiledFor(t))) + EventPlatformFee(terms[t].gross)) \in Int
  BY <1>2, <1>3
<1> QED
  BY <1>1, <1>3, <1>4, FinanceType DEF SettleEvent, TypeInv, TypeOK

\* The loop over the open invoices pays those of members.
LEMMA ProcessPays ==
  ASSUME TypeInv, NEW c \in Callers, CommitProcess(c),
         NEW t, t = call[c].job,
         NEW open, open = {p \in FiledFor(t) : payoutStatus[p] # "APPROVED"}
  PROVE  /\ t \in Txs /\ status[t] = "FUNDS_LOCKED" /\ FiledFor(t) # {}
         /\ PaySet(t, InternalOf(open)) /\ UNCHANGED <<advanced, audits>>
         /\ \/ /\ open = InternalOf(open) /\ SettleEvent(t) /\ SetCall(c, "committed", t)
            \/ /\ open # InternalOf(open)
               /\ UNCHANGED <<status, finance>> /\ EndCall(c)
<1> DEFINE internal == InternalOf(open)
           waiting == open \ internal
<1>1. /\ t \in Txs /\ status[t] = "FUNDS_LOCKED" /\ FiledFor(t) # {}
      /\ PayInvoices(c, t, internal, waiting)
  BY DEF CommitProcess, Process
<1>2. internal \subseteq open /\ open \subseteq FiledFor(t) /\ FiledFor(t) \subseteq Payouts
  BY DEF InternalOf, FiledFor
<1>3. /\ \A p \in open : payoutStatus[p] \notin {"NONE", "APPROVED"}
      /\ \A p \in internal : invoice[p].vendor \in Vendors
      /\ \A p \in waiting : invoice[p].vendor = External
  BY <1>2, FiledInvoice DEF InternalOf, FiledFor
<1> HIDE DEF internal, waiting
<1>4. /\ CreditVendors(t, internal) /\ DrawDown(t, internal)
      /\ payoutStatus' = [p \in Payouts |-> IF p \in internal THEN "APPROVED"
                            ELSE IF p \in waiting THEN "PENDING_DISBURSEMENT"
                            ELSE payoutStatus[p]]
      /\ IF waiting = {}
           THEN SettleEvent(t) /\ SetCall(c, "committed", t)
           ELSE UNCHANGED <<status, finance>> /\ EndCall(c)
      /\ UNCHANGED <<terms, dispute, frozen, pledged, invoice, advanced, asGoods, audits>>
  BY <1>1 DEF PayInvoices
<1>5. payoutStatus' \in [Payouts -> PayoutStatus]
  BY <1>4 DEF TypeInv, TypeOK, PayoutStatus
<1>6. waiting = {} <=> open = internal
  BY <1>2 DEF waiting
<1>7. waiting \subseteq open
  BY DEF waiting
<1>8. \A p \in Payouts : p \notin internal =>
       \/ payoutStatus'[p] = payoutStatus[p]
       \/ /\ payoutStatus[p] \notin {"NONE", "APPROVED"} /\ invoice[p].vendor = External
          /\ payoutStatus'[p] = "PENDING_DISBURSEMENT"
  BY <1>3, <1>4, <1>7
<1>9. PaySet(t, internal)
  BY <1>1, <1>2, <1>3, <1>4, <1>5, <1>8 DEF PaySet
<1> QED
  BY <1>1, <1>4, <1>6, <1>9 DEF internal

\* Paying one invoice of a member is paying the set of it.
LEMMA InvoicePays ==
  ASSUME TypeInv, NEW c \in Callers, CommitInvoice(c),
         NEW p, p = call[c].job, NEW t, t = invoice[p].tx
  PROVE  \/ /\ p \in Payouts /\ payoutStatus[p] \notin {"NONE", "APPROVED"}
            /\ invoice[p].vendor = External
            /\ payoutStatus' = [payoutStatus EXCEPT ![p] = "PENDING_DISBURSEMENT"]
            /\ EndCall(c)
            /\ UNCHANGED <<database, frozen, pledged, drawn, invoice, advanced, asGoods, audits>>
         \/ /\ p \in Payouts /\ t \in Txs /\ status[t] # "NONE" /\ invoice[p].amount \in Nat
            /\ PaySet(t, {p}) /\ UpdateFinance(-invoice[p].amount, 0, 0)
            /\ advanced' = advanced \cup {p} /\ SetCall(c, "committed", p)
            /\ UNCHANGED <<status, audits>>
<1>1. /\ p \in Payouts /\ payoutStatus[p] \notin {"NONE", "APPROVED"}
      /\ UNCHANGED <<status, terms, dispute, frozen, pledged, invoice, asGoods, audits>>
  BY DEF CommitInvoice, TypeInv, JobsFiled
<1>2. /\ t \in Txs /\ status[t] # "NONE" /\ invoice[p].amount \in Nat
      /\ invoice[p].vendor \in Vendors \cup {External}
  BY <1>1, FiledInvoice
<1>3. CASE invoice[p].vendor = External
  BY <1>1, <1>3 DEF CommitInvoice, database
<1>4. CASE invoice[p].vendor # External
  <2> DEFINE v == invoice[p].vendor
  <2>1. /\ UpdateBalance(t, "RECEIVE_FUNDS", v, invoice[p].amount)
        /\ payoutStatus' = [payoutStatus EXCEPT ![p] = "APPROVED"]
        /\ DrawDown(t, {p})
        /\ UpdateFinance(-invoice[p].amount, 0, 0)
        /\ advanced' = advanced \cup {p}
        /\ SetCall(c, "committed", p)
    BY <1>4 DEF CommitInvoice
  <2>2. v \in Vendors /\ v \in Users
    BY <1>2, <1>4, VendorsAssumption
  <2>3. \A u \in Users : Total(AmountsOf(OfVendor({p}, u)))
                           = IF u = v THEN invoice[p].amount ELSE 0
    <3>1. \A u \in Users : OfVendor({p}, u) = IF u = v THEN {p} ELSE {}
      BY DEF OfVendor
    <3> QED
      BY <1>1, <1>2, <3>1, ClaimsOne, AmountsAreClaims
  <2> HIDE DEF v
  <2>4. \A u \in Users : balance[u] \in Nat
    BY DEF TypeInv, TypeOK, EscrowTypeOK
  <2>5. balance' = [balance EXCEPT ![v] = @ + invoice[p].amount]
    BY <2>1 DEF UpdateBalance
  <2>6. balance' = [u \in Users |-> balance[u] + Total(AmountsOf(OfVendor({p}, u)))]
    <3>1. balance \in [Users -> Nat]
      BY DEF TypeInv, TypeOK, EscrowTypeOK
    <3>2. \A u \in Users : balance'[u] = balance[u] + Total(AmountsOf(OfVendor({p}, u)))
      <4> SUFFICES ASSUME NEW u \in Users
                   PROVE  balance'[u] = balance[u] + Total(AmountsOf(OfVendor({p}, u)))
        OBVIOUS
      <4>1. CASE u = v
        BY <2>2, <2>3, <2>5, <3>1, <4>1
      <4>2. CASE u # v
        <5>1. balance'[u] = balance[u] /\ Total(AmountsOf(OfVendor({p}, u))) = 0
          BY <2>2, <2>3, <2>5, <3>1, <4>2
        <5> QED BY <2>4, <5>1
      <4> QED BY <4>1, <4>2
    <3>3. balance' = [u \in Users |-> balance'[u]]
      BY <2>5, <3>1
    <3> QED
      BY <3>2, <3>3
  <2>7. Cardinality({p}) = 1
    BY FS_Singleton
  <2>8. CreditVendors(t, {p})
    BY <2>1, <2>6, <2>7 DEF CreditVendors, UpdateBalance, v
  <2>9. /\ payoutStatus'[p] = "APPROVED"
        /\ \A x \in Payouts : x # p => payoutStatus'[x] = payoutStatus[x]
        /\ payoutStatus' \in [Payouts -> PayoutStatus]
    BY <1>1, <2>1 DEF TypeInv, TypeOK, PayoutStatus
  <2>10. PaySet(t, {p})
    BY <1>1, <1>2, <2>1, <2>2, <2>8, <2>9 DEF PaySet, FiledFor, v
  <2> QED
    BY <1>1, <1>2, <2>1, <2>10
<1> QED
  BY <1>3, <1>4

\* What a paid set does to the columns of wallets, ledger and pledges.
LEMMA PaySetColumns ==
  ASSUME TypeInv, NEW t, NEW S, PaySet(t, S)
  PROVE  /\ t \in Txs /\ S \subseteq Payouts /\ IsFiniteSet(S) /\ Cardinality(S) \in Nat
         /\ \A R : \A p \in Payouts : p \in S \cap R => invoice[p].amount \in Nat
         /\ \A v : Total(AmountsOf(OfVendor(S, v))) \in Nat
         /\ balance' \in [Users -> Nat]
         /\ rows' \in [Txs -> [LedgerTypes -> Nat]]
         /\ drawn' \in [Pledges -> Nat]
<1>1. t \in Txs /\ S \subseteq Payouts
  BY DEF PaySet, FiledFor
<1>2. IsFiniteSet(S) /\ Cardinality(S) \in Nat
  BY <1>1, FS_Subset, FS_CardinalityType, VendorsAssumption
<1>3. \A p \in S : invoice[p].amount \in Nat
  BY FiledInvoice DEF PaySet, FiledFor
<1>4. \A v : Total(AmountsOf(OfVendor(S, v))) \in Nat
  <2> SUFFICES ASSUME NEW v PROVE Total(AmountsOf(OfVendor(S, v))) \in Nat
    OBVIOUS
  <2>1. \A p \in Payouts : p \in OfVendor(S, v) => invoice[p].amount \in Nat
    BY <1>3 DEF OfVendor
  <2> QED
    BY <2>1, ClaimsType, AmountsAreClaims
<1>5. balance' \in [Users -> Nat]
  BY <1>4 DEF PaySet, CreditVendors, TypeInv, TypeOK, EscrowTypeOK
<1>6. rows' \in [Txs -> [LedgerTypes -> Nat]]
  BY <1>1, <1>2 DEF PaySet, CreditVendors, LedgerTypes, TypeInv, TypeOK, EscrowTypeOK
<1>7. drawn' \in [Pledges -> Nat]
  BY <1>4 DEF PaySet, DrawDown, TypeInv, TypeOK
<1> QED
  BY <1>1, <1>2, <1>3, <1>4, <1>5, <1>6, <1>7

\* A paid set adds to the invoices that are APPROVED and files none.
LEMMA PaySetMoves ==
  ASSUME TypeInv, NEW t, NEW S, PaySet(t, S)
  PROVE  /\ \A p \in Payouts : /\ payoutStatus'[p] = "NONE" <=> payoutStatus[p] = "NONE"
                               /\ payoutStatus'[p] = "APPROVED"
                                    <=> (payoutStatus[p] = "APPROVED" \/ p \in S)
         /\ S \cap Approved(t) = {}
         /\ \A x : FiledFor(x)' = FiledFor(x)
         /\ Approved(t)' = Approved(t) \cup S
         /\ \A x : x # t => Approved(x)' = Approved(x)
<1>1. \A p \in S : p \in Payouts /\ payoutStatus[p] # "NONE" /\ invoice[p].tx = t
  BY DEF PaySet, FiledFor
<1>2. \A p \in Payouts : /\ payoutStatus'[p] = "NONE" <=> payoutStatus[p] = "NONE"
                         /\ payoutStatus'[p] = "APPROVED"
                              <=> (payoutStatus[p] = "APPROVED" \/ p \in S)
  BY <1>1 DEF PaySet
<1>3. invoice' = invoice
  BY DEF PaySet
<1>4. \A x : FiledFor(x)' = FiledFor(x)
  BY <1>2, <1>3 DEF FiledFor
<1>5. Approved(t)' = Approved(t) \cup S
  BY <1>1, <1>2, <1>4 DEF Approved, FiledFor
<1>6. \A x : x # t => Approved(x)' = Approved(x)
  BY <1>1, <1>2, <1>4 DEF Approved, FiledFor
<1>7. S \cap Approved(t) = {}
  BY DEF PaySet, Approved
<1> QED
  BY <1>2, <1>4, <1>5, <1>6, <1>7

\* A step that pays a set of invoices, whatever it does to the event and the
\* platform row, ends the call or goes on to the audit.
LEMMA PaySetType ==
  ASSUME TypeInv, NEW c \in Callers, NEW t, NEW S, PaySet(t, S),
         status' \in [Txs -> TxStatus],
         \A x \in Txs : (Paid(x) => Paid(x)') /\ (status'[x] # "NONE" => status[x] # "NONE"),
         \A x \in Txs : status[x] = "RELEASED" => status'[x] = "RELEASED",
         finance' \in [escrow : Int, revenue : Int, midtransFees : Int],
         UNCHANGED audits,
         advanced \subseteq advanced', advanced' \subseteq advanced \cup S,
         NEW j, EndCall(c) \/ (j \in Txs \cup advanced' /\ SetCall(c, "committed", j))
  PROVE  TypeInv'
<1>1. /\ balance' \in [Users -> Nat] /\ rows' \in [Txs -> [LedgerTypes -> Nat]]
      /\ drawn' \in [Pledges -> Nat] /\ S \subseteq Payouts
  BY PaySetColumns
<1>2. UNCHANGED <<terms, dispute, frozen, pledged, invoice, asGoods>>
  BY DEF PaySet
<1>3. EscrowTypeOK'
  BY <1>1, <1>2 DEF TypeInv, TypeOK, EscrowTypeOK
<1>4. \A p \in Payouts : /\ payoutStatus'[p] = "NONE" <=> payoutStatus[p] = "NONE"
                         /\ payoutStatus'[p] = "APPROVED"
                              <=> (payoutStatus[p] = "APPROVED" \/ p \in S)
  BY PaySetMoves
<1>5. /\ payoutStatus' \in [Payouts -> PayoutStatus]
      /\ \A p \in Payouts : payoutStatus'[p] \in {"PENDING_DISBURSEMENT", "DISBURSED"}
                              => invoice[p].vendor = External
  BY DEF PaySet, TypeInv, TypeOK
<1>6. \A p \in Payouts : payoutStatus'[p] = "APPROVED" => invoice[p].vendor \in Vendors
  BY <1>4 DEF PaySet, TypeInv, TypeOK
<1>7. advanced' \subseteq {p \in Payouts : payoutStatus'[p] = "APPROVED"}
  BY <1>1, <1>4 DEF TypeInv, TypeOK
<1>8. /\ call' \in [Callers -> Calls]
      /\ \A d \in Callers : d # c => call'[d] = call[d]
      /\ call'[c] = Idle \/ (j \in Txs \cup advanced' /\ call'[c] = [stage |-> "committed", job |-> j])
  BY <1>7 DEF EndCall, SetCall, Idle, Calls, TypeInv, TypeOK
<1>9. \A p \in Payouts : payoutStatus'[p] # "NONE" => invoice[p] \in Invoices
  BY <1>4 DEF TypeInv, TypeOK
<1>16. asGoods' \subseteq {x \in Txs : status'[x] = "RELEASED"}
  BY <1>2 DEF TypeInv, TypeOK
<1>10. /\ call'[c].stage \in {"idle", "committed"}
       /\ call'[c].stage = "committed" => call'[c].job \in Txs \cup advanced'
  BY <1>8 DEF Idle
<1>11. \A d \in Callers :
         /\ call'[d].stage = "checked" => call'[d].job \in Payouts
         /\ call'[d].stage \in GoodsStages => call'[d].job \in Txs
         /\ call'[d].stage \in {"cleared", "committed"} => call'[d].job \in Txs \cup Payouts
  BY <1>7, <1>8, <1>10 DEF TypeInv, TypeOK, GoodsStages
<1>12. TypeOK'
  BY <1>1, <1>2, <1>3, <1>5, <1>6, <1>7, <1>8, <1>9, <1>11, <1>16 DEF TypeInv, TypeOK
<1>13. JobsFiled'
  <2> SUFFICES ASSUME NEW d \in Callers
               PROVE  /\ call'[d].stage \in {"screening", "cleared", "committed"}
                           => call'[d].job \in Txs \cup Payouts
                      /\ call'[d].stage # "idle" /\ call'[d].job \in Payouts
                           => payoutStatus'[call'[d].job] # "NONE"
                      /\ call'[d].stage = "checked" => invoice'[call'[d].job].vendor = External
                      /\ call'[d].stage = "committed" /\ call'[d].job \in Payouts
                           => call'[d].job \in advanced'
    BY DEF JobsFiled
  <2>1. CASE d = c
    BY <1>7, <1>10, <2>1, VendorsAssumption
  <2>2. CASE d # c
    BY <1>2, <1>4, <1>8, <2>2 DEF TypeInv, JobsFiled
  <2> QED
    BY <2>1, <2>2
<1>14. FiledArePaid'
  BY <1>2, <1>4, FiledInvoice DEF TypeInv, FiledArePaid
<1>15. NoSellerFee'
  BY <1>2 DEF TypeInv, NoSellerFee
<1> QED
  BY <1>12, <1>13, <1>14, <1>15 DEF TypeInv

LEMMA ProcessType ==
  ASSUME TypeInv, NEW c \in Callers, CommitProcess(c)
  PROVE  TypeInv'
<1> PICK t : t = call[c].job
  OBVIOUS
<1> PICK open : open = {p \in FiledFor(t) : payoutStatus[p] # "APPROVED"}
  OBVIOUS
<1> PICK S : S = InternalOf(open)
  OBVIOUS
<1>1. /\ t \in Txs /\ status[t] = "FUNDS_LOCKED"
      /\ PaySet(t, S) /\ UNCHANGED <<advanced, audits>>
      /\ \/ SettleEvent(t) /\ SetCall(c, "committed", t)
         \/ UNCHANGED <<status, finance>> /\ EndCall(c)
  BY ProcessPays
<1>2. CASE SettleEvent(t) /\ SetCall(c, "committed", t)
  <2>1. SetStatus(t, "RELEASED")
    BY <1>2 DEF SettleEvent
  <2>2. /\ status' \in [Txs -> TxStatus]
        /\ \A x \in Txs : (Paid(x) => Paid(x)') /\ (status'[x] # "NONE" => status[x] # "NONE")
        /\ \A x \in Txs : status[x] = "RELEASED" => status'[x] = "RELEASED"
    BY <1>1, <2>1 DEF SetStatus, TypeInv, TypeOK, EscrowTypeOK, TxStatus, Paid, Held, Settled
  <2>3. finance' \in [escrow : Int, revenue : Int, midtransFees : Int]
    BY <1>1, <1>2, SettleType
  <2> QED
    BY <1>1, <1>2, <2>2, <2>3, PaySetType
<1>3. CASE UNCHANGED <<status, finance>> /\ EndCall(c)
  <2>1. /\ status' \in [Txs -> TxStatus]
        /\ \A x \in Txs : (Paid(x) => Paid(x)') /\ (status'[x] # "NONE" => status[x] # "NONE")
        /\ finance' \in [escrow : Int, revenue : Int, midtransFees : Int]
    BY <1>3 DEF TypeInv, TypeOK, EscrowTypeOK, Paid, Held, Settled
  <2> QED
    BY <1>1, <1>3, <2>1, PaySetType
<1> QED
  BY <1>1, <1>2, <1>3

\* A step of a client that leaves the rows alone, but for the status of
\* invoices of outside vendors, and that commits nothing.
Quiet(c) ==
  /\ UNCHANGED <<database, frozen, pledged, drawn, invoice, advanced, asGoods>>
  /\ payoutStatus' \in [Payouts -> PayoutStatus]
  /\ \A p \in Payouts : \/ payoutStatus'[p] = payoutStatus[p]
                        \/ /\ payoutStatus[p] \notin {"NONE", "APPROVED"}
                           /\ invoice[p].vendor = External
                           /\ payoutStatus'[p] \in {"PENDING_DISBURSEMENT", "DISBURSED"}
  /\ audits' \in [Txs -> Nat] /\ (UNCHANGED audits \/ StartAudit(c))
  /\ call' = [call EXCEPT ![c] = call'[c]] /\ call'[c] \in Calls
  /\ LET stage == call'[c].stage
         job == call'[c].job
     IN  /\ stage # "committed"
         /\ stage \in {"screening", "cleared"} => job \in Txs \cup Payouts
         /\ stage \in GoodsStages => job \in Txs
         /\ stage # "idle" /\ job \in Payouts => payoutStatus[job] # "NONE"
         /\ stage = "checked" => job \in Payouts /\ invoice[job].vendor = External

LEMMA QuietType ==
  ASSUME TypeInv, NEW c \in Callers, Quiet(c)
  PROVE  TypeInv'
<1>1. EscrowTypeOK' /\ NoSellerFee'
  BY DEF Quiet, TypeInv, TypeOK, EscrowTypeOK, NoSellerFee, database
<1>2. /\ call' \in [Callers -> Calls]
      /\ \A d \in Callers : d # c => call'[d] = call[d]
  BY DEF Quiet, TypeInv, TypeOK
<1>3. \A p \in Payouts : /\ payoutStatus'[p] = "NONE" <=> payoutStatus[p] = "NONE"
                         /\ payoutStatus'[p] = "APPROVED" <=> payoutStatus[p] = "APPROVED"
                         /\ payoutStatus'[p] \in {"PENDING_DISBURSEMENT", "DISBURSED"}
                              => invoice[p].vendor = External
  BY DEF Quiet, TypeInv, TypeOK
<1>4. JobsFiled'
  <2> SUFFICES ASSUME NEW d \in Callers
               PROVE  /\ call'[d].stage \in {"screening", "cleared", "committed"}
                           => call'[d].job \in Txs \cup Payouts
                      /\ call'[d].stage # "idle" /\ call'[d].job \in Payouts
                           => payoutStatus'[call'[d].job] # "NONE"
                      /\ call'[d].stage = "checked" => invoice'[call'[d].job].vendor = External
                      /\ call'[d].stage = "committed" /\ call'[d].job \in Payouts
                           => call'[d].job \in advanced'
    BY DEF JobsFiled
  <2>1. CASE d = c
    BY <1>3, <2>1 DEF Quiet
  <2>2. CASE d # c
    BY <1>2, <1>3, <2>2 DEF Quiet, TypeInv, JobsFiled
  <2> QED
    BY <2>1, <2>2
<1>5. \A d \in Callers :
         /\ call'[d].stage = "checked" => call'[d].job \in Payouts
         /\ call'[d].stage \in GoodsStages => call'[d].job \in Txs
         /\ call'[d].stage \in {"cleared", "committed"} => call'[d].job \in Txs \cup Payouts
  BY <1>2 DEF Quiet, TypeInv, TypeOK
<1>6. TypeOK'
  BY <1>1, <1>2, <1>3, <1>5 DEF Quiet, TypeInv, TypeOK, database
<1>7. FiledArePaid'
  BY <1>3 DEF Quiet, TypeInv, FiledArePaid, Paid, Held, Settled, database
<1> QED
  BY <1>1, <1>4, <1>6, <1>7 DEF TypeInv

\* The steps of a client other than the units of work that pay.
LEMMA QuietSteps ==
  ASSUME TypeInv, NEW c \in Callers,
         \/ \E job \in Txs \cup Payouts : RequestPayout(c, job)
         \/ \E verdict \in {"safe", "unsafe", "unavailable"} : Screen(c, verdict)
         \/ PayoutFails(c) \/ StartAudit(c)
         \/ \E p \in Payouts : CheckDisbursement(c, p)
         \/ RecordDisbursement(c)
  PROVE  Quiet(c)
<1>0. /\ Idle \in Calls /\ Idle.stage = "idle"
      /\ call \in [Callers -> Calls] /\ audits \in [Txs -> Nat]
      /\ payoutStatus \in [Payouts -> PayoutStatus]
  BY DEF Idle, Calls, TypeInv, TypeOK
<1>1. ASSUME NEW job \in Txs \cup Payouts, RequestPayout(c, job)
      PROVE  Quiet(c)
  <2>1. PICK stage \in {"screening", "cleared", "screening_goods"} :
               SetCall(c, stage, job) /\ (stage = "screening_goods" => job \in Txs)
    BY <1>1 DEF RequestPayout
  <2>2. job \in Payouts => payoutStatus[job] # "NONE"
    BY <1>1, VendorsAssumption DEF RequestPayout
  <2>3. call'[c] = [stage |-> stage, job |-> job] /\ call' = [call EXCEPT ![c] = call'[c]]
    BY <1>0, <2>1 DEF SetCall
  <2>4. call'[c] \in Calls /\ call'[c].stage = stage /\ call'[c].job = job
    BY <2>3 DEF Calls, GoodsStages
  <2> QED
    BY <1>0, <1>1, <2>1, <2>2, <2>3, <2>4 DEF RequestPayout, Quiet, GoodsStages
<1>2. ASSUME NEW verdict, Screen(c, verdict)
      PROVE  Quiet(c)
  <2>1. ASSUME NEW stage \in {"cleared", "cleared_goods"},
               stage = IF call[c].stage = "screening" THEN "cleared" ELSE "cleared_goods",
               SetCall(c, stage, call[c].job)
        PROVE  Quiet(c)
    <3>1. /\ call[c].job \in Txs \cup Payouts
          /\ call[c].job \in Payouts => payoutStatus[call[c].job] # "NONE"
          /\ stage = "cleared_goods" => call[c].job \in Txs
      BY <1>2, <2>1 DEF Screen, TypeInv, TypeOK, JobsFiled, GoodsStages
    <3>2. call'[c] = [stage |-> stage, job |-> call[c].job]
          /\ call' = [call EXCEPT ![c] = call'[c]]
      BY <1>0, <2>1 DEF SetCall
    <3>3. call'[c] \in Calls /\ call'[c].stage = stage /\ call'[c].job = call[c].job
      BY <3>1, <3>2 DEF Calls, GoodsStages
    <3> QED
      BY <1>0, <1>2, <3>1, <3>2, <3>3 DEF Screen, Quiet, GoodsStages
  <2>2. CASE EndCall(c)
    BY <1>0, <1>2, <2>2 DEF Screen, EndCall, Quiet, GoodsStages
  <2>3. EndCall(c) \/ \E stage \in {"cleared", "cleared_goods"} :
          /\ stage = IF call[c].stage = "screening" THEN "cleared" ELSE "cleared_goods"
          /\ SetCall(c, stage, call[c].job)
    BY <1>2 DEF Screen
  <2> QED
    BY <2>1, <2>2, <2>3
<1>3. CASE PayoutFails(c)
  BY <1>0, <1>3 DEF PayoutFails, EndCall, Quiet, GoodsStages
<1>4. CASE StartAudit(c)
  <2>1. audits' \in [Txs -> Nat]
    <3>1. EventOf(call[c].job) \in Txs
      BY <1>4, FiledInvoice DEF StartAudit, EventOf, TypeInv, JobsFiled
    <3> QED
      BY <1>0, <1>4, <3>1 DEF StartAudit
  <2> QED
    BY <1>0, <1>4, <2>1 DEF StartAudit, EndCall, Quiet, GoodsStages
<1>5. ASSUME NEW p \in Payouts, CheckDisbursement(c, p)
      PROVE  Quiet(c)
  <2>1. payoutStatus[p] = "PENDING_DISBURSEMENT" /\ invoice[p].vendor = External
    BY <1>5 DEF CheckDisbursement, TypeInv, TypeOK
  <2>2. call'[c] = [stage |-> "checked", job |-> p] /\ call' = [call EXCEPT ![c] = call'[c]]
    BY <1>0, <1>5 DEF CheckDisbursement, SetCall
  <2>3. call'[c] \in Calls /\ call'[c].stage = "checked" /\ call'[c].job = p
    BY <2>2 DEF Calls
  <2> QED
    BY <1>0, <1>5, <2>1, <2>2, <2>3 DEF CheckDisbursement, Quiet, GoodsStages
<1>6. CASE RecordDisbursement(c)
  <2> PICK p : p = call[c].job
    OBVIOUS
  <2>1. /\ p \in Payouts /\ payoutStatus[p] # "NONE" /\ invoice[p].vendor = External
        /\ payoutStatus' = [payoutStatus EXCEPT ![p] = "DISBURSED"] /\ EndCall(c)
        /\ UNCHANGED <<database, frozen, pledged, drawn, invoice, advanced, asGoods, audits>>
    BY <1>6 DEF RecordDisbursement, TypeInv, TypeOK, JobsFiled
  <2>2. payoutStatus[p] # "APPROVED"
    BY <2>1, VendorsAssumption DEF TypeInv, TypeOK
  <2>3. payoutStatus' \in [Payouts -> PayoutStatus]
    BY <1>0, <2>1 DEF PayoutStatus
  <2> QED
    BY <1>0, <2>1, <2>2, <2>3 DEF EndCall, Quiet, GoodsStages
<1> QED
  BY <1>1, <1>2, <1>3, <1>4, <1>5, <1>6

\* Handing an invoice to the bank moves no money.
LEMMA ExternalQuiet ==
  ASSUME TypeInv, NEW c \in Callers, NEW p \in Payouts,
         payoutStatus[p] \notin {"NONE", "APPROVED"}, invoice[p].vendor = External,
         payoutStatus' = [payoutStatus EXCEPT ![p] = "PENDING_DISBURSEMENT"],
         EndCall(c), UNCHANGED <<database, frozen, pledged, drawn, invoice, advanced, asGoods, audits>>
  PROVE  Quiet(c)
<1>1. payoutStatus' \in [Payouts -> PayoutStatus]
  BY DEF TypeInv, TypeOK, PayoutStatus
<1>2. Idle \in Calls /\ Idle.stage = "idle" /\ call'[c] = Idle
  BY DEF Idle, Calls, EndCall, TypeInv, TypeOK
<1> QED
  BY <1>1, <1>2 DEF Quiet, EndCall, TypeInv, TypeOK, GoodsStages

\* Paying one invoice of a member, now.
LEMMA AdvanceType ==
  ASSUME TypeInv, NEW c \in Callers, NEW p \in Payouts, NEW t \in Txs,
         PaySet(t, {p}), UpdateFinance(-invoice[p].amount, 0, 0), invoice[p].amount \in Nat,
         advanced' = advanced \cup {p}, SetCall(c, "committed", p), UNCHANGED <<status, audits>>
  PROVE  TypeInv'
<1>1. /\ status' \in [Txs -> TxStatus]
      /\ \A x \in Txs : (Paid(x) => Paid(x)') /\ (status'[x] # "NONE" => status[x] # "NONE")
  BY DEF TypeInv, TypeOK, EscrowTypeOK, Paid, Held, Settled
<1>2. finance' \in [escrow : Int, revenue : Int, midtransFees : Int]
  <2>1. -invoice[p].amount \in Int
    OBVIOUS
  <2> QED
    BY <2>1, FinanceType DEF TypeInv, TypeOK
<1> QED
  BY <1>1, <1>2, PaySetType

\* Giving a locked event to its seller, like goods.
LEMMA GoodsGiven ==
  ASSUME TypeInv, NEW c \in Callers, CommitGoods(c), NEW t, t = call[c].job
  PROVE  /\ t \in Txs /\ status[t] = "FUNDS_LOCKED" /\ t \notin asGoods
         /\ PaySeller(t) /\ SetStatus(t, "RELEASED") /\ asGoods' = asGoods \cup {t}
         /\ SetCall(c, "committed", t)
         /\ UNCHANGED <<terms, dispute, frozen, pledged, drawn, invoice, payoutStatus, advanced, audits>>
<1>1. t \in Txs
  BY DEF CommitGoods, TypeInv, TypeOK, GoodsStages
<1>2. status[t] = "FUNDS_LOCKED" /\ PaySeller(t)
  BY DEF CommitGoods, ReleaseFundsGoods
<1> QED
  BY <1>1, <1>2 DEF CommitGoods, ReleaseFundsGoods, PaySeller, TypeInv, TypeOK

LEMMA GoodsType ==
  ASSUME TypeInv, NEW c \in Callers, CommitGoods(c)
  PROVE  TypeInv'
<1> PICK t : t = call[c].job
  OBVIOUS
<1>1. /\ t \in Txs /\ status[t] = "FUNDS_LOCKED"
      /\ PaySeller(t) /\ SetStatus(t, "RELEASED") /\ asGoods' = asGoods \cup {t}
      /\ SetCall(c, "committed", t)
      /\ UNCHANGED <<terms, dispute, frozen, pledged, drawn, invoice, payoutStatus, advanced, audits>>
  BY GoodsGiven
<1>2. EscrowTypeOK'
  BY <1>1, PaySellerType DEF TypeInv, TypeOK, EscrowTypeOK
<1>3. /\ \A x \in Txs : (Paid(x) => Paid(x)') /\ (status'[x] # "NONE" => status[x] # "NONE")
      /\ \A x \in Txs : status[x] = "RELEASED" => status'[x] = "RELEASED"
      /\ status'[t] = "RELEASED"
  BY <1>1 DEF SetStatus, Paid, Held, Settled, TypeInv, TypeOK, EscrowTypeOK
<1>4. /\ call' \in [Callers -> Calls]
      /\ \A d \in Callers : d # c => call'[d] = call[d]
      /\ call'[c] = [stage |-> "committed", job |-> t]
  BY <1>1 DEF SetCall, Calls, TypeInv, TypeOK
<1>5. \A d \in Callers :
         /\ call'[d].stage = "checked" => call'[d].job \in Payouts
         /\ call'[d].stage \in GoodsStages => call'[d].job \in Txs
         /\ call'[d].stage \in {"cleared", "committed"} => call'[d].job \in Txs \cup Payouts
  <2> SUFFICES ASSUME NEW d \in Callers
               PROVE  /\ call'[d].stage = "checked" => call'[d].job \in Payouts
                      /\ call'[d].stage \in GoodsStages => call'[d].job \in Txs
                      /\ call'[d].stage \in {"cleared", "committed"}
                           => call'[d].job \in Txs \cup Payouts
    OBVIOUS
  <2>1. CASE d = c
    BY <1>1, <1>4, <2>1 DEF GoodsStages
  <2>2. CASE d # c
    BY <1>4, <2>2 DEF TypeInv, TypeOK
  <2> QED
    BY <2>1, <2>2
<1>6. asGoods' \subseteq {x \in Txs : status'[x] = "RELEASED"}
  BY <1>1, <1>3 DEF TypeInv, TypeOK
<1>7. TypeOK'
  BY <1>1, <1>2, <1>4, <1>5, <1>6 DEF TypeInv, TypeOK
<1>8. JobsFiled'
  <2> SUFFICES ASSUME NEW d \in Callers
               PROVE  /\ call'[d].stage \in {"screening", "cleared", "committed"}
                           => call'[d].job \in Txs \cup Payouts
                      /\ call'[d].stage # "idle" /\ call'[d].job \in Payouts
                           => payoutStatus'[call'[d].job] # "NONE"
                      /\ call'[d].stage = "checked" => invoice'[call'[d].job].vendor = External
                      /\ call'[d].stage = "committed" /\ call'[d].job \in Payouts
                           => call'[d].job \in advanced'
    BY DEF JobsFiled
  <2>1. CASE d = c
    BY <1>1, <1>4, <2>1, VendorsAssumption
  <2>2. CASE d # c
    BY <1>1, <1>4, <2>2 DEF TypeInv, JobsFiled
  <2> QED
    BY <2>1, <2>2
<1>9. FiledArePaid'
  BY <1>1, <1>3, FiledInvoice DEF TypeInv, FiledArePaid
<1>10. NoSellerFee'
  BY <1>1, <1>3 DEF TypeInv, NoSellerFee
<1> QED
  BY <1>7, <1>8, <1>9, <1>10 DEF TypeInv

\* The steps of Next, by what they do to the rows.
LEMMA NextCases ==
  ASSUME TypeInv, [Next]_vars
  PROVE  \/ \E t \in Txs : Create(t)
         \/ \E t \in Txs : DealStep(t, 0) /\ UNCHANGED eventsVars
         \/ \E t \in Txs, p \in Payouts, v \in Vendors \cup {External}, amount \in ClaimAmounts :
              SubmitEventVendorInvoice(p, t, v, amount)
         \/ \E c \in Callers : CommitProcess(c)
         \/ \E c \in Callers, p \in Payouts, t \in Txs :
              /\ PaySet(t, {p}) /\ invoice[p].tx = t /\ status[t] # "NONE"
              /\ invoice[p].amount \in Nat
              /\ UpdateFinance(-invoice[p].amount, 0, 0)
              /\ advanced' = advanced \cup {p} /\ SetCall(c, "committed", p)
              /\ UNCHANGED <<status, audits>>
         \/ \E c \in Callers : CommitGoods(c)
         \/ \E c \in Callers : Quiet(c)
         \/ \E u \in Users : (Freeze(u) \/ Unfreeze(u)) /\ UNCHANGED eventsVars
         \/ UNCHANGED vars
<1>1. ASSUME NEW t \in Txs, ConfirmPaymentEvents(t)
             \/ (CancelTransaction(t) /\ UNCHANGED eventsVars)
             \/ (DisputeStep(t, 0) /\ UNCHANGED eventsVars)
      PROVE  DealStep(t, 0) /\ UNCHANGED eventsVars
  BY <1>1 DEF ConfirmPaymentEvents, DealStep
<1>2. ASSUME NEW c \in Callers, CommitInvoice(c)
      PROVE  \/ Quiet(c)
             \/ \E p \in Payouts, t \in Txs :
                  /\ PaySet(t, {p}) /\ invoice[p].tx = t /\ status[t] # "NONE"
                  /\ invoice[p].amount \in Nat
                  /\ UpdateFinance(-invoice[p].amount, 0, 0)
                  /\ advanced' = advanced \cup {p} /\ SetCall(c, "committed", p)
                  /\ UNCHANGED <<status, audits>>
  <2> PICK p, t : p = call[c].job /\ t = invoice[p].tx
    OBVIOUS
  <2> QED
    BY <1>2, InvoicePays, ExternalQuiet
<1>3. ASSUME NEW c \in Callers, Payout(c) \/ Disburse(c)
      PROVE  Quiet(c) \/ CommitProcess(c) \/ CommitInvoice(c) \/ CommitGoods(c)
  BY <1>3, QuietSteps DEF Payout, Disburse
<1>4. CASE UNCHANGED vars
  BY <1>4
<1>5. CASE Next
  BY <1>1, <1>2, <1>3, <1>5, Zenon DEF Next, Submit
<1> QED
  BY <1>4, <1>5

LEMMA TypeStep == TypeInv /\ [Next]_vars => TypeInv'
<1> SUFFICES ASSUME TypeInv, [Next]_vars
             PROVE  TypeInv'
  OBVIOUS
<1>1. ASSUME NEW u \in Users, Freeze(u) \/ Unfreeze(u), UNCHANGED eventsVars
      PROVE  TypeInv'
  <2>1. EscrowTypeOK' /\ UNCHANGED database
    BY <1>1, FreezeType DEF TypeInv, TypeOK, Freeze, Unfreeze
  <2> QED
    BY <1>1, <2>1, DealsType DEF eventsVars, database, TypeInv, TypeOK, NoSellerFee, Paid, Held, Settled
<1>2. CASE UNCHANGED vars
  <2>1. EscrowTypeOK'
    BY <1>2 DEF TypeInv, TypeOK, EscrowTypeOK, vars, database
  <2> QED
    BY <1>2, <2>1, DealsType DEF vars, eventsVars, database, TypeInv, TypeOK, NoSellerFee, Paid, Held, Settled
<1> QED
  BY <1>1, <1>2, NextCases, CreateEventsType, DealEventsType, SubmitType, ProcessType,
     AdvanceType, GoodsType, QuietType

LEMMA TypeInvCorrect == Spec => []TypeInv
<1>1. Init => TypeInv
  <2> SUFFICES ASSUME Init PROVE TypeInv
    OBVIOUS
  <2>1. EscrowTypeOK /\ \A t \in Txs : status[t] = "NONE"
    BY EscrowInitType DEF Init, EscrowInit
  <2>2. Idle \in Calls /\ Idle.stage = "idle"
    BY DEF Calls, Idle
  <2> QED
    BY <2>1, <2>2 DEF Init, TypeInv, TypeOK, JobsFiled, FiledArePaid, NoSellerFee, PayoutStatus,
       GoodsStages
<1> QED
  BY <1>1, TypeStep, PTL DEF Spec

\* Every reachable state is well typed; above all no wallet is overdrawn and
\* the two ways of paying never mix up members and outside vendors.
THEOREM TypeCorrect == Spec => []TypeOK
<1>1. TypeInv => TypeOK
  BY DEF TypeInv
<1> QED
  BY <1>1, TypeInvCorrect, PTL

-----------------------------------------------------------------------------
(* Status, disputes and invoices.                                          *)

\* The dispute row of an event and its status follow each other, although
\* invoices are paid one at a time without looking at either.
LEMMA DisputesStep == TypeInv /\ DisputeMatchesStatus /\ [Next]_vars => DisputeMatchesStatus'
<1> SUFFICES ASSUME TypeInv, DisputeMatchesStatus, [Next]_vars
             PROVE  DisputeMatchesStatus'
  OBVIOUS
<1>0. EscrowTypeOK
  BY DEF TypeInv, TypeOK
<1>1. UNCHANGED <<status, dispute>> => DisputeMatchesStatus'
  BY DEF DisputeMatchesStatus
<1>2. ASSUME NEW t \in Txs, Create(t)
      PROVE  DisputeMatchesStatus'
  BY <1>0, <1>2, StatusKeepsDispute DEF Create, LockFundsEvents, CreateTransaction, TxStatus
<1>3. ASSUME NEW t \in Txs, DealStep(t, 0)
      PROVE  DisputeMatchesStatus'
  BY <1>0, <1>3, DealStepDispute
<1>4. ASSUME NEW c \in Callers, CommitProcess(c)
      PROVE  DisputeMatchesStatus'
  <2> PICK t, open : /\ t = call[c].job
                     /\ open = {p \in FiledFor(t) : payoutStatus[p] # "APPROVED"}
    OBVIOUS
  <2>1. /\ t \in Txs /\ status[t] = "FUNDS_LOCKED" /\ UNCHANGED dispute
        /\ SetStatus(t, "RELEASED") \/ UNCHANGED status
    <3>1. /\ t \in Txs /\ status[t] = "FUNDS_LOCKED" /\ PaySet(t, InternalOf(open))
          /\ SettleEvent(t) \/ UNCHANGED status
      BY <1>4, ProcessPays
    <3> QED
      BY <3>1 DEF PaySet, SettleEvent
  <2> QED
    BY <1>0, <1>1, <2>1, StatusKeepsDispute DEF TxStatus
<1>5. ASSUME NEW c \in Callers, CommitGoods(c)
      PROVE  DisputeMatchesStatus'
  BY <1>0, <1>5, GoodsGiven, StatusKeepsDispute DEF TxStatus
<1> QED
  BY <1>1, <1>2, <1>3, <1>4, <1>5, NextCases
     DEF SubmitEventVendorInvoice, File, PaySet, Quiet, Freeze, Unfreeze, vars, database

\* A disputed event and its dispute row agree, for ever.
THEOREM DisputeCorrect == Spec => []DisputeMatchesStatus
<1>1. Init => DisputeMatchesStatus
  BY EscrowInitDispute DEF Init
<1> QED
  BY <1>1, TypeInvCorrect, DisputesStep, PTL DEF Spec

\* Which events count as settled by their invoices, and which by a dispute,
\* after a shared step: the first do not change, and of the others at most the
\* one that is resolved.
LEMMA DealSettles ==
  ASSUME TypeInv, NEW t \in Txs, DealStep(t, 0), UNCHANGED asGoods
  PROVE  /\ \A x \in Txs : Processed(x)' <=> Processed(x)
         /\ \A x \in Txs : x # t => status'[x] = status[x] /\ dispute'[x] = dispute[x]
<1> USE DEF TypeInv, TypeOK, EscrowTypeOK, SetStatus, SetDispute, Processed
<1>1. CASE ConfirmPayment(t)
  BY <1>1 DEF ConfirmPayment
<1>2. CASE CancelTransaction(t)
  BY <1>2 DEF CancelTransaction
<1>3. CASE \E u \in Users : OpenDispute(t, u)
  BY <1>3 DEF OpenDispute
<1>4. CASE AcknowledgeDispute(t)
  BY <1>4 DEF AcknowledgeDispute
<1>5. CASE \E outcome \in Outcomes : ResolveDispute(t, outcome, 0)
  BY <1>5 DEF ResolveDispute, RefundBuyer, PaySeller
<1> QED
  BY <1>1, <1>2, <1>3, <1>4, <1>5 DEF DealStep, DisputeStep

\* Creating an event settles none.
LEMMA CreateSettles ==
  ASSUME TypeInv, NEW t \in Txs, Create(t)
  PROVE  /\ status[t] = "NONE" /\ status'[t] = "WAITING_PAYMENT"
         /\ \A x \in Txs : x # t => status'[x] = status[x] /\ terms'[x] = terms[x]
         /\ \A x \in Txs : Processed(x)' <=> Processed(x)
         /\ UNCHANGED <<dispute, balance, frozen, rows, finance, drawn, invoice, payoutStatus,
                        advanced, asGoods, call, audits>>
BY DEF Create, LockFundsEvents, CreateTransaction, SetStatus, Processed, TypeInv, TypeOK,
       EscrowTypeOK

\* An event that its seller is given like goods is not settled by its invoices.
LEMMA GoodsSettles ==
  ASSUME TypeInv, NEW c \in Callers, CommitGoods(c)
  PROVE  /\ \A x \in Txs : Processed(x)' <=> Processed(x)
         /\ UNCHANGED <<invoice, payoutStatus>>
<1> PICK t : t = call[c].job
  OBVIOUS
<1>1. /\ t \in Txs /\ status[t] = "FUNDS_LOCKED" /\ SetStatus(t, "RELEASED")
      /\ asGoods' = asGoods \cup {t} /\ UNCHANGED <<dispute, invoice, payoutStatus>>
  BY GoodsGiven
<1> QED
  BY <1>1 DEF Processed, SetStatus, TypeInv, TypeOK, EscrowTypeOK

\* The sets of invoices of an event depend on their rows alone.
LEMMA SameInvoices ==
  UNCHANGED <<invoice, payoutStatus>> =>
    \A x : FiledFor(x)' = FiledFor(x) /\ Approved(x)' = Approved(x)
BY DEF FiledFor, Approved

LEMMA QuietInvoices ==
  ASSUME NEW c \in Callers, Quiet(c)
  PROVE  /\ \A x : FiledFor(x)' = FiledFor(x) /\ Approved(x)' = Approved(x)
         /\ \A p \in Payouts : payoutStatus'[p] = "APPROVED" <=> payoutStatus[p] = "APPROVED"
<1>1. \A p \in Payouts : /\ payoutStatus'[p] = "NONE" <=> payoutStatus[p] = "NONE"
                         /\ payoutStatus'[p] = "APPROVED" <=> payoutStatus[p] = "APPROVED"
  BY DEF Quiet
<1>2. invoice' = invoice
  BY DEF Quiet
<1> QED
  BY <1>1, <1>2 DEF FiledFor, Approved

\* Filing adds an invoice to those of its event and approves none.
LEMMA SubmitInvoices ==
  ASSUME TypeInv, NEW t \in Txs, NEW p \in Payouts, NEW v, NEW amount,
         SubmitEventVendorInvoice(p, t, v, amount)
  PROVE  /\ payoutStatus[p] = "NONE" /\ status[t] = "FUNDS_LOCKED"
         /\ p \notin advanced
         /\ \A x : p \notin FiledFor(x)
         /\ FiledFor(t)' = FiledFor(t) \cup {p}
         /\ \A x : x # t => FiledFor(x)' = FiledFor(x)
         /\ \A x : Approved(x)' = Approved(x)
         /\ invoice'[p].vendor = v /\ invoice'[p].amount = amount
         /\ \A x \in Payouts : x # p => invoice'[x] = invoice[x] /\ payoutStatus'[x] = payoutStatus[x]
         /\ payoutStatus'[p] = "PENDING"
         /\ UNCHANGED <<database, frozen, pledged, drawn, advanced, asGoods, call, audits>>
<1>1. /\ payoutStatus[p] = "NONE" /\ status[t] = "FUNDS_LOCKED"
      /\ invoice' = [invoice EXCEPT ![p] = [tx |-> t, vendor |-> v, amount |-> amount]]
      /\ payoutStatus' = [payoutStatus EXCEPT ![p] = "PENDING"]
      /\ UNCHANGED <<database, frozen, pledged, drawn, advanced, asGoods, call, audits>>
  BY DEF SubmitEventVendorInvoice, File
<1>2. /\ invoice'[p] = [tx |-> t, vendor |-> v, amount |-> amount] /\ payoutStatus'[p] = "PENDING"
      /\ \A x \in Payouts : x # p => invoice'[x] = invoice[x] /\ payoutStatus'[x] = payoutStatus[x]
  BY <1>1 DEF TypeInv, TypeOK
<1>3. invoice'[p].tx = t /\ invoice'[p].vendor = v /\ invoice'[p].amount = amount
  BY <1>2
<1>4. FiledFor(t)' = FiledFor(t) \cup {p}
  BY <1>1, <1>2, <1>3 DEF FiledFor
<1>5. \A x : x # t => FiledFor(x)' = FiledFor(x)
  BY <1>1, <1>2, <1>3 DEF FiledFor
<1>6. \A x : Approved(x)' = Approved(x)
  BY <1>1, <1>2, <1>3 DEF FiledFor, Approved
<1>7. p \notin advanced /\ \A x : p \notin FiledFor(x)
  BY <1>1 DEF FiledFor, TypeInv, TypeOK
<1> QED
  BY <1>1, <1>2, <1>3, <1>4, <1>5, <1>6, <1>7

-----------------------------------------------------------------------------
(* An event is released by its invoices only when all of them are paid.    *)

\* Which events the unit of work of ProcessEventVendorPayouts settles.
LEMMA ProcessSettles ==
  ASSUME TypeInv, DisputeMatchesStatus, NEW c \in Callers, CommitProcess(c)
  PROVE  \E t \in Txs, S \in SUBSET Payouts :
           /\ t = call[c].job /\ status[t] = "FUNDS_LOCKED" /\ ~Processed(t)
           /\ dispute[t].status = "NONE"
           /\ FiledFor(t) # {} /\ PaySet(t, S) /\ UNCHANGED <<advanced, asGoods, audits, dispute>>
           /\ \A x \in Txs : x # t => status'[x] = status[x] /\ (Processed(x)' <=> Processed(x))
           /\ \/ /\ SettleEvent(t) /\ SetCall(c, "committed", t)
                 /\ status'[t] = "RELEASED" /\ Processed(t)'
                 /\ FiledFor(t) = Approved(t) \cup S
              \/ UNCHANGED <<status, finance>> /\ EndCall(c)
<1> PICK t, open : /\ t = call[c].job
                   /\ open = {p \in FiledFor(t) : payoutStatus[p] # "APPROVED"}
  OBVIOUS
<1> PICK S : S = InternalOf(open)
  OBVIOUS
<1>1. /\ t \in Txs /\ status[t] = "FUNDS_LOCKED" /\ FiledFor(t) # {}
      /\ PaySet(t, S) /\ UNCHANGED <<advanced, asGoods, audits, dispute>>
      /\ \/ open = S /\ SettleEvent(t) /\ SetCall(c, "committed", t)
         \/ UNCHANGED <<status, finance>> /\ EndCall(c)
  BY ProcessPays DEF PaySet
<1>2. dispute[t].status = "NONE" /\ ~Processed(t)
  BY <1>1 DEF DisputeMatchesStatus, Processed, TypeInv, TypeOK, EscrowTypeOK, Disputes,
     DisputeStatus
<1>3. S \in SUBSET Payouts
  BY <1>1, PaySetColumns
<1>4. open = S => FiledFor(t) = Approved(t) \cup S
  BY DEF Approved
<1>5. \A x \in Txs : x # t => status'[x] = status[x] /\ (Processed(x)' <=> Processed(x))
  BY <1>1 DEF SettleEvent, SetStatus, Processed, TypeInv, TypeOK, EscrowTypeOK
<1>6. SettleEvent(t) => status'[t] = "RELEASED" /\ Processed(t)'
  BY <1>1, <1>2 DEF SettleEvent, SetStatus, Processed, TypeInv, TypeOK, EscrowTypeOK
<1> QED
  BY <1>1, <1>2, <1>3, <1>4, <1>5, <1>6

\* A released event was given to its seller as a whole, or settled by its
\* invoices.
LEMMA ProcessedOrGiven ==
  ASSUME TypeInv, DisputeMatchesStatus, NEW t \in Txs
  PROVE  Processed(t) <=> status[t] = "RELEASED" /\ ~GivenToSeller(t)
BY DEF DisputeMatchesStatus, Processed, GivenToSeller, PaidTo, TypeInv, TypeOK, EscrowTypeOK,
       Disputes, DisputeStatus

\* What the unit of work of ProcessEventVendorPayouts leaves behind.
SettledByInvoices ==
  \A t \in Txs : Processed(t) => FiledFor(t) # {} /\ FiledFor(t) = Approved(t)

LEMMA SettledStep ==
  TypeInv /\ DisputeMatchesStatus /\ SettledByInvoices /\ [Next]_vars => SettledByInvoices'
<1> SUFFICES ASSUME TypeInv, DisputeMatchesStatus, SettledByInvoices, [Next]_vars
             PROVE  SettledByInvoices'
  OBVIOUS
<1>1. ASSUME \A x \in Txs : /\ Processed(x)' => Processed(x)
                            /\ FiledFor(x)' = FiledFor(x) /\ Approved(x)' = Approved(x)
      PROVE  SettledByInvoices'
  BY <1>1 DEF SettledByInvoices
<1>2. ASSUME NEW t \in Txs, Create(t)
      PROVE  SettledByInvoices'
  BY <1>1, <1>2, CreateSettles, SameInvoices
<1>3. ASSUME NEW t \in Txs, DealStep(t, 0), UNCHANGED eventsVars
      PROVE  SettledByInvoices'
  BY <1>1, <1>3, DealSettles, SameInvoices DEF eventsVars
<1>10. ASSUME NEW c \in Callers, CommitGoods(c)
       PROVE  SettledByInvoices'
  BY <1>1, <1>10, GoodsSettles, SameInvoices
<1>4. ASSUME NEW t \in Txs, NEW p \in Payouts, NEW v \in Vendors \cup {External},
             NEW amount \in ClaimAmounts, SubmitEventVendorInvoice(p, t, v, amount)
      PROVE  SettledByInvoices'
  <2>1. /\ \A x \in Txs : x # t => FiledFor(x)' = FiledFor(x)
        /\ \A x \in Txs : Approved(x)' = Approved(x)
        /\ status[t] = "FUNDS_LOCKED" /\ UNCHANGED <<status, dispute, asGoods>>
    BY <1>4, SubmitInvoices DEF database
  <2> QED
    BY <2>1 DEF SettledByInvoices, Processed
<1>5. ASSUME NEW c \in Callers, CommitProcess(c)
      PROVE  SettledByInvoices'
  <2> PICK t \in Txs, S \in SUBSET Payouts :
           /\ ~Processed(t) /\ FiledFor(t) # {} /\ PaySet(t, S) /\ UNCHANGED <<dispute, asGoods>>
           /\ \A x \in Txs : x # t => (Processed(x)' <=> Processed(x))
           /\ FiledFor(t) = Approved(t) \cup S \/ UNCHANGED status
    BY <1>5, ProcessSettles, Zenon
  <2>1. /\ \A x \in Txs : FiledFor(x)' = FiledFor(x)
        /\ Approved(t)' = Approved(t) \cup S
        /\ \A x \in Txs : x # t => Approved(x)' = Approved(x)
    BY PaySetMoves
  <2>2. UNCHANGED status => ~Processed(t)'
    BY DEF Processed
  <2> QED
    BY <2>1, <2>2 DEF SettledByInvoices
<1>6. ASSUME NEW t \in Txs, NEW S, PaySet(t, S), UNCHANGED status
      PROVE  SettledByInvoices'
  <2>1. /\ \A x \in Txs : FiledFor(x)' = FiledFor(x)
        /\ Approved(t)' = Approved(t) \cup S
        /\ \A x \in Txs : x # t => Approved(x)' = Approved(x)
        /\ S \subseteq FiledFor(t)
    BY <1>6, PaySetMoves DEF PaySet
  <2>2. \A x \in Txs : Processed(x)' <=> Processed(x)
    BY <1>6 DEF Processed, PaySet
  <2>3. Processed(t) => FiledFor(t) = Approved(t) \cup S
    BY <2>1 DEF SettledByInvoices
  <2> QED
    BY <2>1, <2>2, <2>3 DEF SettledByInvoices
<1>7. ASSUME NEW c \in Callers, Quiet(c)
      PROVE  SettledByInvoices'
  <2>1. \A x \in Txs : Processed(x)' <=> Processed(x)
    BY <1>7 DEF Quiet, Processed, database
  <2> QED
    BY <1>1, <1>7, <2>1, QuietInvoices
<1>8. CASE UNCHANGED <<status, dispute, asGoods, invoice, payoutStatus>>
  <2>1. \A x \in Txs : Processed(x)' <=> Processed(x)
    BY <1>8 DEF Processed
  <2> QED
    BY <1>1, <1>8, <2>1, SameInvoices
<1>9. \/ UNCHANGED vars
      \/ \E u \in Users : (Freeze(u) \/ Unfreeze(u)) /\ UNCHANGED eventsVars
      => UNCHANGED <<status, dispute, asGoods, invoice, payoutStatus>>
  BY DEF vars, eventsVars, database, Freeze, Unfreeze
<1> QED
  BY <1>2, <1>3, <1>4, <1>5, <1>6, <1>7, <1>8, <1>9, <1>10, NextCases

\* An event is released by its invoices only when every one of them is paid,
\* and it stays so: ProcessEventVendorPayouts settles "only when all vendors
\* are settled", whoever files and pays at the same time.
THEOREM SettledCorrect == Spec => []ReleasedMeansSettled
<1>1. Init => SettledByInvoices
  BY DEF Init, EscrowInit, SettledByInvoices, Processed
<1>2. TypeInv /\ DisputeMatchesStatus /\ SettledByInvoices => ReleasedMeansSettled
  BY ProcessedOrGiven DEF SettledByInvoices, ReleasedMeansSettled
<1> QED
  BY <1>1, <1>2, TypeInvCorrect, DisputeCorrect, SettledStep, PTL DEF Spec

-----------------------------------------------------------------------------
(* What members may claim.                                                 *)

\* A member's invoice is never DISBURSED, so it keeps its claim on the escrow.
LEMMA InternalActive ==
  ASSUME TypeInv, NEW t \in Txs
  PROVE  /\ Total(AmountsOf(InternalOf(FiledFor(t)))) \in Nat
         /\ GetActivePayoutsTotal(t) \in Nat
         /\ Total(AmountsOf(InternalOf(FiledFor(t)))) <= GetActivePayoutsTotal(t)
<1> DEFINE active == {p \in FiledFor(t) : payoutStatus[p] # "DISBURSED"}
           internal == InternalOf(FiledFor(t))
<1>1. internal \subseteq active
  BY DEF InternalOf, FiledFor, TypeInv, TypeOK
<1>2. /\ \A p \in Payouts : p \in active => invoice[p].amount \in Nat
      /\ \A p \in Payouts : p \in internal => invoice[p].amount \in Nat
  BY FiledInvoice DEF FiledFor, InternalOf
<1> HIDE DEF active, internal
<1>3. Total(Claims(active, invoice)) \in Nat /\ Total(Claims(internal, invoice)) \in Nat
  BY <1>2, ClaimsType
<1>4. Total(Claims(internal, invoice)) <= Total(Claims(active, invoice))
  BY <1>1, <1>2, ClaimsMonotone
<1>5. /\ AmountsOf(internal) = Claims(internal, invoice)
      /\ AmountsOf(active) = Claims(active, invoice)
  BY AmountsAreClaims
<1> QED
  BY <1>3, <1>4, <1>5 DEF GetActivePayoutsTotal, active, internal

\* What is left of a pledge is not negative.
LEMMA NotNegative ==
  ASSUME NEW a \in Nat, NEW b \in Nat
  PROVE  (IF a > b THEN a - b ELSE 0) \in Nat
OBVIOUS

\* What is reserved for the other vendors is not negative.
LEMMA ReservedType ==
  ASSUME TypeInv, NEW t \in Txs, NEW v
  PROVE  ReservedFor(t, v) \in Nat
<1> DEFINE f == [u \in Vendors \ {v} |->
                   IF pledged[t, u] > drawn[t, u] THEN pledged[t, u] - drawn[t, u] ELSE 0]
<1>1. \A u \in Vendors : pledged[t, u] \in Nat /\ drawn[t, u] \in Nat
  BY DEF TypeInv, TypeOK, Pledges
<1>2. f \in [Vendors \ {v} -> Nat]
  <2>1. \A u \in Vendors \ {v} :
          (IF pledged[t, u] > drawn[t, u] THEN pledged[t, u] - drawn[t, u] ELSE 0) \in Nat
    <3> SUFFICES ASSUME NEW u \in Vendors \ {v}
                 PROVE  (IF pledged[t, u] > drawn[t, u]
                           THEN pledged[t, u] - drawn[t, u] ELSE 0) \in Nat
      OBVIOUS
    <3>1. pledged[t, u] \in Nat /\ drawn[t, u] \in Nat
      BY <1>1
    <3> QED
      BY <3>1, NotNegative, Zenon
  <2> QED
    BY <2>1, Zenon
<1>3. IsFiniteSet(Vendors \ {v})
  BY FS_Subset, VendorsAssumption, PartiesAssumption
<1> HIDE DEF f
<1>4. Total(f) \in Nat
  BY <1>2, <1>3, TotalType
<1> QED
  BY <1>4 DEF ReservedFor, f

\* What can be paid out of a budget is not negative.
LEMMA PayableType ==
  ASSUME TypeInv, NEW t \in Txs, status[t] # "NONE"
  PROVE  PayableEscrow(t) \in Nat
<1>1. terms[t].gross \in Nat
  BY DEF TypeInv, TypeOK, EscrowTypeOK, Terms
<1> QED
  BY <1>1, PlatformFeeBounds DEF PayableEscrow

PayableTyped == \A t \in Txs : status[t] # "NONE" => PayableEscrow(t) \in Nat

LEMMA PayableNext == TypeInv' => PayableTyped'
<1>1. TypeInv => PayableTyped
  BY PayableType DEF PayableTyped
<1> QED
  BY <1>1, PTL

\* Nothing is filed against an event that is not paid.
LEMMA UnpaidUnfiled ==
  ASSUME TypeInv, NEW t \in Txs, ~Paid(t)
  PROVE  FiledFor(t) = {}
BY FiledInvoice DEF FiledFor

\* A step that files no invoice.
LEMMA ClaimsKept ==
  ASSUME TypeInv, TypeInv', InternalClaimsWithinEscrow, UNCHANGED invoice,
         \A x \in Txs : FiledFor(x)' = FiledFor(x),
         \A x \in Txs : Paid(x) => terms'[x] = terms[x]
  PROVE  InternalClaimsWithinEscrow'
<1> SUFFICES ASSUME NEW x \in Txs, Paid(x)'
             PROVE  Total(AmountsOf(InternalOf(FiledFor(x))))' <= PayableEscrow(x)'
  BY DEF InternalClaimsWithinEscrow
<1>1. InternalOf(FiledFor(x))' = InternalOf(FiledFor(x))
  BY DEF InternalOf
<1>2. Total(AmountsOf(InternalOf(FiledFor(x))))' = Total(AmountsOf(InternalOf(FiledFor(x))))
  BY <1>1 DEF AmountsOf, Total, Coins, Purse
<1>3. CASE Paid(x)
  <2>1. PayableEscrow(x)' = PayableEscrow(x)
    BY <1>3 DEF PayableEscrow, EventPlatformFee, Percent
  <2> QED
    BY <1>2, <1>3, <2>1 DEF InternalClaimsWithinEscrow
<1>4. CASE ~Paid(x)
  <2>1. InternalOf(FiledFor(x)) = {}
    BY <1>4, UnpaidUnfiled DEF InternalOf
  <2>2. Total(AmountsOf(InternalOf(FiledFor(x)))) = 0
    BY <2>1, ClaimsNone, AmountsAreClaims
  <2>3. PayableEscrow(x)' \in Nat
    BY PayableNext DEF PayableTyped, Paid, Held, Settled
  <2> QED
    BY <1>2, <2>2, <2>3
<1> QED
  BY <1>3, <1>4

\* An invoice is only filed if it fits into what the others leave.
LEMMA SubmitClaims ==
  ASSUME TypeInv, InternalClaimsWithinEscrow, NEW t \in Txs, NEW p \in Payouts,
         NEW v \in Vendors \cup {External}, NEW amount \in ClaimAmounts,
         SubmitEventVendorInvoice(p, t, v, amount)
  PROVE  InternalClaimsWithinEscrow'
<1> SUFFICES ASSUME NEW x \in Txs, Paid(x)'
             PROVE  Total(AmountsOf(InternalOf(FiledFor(x))))' <= PayableEscrow(x)'
  BY DEF InternalClaimsWithinEscrow
<1> DEFINE before == InternalOf(FiledFor(x))
           after == InternalOf(FiledFor(x))'
<1>1. /\ status[t] = "FUNDS_LOCKED"
      /\ p \notin FiledFor(x)
      /\ FiledFor(x)' = IF x = t THEN FiledFor(x) \cup {p} ELSE FiledFor(x)
      /\ invoice'[p].vendor = v /\ invoice'[p].amount = amount
      /\ \A q \in Payouts : q # p => invoice'[q] = invoice[q]
      /\ UNCHANGED <<status, terms>>
  BY SubmitInvoices DEF database
<1>2. PayableEscrow(x)' = PayableEscrow(x)
  BY <1>1 DEF PayableEscrow, EventPlatformFee, Percent
<1>3. Paid(x)
  BY <1>1 DEF Paid, Held, Settled
<1>4. Total(AmountsOf(before)) <= PayableEscrow(x)
  BY <1>3 DEF InternalClaimsWithinEscrow
<1>5. FiledFor(x) \subseteq Payouts
  BY DEF FiledFor
<1>6. after = IF x = t /\ v # External THEN before \cup {p} ELSE before
  BY <1>1, <1>5 DEF InternalOf
<1>7. \A q \in Payouts : q \in before => q # p /\ invoice[q].amount \in Nat
  BY <1>1, FiledInvoice DEF InternalOf, FiledFor
<1>8. AmountsOf(before) = Claims(before, invoice) /\ AmountsOf(InternalOf(FiledFor(x)))' = Claims(after, invoice')
  BY AmountsAreClaims
<1> HIDE DEF before, after
<1>9. Claims(before, invoice') = Claims(before, invoice)
  BY <1>1, <1>7, ClaimsSame
<1>10. CASE x = t /\ v # External
  <2>1. amount \in Nat /\ invoice'[p].amount = amount
    BY <1>1, VendorsAssumption
  <2>2. before \cap {p} = {} /\ \A q \in Payouts : q \in before \cup {p} => invoice'[q].amount \in Nat
    BY <1>1, <1>5, <1>7, <2>1 DEF before, InternalOf
  <2>3. Total(Claims(after, invoice')) = Total(Claims(before, invoice')) + Total(Claims({p}, invoice'))
    BY <1>6, <1>10, <2>2, ClaimsAdd
  <2>4. Total(Claims({p}, invoice')) = amount
    BY <2>1, ClaimsOne
  <2>5. /\ Total(AmountsOf(before)) <= GetActivePayoutsTotal(t)
        /\ Total(AmountsOf(before)) \in Nat /\ GetActivePayoutsTotal(t) \in Nat
    BY <1>10, InternalActive DEF before
  <2>6. GetActivePayoutsTotal(t) + ReservedFor(t, v) + amount <= PayableEscrow(t)
    BY DEF SubmitEventVendorInvoice
  <2>7. ReservedFor(t, v) \in Nat /\ PayableEscrow(t) \in Nat
    BY <1>1, ReservedType, PayableType
  <2>8. Total(AmountsOf(before)) + amount <= PayableEscrow(t)
    BY <2>1, <2>5, <2>6, <2>7
  <2> QED
    BY <1>2, <1>8, <1>9, <1>10, <2>3, <2>4, <2>8
<1>11. CASE ~(x = t /\ v # External)
  BY <1>2, <1>4, <1>6, <1>8, <1>9, <1>11
<1> QED
  BY <1>10, <1>11

LEMMA ClaimsStep ==
  TypeInv /\ InternalClaimsWithinEscrow /\ [Next]_vars => InternalClaimsWithinEscrow'
<1> SUFFICES ASSUME TypeInv, InternalClaimsWithinEscrow, [Next]_vars
             PROVE  InternalClaimsWithinEscrow'
  OBVIOUS
<1>0. TypeInv'
  BY TypeStep
<1>1. CASE UNCHANGED <<terms, invoice, payoutStatus>>
  BY <1>0, <1>1, ClaimsKept, SameInvoices
<1>2. ASSUME NEW t \in Txs, Create(t)
      PROVE  InternalClaimsWithinEscrow'
  <2>1. /\ \A x \in Txs : Paid(x) => terms'[x] = terms[x]
        /\ UNCHANGED <<invoice, payoutStatus>>
    BY <1>2, CreateSettles DEF Paid, Held, Settled
  <2> QED
    BY <1>0, <2>1, ClaimsKept, SameInvoices
<1>3. ASSUME NEW t \in Txs, DealStep(t, 0), UNCHANGED eventsVars
      PROVE  InternalClaimsWithinEscrow'
  BY <1>1, <1>3, DealMoves DEF eventsVars
<1>4. ASSUME NEW t, NEW S, PaySet(t, S)
      PROVE  InternalClaimsWithinEscrow'
  <2>1. UNCHANGED <<terms, invoice>>
    BY <1>4 DEF PaySet
  <2> QED
    BY <1>0, <1>4, <2>1, PaySetMoves, ClaimsKept
<1>5. ASSUME NEW c \in Callers, CommitProcess(c)
      PROVE  InternalClaimsWithinEscrow'
  <2> PICK t, open : /\ t = call[c].job
                     /\ open = {p \in FiledFor(t) : payoutStatus[p] # "APPROVED"}
    OBVIOUS
  <2> QED
    BY <1>4, <1>5, ProcessPays
<1>6. ASSUME NEW c \in Callers, Quiet(c)
      PROVE  InternalClaimsWithinEscrow'
  <2>1. UNCHANGED <<terms, invoice>>
    BY <1>6 DEF Quiet, database
  <2> QED
    BY <1>0, <1>6, <2>1, QuietInvoices, ClaimsKept
<1>7. \/ UNCHANGED vars
      \/ \E u \in Users : (Freeze(u) \/ Unfreeze(u)) /\ UNCHANGED eventsVars
      => UNCHANGED <<terms, invoice, payoutStatus>>
  BY DEF vars, eventsVars, database, Freeze, Unfreeze
<1>8. ASSUME NEW c \in Callers, CommitGoods(c)
      PROVE  InternalClaimsWithinEscrow'
  <2> PICK t : t = call[c].job
    OBVIOUS
  <2> QED
    BY <1>1, <1>8, GoodsGiven
<1> QED
  BY <1>1, <1>2, <1>3, <1>4, <1>5, <1>6, <1>7, <1>8, SubmitClaims, NextCases

\* The invoices of members never claim more than the escrow less the platform
\* fee, in whatever order they are filed, paid and disbursed.
THEOREM ClaimsCorrect == Spec => []InternalClaimsWithinEscrow
<1>1. Init => InternalClaimsWithinEscrow
  BY DEF Init, EscrowInit, InternalClaimsWithinEscrow, Paid, Held, Settled
<1> QED
  BY <1>1, TypeInvCorrect, ClaimsStep, PTL DEF Spec

-----------------------------------------------------------------------------
(* What was drawn from the pledges.                                        *)

\* What a vendor was paid for an event.
PaidVendor(t, v) == Total(AmountsOf(OfVendor(Approved(t), v)))

\* The invoices that are APPROVED have whole amounts.
LEMMA ApprovedAmounts ==
  ASSUME TypeInv, NEW t
  PROVE  /\ Approved(t) \subseteq Payouts
         /\ \A p \in Approved(t) : invoice[p].amount \in Nat
         /\ \A v : PaidVendor(t, v) \in Nat
<1>1. Approved(t) \subseteq Payouts /\ \A p \in Approved(t) : invoice[p].amount \in Nat
  BY FiledInvoice DEF Approved, FiledFor
<1>2. ASSUME NEW v PROVE PaidVendor(t, v) \in Nat
  <2>1. \A p \in Payouts : p \in OfVendor(Approved(t), v) => invoice[p].amount \in Nat
    BY <1>1 DEF OfVendor
  <2> QED
    BY <2>1, ClaimsType, AmountsAreClaims DEF PaidVendor
<1> QED
  BY <1>1, <1>2

\* Paying the invoices in S adds what they claim to what each vendor was paid.
LEMMA PaySetVendor ==
  ASSUME TypeInv, NEW t, NEW S, PaySet(t, S), NEW x \in Txs, NEW v
  PROVE  PaidVendor(x, v)'
           = PaidVendor(x, v) + (IF x = t THEN Total(AmountsOf(OfVendor(S, v))) ELSE 0)
<1>1. /\ Approved(t)' = Approved(t) \cup S /\ S \cap Approved(t) = {}
      /\ x # t => Approved(x)' = Approved(x)
      /\ S \subseteq Payouts /\ \A p \in S : invoice[p].amount \in Nat
  <2>1. S \subseteq Payouts /\ \A p \in S : p \in Payouts /\ payoutStatus[p] # "NONE"
    BY DEF PaySet, FiledFor
  <2>2. \A p \in S : invoice[p].amount \in Nat
    BY <2>1, FiledInvoice
  <2> QED
    BY <2>1, <2>2, PaySetMoves
<1>2. invoice' = invoice
  BY DEF PaySet
<1> DEFINE A == OfVendor(Approved(x), v)
           B == OfVendor(S, v)
<1>3. OfVendor(Approved(x), v)' = IF x = t THEN A \cup B ELSE A
  BY <1>1, <1>2 DEF OfVendor
<1>4. /\ x = t => A \cap B = {}
      /\ \A p \in Payouts : p \in A \cup B => invoice[p].amount \in Nat
  BY <1>1, ApprovedAmounts DEF OfVendor
<1>5. /\ PaidVendor(x, v) = Total(Claims(A, invoice))
      /\ Total(AmountsOf(B)) = Total(Claims(B, invoice))
      /\ PaidVendor(x, v)' = Total(Claims(OfVendor(Approved(x), v)', invoice))
  BY <1>2, AmountsAreClaims DEF PaidVendor
<1>6. PaidVendor(x, v) \in Nat
  BY ApprovedAmounts
<1> HIDE DEF A, B
<1>7. x = t => Total(Claims(A \cup B, invoice)) = Total(Claims(A, invoice)) + Total(Claims(B, invoice))
  BY <1>4, ClaimsAdd
<1> QED
  BY <1>3, <1>5, <1>6, <1>7 DEF B

LEMMA DrawnStep ==
  TypeInv /\ PledgesDrawnDown /\ [Next]_vars => PledgesDrawnDown'
<1> SUFFICES ASSUME TypeInv, PledgesDrawnDown, [Next]_vars
             PROVE  PledgesDrawnDown'
  OBVIOUS
<1>0. \A x \in Txs, v \in Vendors :
        drawn[x, v] = IF pledged[x, v] > 0 THEN PaidVendor(x, v) ELSE 0
  BY DEF PledgesDrawnDown, PaidVendor
<1>1. ASSUME \A x \in Txs, v \in Vendors :
               drawn'[x, v] = IF pledged'[x, v] > 0 THEN PaidVendor(x, v)' ELSE 0
      PROVE  PledgesDrawnDown'
  BY <1>1 DEF PledgesDrawnDown, PaidVendor
<1>2. ASSUME UNCHANGED invoice, \A x : Approved(x)' = Approved(x)
      PROVE  \A x, v : PaidVendor(x, v)' = PaidVendor(x, v)
  BY <1>2 DEF PaidVendor, OfVendor, AmountsOf, Total, Coins, Purse
<1>3. ASSUME UNCHANGED <<invoice, pledged, drawn>>, \A x : Approved(x)' = Approved(x)
      PROVE  PledgesDrawnDown'
  BY <1>0, <1>1, <1>2, <1>3
<1>4. ASSUME NEW t \in Txs, Create(t)
      PROVE  PledgesDrawnDown'
  <2>1. /\ status[t] = "NONE" /\ UNCHANGED <<drawn, invoice, payoutStatus>>
        /\ \A x \in Txs, v \in Vendors : x # t => pledged'[x, v] = pledged[x, v]
    BY <1>4 DEF Create, LockFundsEvents, CreateTransaction, Pledges
  <2>2. \A x \in Txs, v \in Vendors : PaidVendor(x, v)' = PaidVendor(x, v)
    BY <1>2, <2>1, SameInvoices
  <2>3. \A v \in Vendors : PaidVendor(t, v) = 0
    <3>1. ~Paid(t)
      BY <2>1 DEF Paid, Held, Settled
    <3>2. \A v : \A p \in Payouts : p \notin OfVendor(Approved(t), v)
      BY <3>1, UnpaidUnfiled DEF OfVendor, Approved
    <3> QED
      BY <3>2, ClaimsNone, AmountsAreClaims DEF PaidVendor
  <2>4. \A v \in Vendors : drawn[t, v] = 0
    BY <1>0, <2>3
  <2>5. \A x \in Txs, v \in Vendors :
          drawn'[x, v] = IF pledged'[x, v] > 0 THEN PaidVendor(x, v)' ELSE 0
    <3> SUFFICES ASSUME NEW x \in Txs, NEW v \in Vendors
                 PROVE  drawn'[x, v] = IF pledged'[x, v] > 0 THEN PaidVendor(x, v)' ELSE 0
      OBVIOUS
    <3>1. CASE x = t
      BY <2>1, <2>2, <2>3, <2>4, <3>1
    <3>2. CASE x # t
      BY <1>0, <2>1, <2>2, <3>2
    <3> QED BY <3>1, <3>2
  <2> QED
    BY <1>1, <2>5
<1>5. ASSUME NEW t \in Txs, NEW p \in Payouts, NEW v \in Vendors \cup {External},
             NEW amount \in ClaimAmounts, SubmitEventVendorInvoice(p, t, v, amount)
      PROVE  PledgesDrawnDown'
  <2>1. /\ UNCHANGED <<pledged, drawn>> /\ \A x : Approved(x)' = Approved(x)
        /\ \A x : p \notin Approved(x)
        /\ \A q \in Payouts : q # p => invoice'[q] = invoice[q]
    BY <1>5, SubmitInvoices DEF Approved
  <2>2. ASSUME NEW x \in Txs, NEW u \in Vendors
        PROVE  PaidVendor(x, u)' = PaidVendor(x, u)
    <3> DEFINE A == OfVendor(Approved(x), u)
    <3>1. Approved(x) \subseteq Payouts
      BY ApprovedAmounts
    <3>2. OfVendor(Approved(x), u)' = A /\ p \notin A /\ A \subseteq Payouts
      BY <2>1, <3>1 DEF OfVendor
    <3> HIDE DEF A
    <3>3. Claims(A, invoice') = Claims(A, invoice)
      BY <2>1, <3>2, ClaimsSame
    <3>4. /\ PaidVendor(x, u) = Total(Claims(A, invoice))
          /\ PaidVendor(x, u)' = Total(Claims(OfVendor(Approved(x), u)', invoice'))
      BY AmountsAreClaims DEF PaidVendor, A
    <3> QED
      BY <3>2, <3>3, <3>4
  <2> QED
    BY <1>0, <1>1, <2>1, <2>2
<1>6. ASSUME NEW t, NEW S, PaySet(t, S)
      PROVE  PledgesDrawnDown'
  <2>1. pledged' = pledged
        /\ drawn' = [k \in Pledges |-> IF k[1] = t /\ pledged[k] > 0
                       THEN drawn[k] + Total(AmountsOf(OfVendor(S, k[2]))) ELSE drawn[k]]
    BY <1>6 DEF PaySet, DrawDown
  <2> SUFFICES ASSUME NEW x \in Txs, NEW v \in Vendors
               PROVE  drawn'[x, v] = IF pledged'[x, v] > 0 THEN PaidVendor(x, v)' ELSE 0
    BY <1>1
  <2>2. drawn'[x, v] = IF x = t /\ pledged[x, v] > 0
                         THEN drawn[x, v] + Total(AmountsOf(OfVendor(S, v))) ELSE drawn[x, v]
    BY <2>1 DEF Pledges
  <2>3. PaidVendor(x, v)'
          = PaidVendor(x, v) + (IF x = t THEN Total(AmountsOf(OfVendor(S, v))) ELSE 0)
    BY <1>6, PaySetVendor
  <2>4. PaidVendor(x, v) \in Nat
    BY ApprovedAmounts
  <2>5. drawn[x, v] = IF pledged[x, v] > 0 THEN PaidVendor(x, v) ELSE 0
    BY <1>0
  <2>6. CASE x = t
    <3>1. PaidVendor(x, v)' = PaidVendor(x, v) + Total(AmountsOf(OfVendor(S, v)))
      BY <2>3, <2>6
    <3> QED
      BY <2>1, <2>2, <2>5, <2>6, <3>1
  <2>7. CASE x # t
    <3>1. PaidVendor(x, v)' = PaidVendor(x, v)
      BY <2>3, <2>4, <2>7
    <3> QED
      BY <2>1, <2>2, <2>5, <2>7, <3>1
  <2> QED
    BY <2>6, <2>7
<1>7. ASSUME NEW c \in Callers, CommitProcess(c)
      PROVE  PledgesDrawnDown'
  <2> PICK t, open : /\ t = call[c].job
                     /\ open = {p \in FiledFor(t) : payoutStatus[p] # "APPROVED"}
    OBVIOUS
  <2> QED
    BY <1>6, <1>7, ProcessPays
<1>8. ASSUME NEW c \in Callers, Quiet(c)
      PROVE  PledgesDrawnDown'
  BY <1>3, <1>8, QuietInvoices DEF Quiet
<1>9. CASE UNCHANGED <<invoice, payoutStatus, pledged, drawn>>
  BY <1>3, <1>9, SameInvoices
<1>10. \/ UNCHANGED vars
       \/ \E u \in Users : (Freeze(u) \/ Unfreeze(u)) /\ UNCHANGED eventsVars
       \/ \E t \in Txs : DealStep(t, 0) /\ UNCHANGED eventsVars
       => UNCHANGED <<invoice, payoutStatus, pledged, drawn>>
  BY DEF vars, eventsVars
<1>11. ASSUME NEW c \in Callers, CommitGoods(c)
       PROVE  PledgesDrawnDown'
  <2> PICK t : t = call[c].job
    OBVIOUS
  <2> QED
    BY <1>9, <1>11, GoodsGiven
<1> QED
  BY <1>4, <1>5, <1>6, <1>7, <1>8, <1>9, <1>10, <1>11, NextCases

\* What was drawn from a pledge is what its vendor was paid, by both ways.
THEOREM DrawnCorrect == Spec => []PledgesDrawnDown
<1>1. Init => PledgesDrawnDown
  <2> SUFFICES ASSUME Init PROVE PledgesDrawnDown
    OBVIOUS
  <2>1. ASSUME NEW t \in Txs, NEW v \in Vendors
        PROVE  drawn[t, v] = (IF pledged[t, v] > 0
                                THEN Total(AmountsOf(OfVendor(Approved(t), v))) ELSE 0)
    <3>1. <<t, v>> \in Pledges
      BY DEF Pledges
    <3>2. drawn[t, v] = 0 /\ pledged[t, v] = 0
      BY <3>1 DEF Init
    <3>3. ~(0 > 0)
      OBVIOUS
    <3> QED
      BY <3>2, <3>3, Zenon
  <2> QED
    BY <2>1 DEF PledgesDrawnDown
<1> QED
  BY <1>1, TypeInvCorrect, DrawnStep, PTL DEF Spec

-----------------------------------------------------------------------------
(* One payment of each invoice.                                            *)

\* The ledger rows of an event, counted.
RowsCounted ==
  \A t \in Txs :
    /\ rows[t].PAYMENT = (IF Paid(t) THEN 1 ELSE 0)
    /\ rows[t].RECEIVE_FUNDS = Cardinality(Approved(t))
                                 + (IF GivenToSeller(t) THEN 1 ELSE 0)
    /\ rows[t].REFUND = (IF status[t] = "REFUNDED" THEN 1 ELSE 0)

\* The paid invoices of an event can be counted.
LEMMA ApprovedFinite ==
  ASSUME NEW t
  PROVE  IsFiniteSet(Approved(t)) /\ Cardinality(Approved(t)) \in Nat
<1>1. Approved(t) \subseteq Payouts
  BY DEF Approved, FiledFor
<1> QED
  BY <1>1, VendorsAssumption, FS_Subset, FS_CardinalityType

\* The shared steps write one row with each movement of money.
LEMMA DealRows ==
  ASSUME TypeInv, DisputeMatchesStatus, RowsCounted, NEW t \in Txs, DealStep(t, 0),
         UNCHANGED eventsVars
  PROVE  RowsCounted'
<1> USE DEF RowsCounted, Paid, Held, Settled, GivenToSeller, PaidTo
<1>0. \A x \in Txs : Approved(x)' = Approved(x)
  BY SameInvoices DEF eventsVars
<1>1. /\ EscrowTypeOK /\ Cardinality(Approved(t)) \in Nat
      /\ dispute[t].status = "RESOLVED" => status[t] \in {"RELEASED", "REFUNDED"}
      /\ t \in asGoods => status[t] = "RELEASED"
      /\ UNCHANGED asGoods
  BY ApprovedFinite DEF TypeInv, TypeOK, DisputeMatchesStatus, eventsVars
<1>2. CASE ConfirmPayment(t)
  BY <1>0, <1>1, <1>2 DEF ConfirmPayment, UpdateBalance, SetStatus, EscrowTypeOK, LedgerTypes
<1>3. CASE CancelTransaction(t)
  BY <1>0, <1>1, <1>3 DEF CancelTransaction, SetStatus, EscrowTypeOK
<1>4. CASE \E u \in Users : OpenDispute(t, u)
  BY <1>0, <1>1, <1>4 DEF OpenDispute, SetStatus, SetDispute, EscrowTypeOK
<1>5. CASE AcknowledgeDispute(t)
  BY <1>0, <1>1, <1>5 DEF AcknowledgeDispute, SetDispute, EscrowTypeOK
<1>6. ASSUME NEW outcome \in Outcomes, ResolveDispute(t, outcome, 0)
      PROVE  RowsCounted'
  <2>1. /\ status[t] = "DISPUTED" /\ dispute[t].status = "UNDER_REVIEW"
        /\ dispute'[t] = [status |-> "RESOLVED", outcome |-> outcome]
        /\ \A x \in Txs : x # t => dispute'[x] = dispute[x]
    BY <1>1, <1>6 DEF ResolveDispute, SetDispute, EscrowTypeOK
  <2>2. dispute'[t].status = "RESOLVED" /\ dispute'[t].outcome = outcome
    BY <2>1
  <2>3. CASE outcome = "REFUND_BUYER" /\ RefundBuyer(t, 0)
    BY <1>0, <1>1, <2>1, <2>2, <2>3 DEF RefundBuyer, UpdateBalance, SetStatus, EscrowTypeOK,
       LedgerTypes
  <2>4. CASE outcome = "RELEASE_TO_SELLER" /\ PaySeller(t)
    BY <1>0, <1>1, <2>1, <2>2, <2>4 DEF PaySeller, UpdateBalance, SetStatus, EscrowTypeOK,
       LedgerTypes
  <2> QED
    BY <1>6, <2>3, <2>4 DEF ResolveDispute
<1> QED
  BY <1>2, <1>3, <1>4, <1>5, <1>6 DEF DealStep, DisputeStep

\* A paid set writes one row for every invoice in it.
LEMMA PaySetRows ==
  ASSUME TypeInv, RowsCounted, NEW t, NEW S, PaySet(t, S),
         \A x \in Txs : Paid(x)' <=> Paid(x),
         \A x \in Txs : status'[x] = "REFUNDED" <=> status[x] = "REFUNDED"
  PROVE  RowsCounted'
<1>1. /\ t \in Txs /\ IsFiniteSet(S) /\ Cardinality(S) \in Nat
      /\ Approved(t)' = Approved(t) \cup S /\ S \cap Approved(t) = {}
      /\ \A x \in Txs : x # t => Approved(x)' = Approved(x)
  BY PaySetColumns, PaySetMoves
<1>2. IsFiniteSet(Approved(t)) /\ Cardinality(Approved(t)) \in Nat
  BY ApprovedFinite
<1> DEFINE A == Approved(t)
           ANext == Approved(t)'
<1>3. Cardinality(ANext) = Cardinality(A) + Cardinality(S)
  <2>1. /\ ANext = A \cup S /\ A \cap S = {} /\ IsFiniteSet(A) /\ Cardinality(A) \in Nat
    BY <1>1, <1>2
  <2> HIDE DEF A, ANext
  <2>2. Cardinality(A \cup S) = Cardinality(A) + Cardinality(S) - Cardinality(A \cap S)
    BY <1>1, <2>1, FS_Union
  <2>3. Cardinality(A \cap S) = 0
    BY <2>1, FS_EmptySet
  <2>4. Cardinality(A \cup S) = Cardinality(A) + Cardinality(S)
    BY <1>1, <2>1, <2>2, <2>3
  <2> QED
    BY <2>1, <2>4
<1>4. /\ rows'[t].RECEIVE_FUNDS = rows[t].RECEIVE_FUNDS + Cardinality(S)
      /\ rows'[t].PAYMENT = rows[t].PAYMENT /\ rows'[t].REFUND = rows[t].REFUND
      /\ \A x \in Txs : x # t => rows'[x] = rows[x]
      /\ UNCHANGED dispute
  BY <1>1 DEF PaySet, CreditVendors, LedgerTypes, TypeInv, TypeOK, EscrowTypeOK
<1>5. \A x \in Txs : GivenToSeller(x)' <=> GivenToSeller(x)
  BY <1>4 DEF GivenToSeller, PaidTo, PaySet
<1>6. /\ rows[t].PAYMENT = (IF Paid(t) THEN 1 ELSE 0)
      /\ rows[t].RECEIVE_FUNDS = Cardinality(Approved(t))
                                 + (IF GivenToSeller(t) THEN 1 ELSE 0)
      /\ rows[t].REFUND = (IF status[t] = "REFUNDED" THEN 1 ELSE 0)
  BY <1>1 DEF RowsCounted
<1>7. /\ rows'[t].PAYMENT = (IF Paid(t)' THEN 1 ELSE 0)
      /\ rows'[t].REFUND = (IF status'[t] = "REFUNDED" THEN 1 ELSE 0)
  BY <1>1, <1>4, <1>6
<1>8. rows'[t].RECEIVE_FUNDS = Cardinality(ANext)
                                 + (IF GivenToSeller(t)' THEN 1 ELSE 0)
  <2> HIDE DEF ANext
  <2> QED
    BY <1>1, <1>2, <1>3, <1>4, <1>5, <1>6
<1>9. ASSUME NEW x \in Txs, x # t
      PROVE  /\ rows'[x].PAYMENT = (IF Paid(x)' THEN 1 ELSE 0)
             /\ rows'[x].RECEIVE_FUNDS = Cardinality(Approved(x)')
                                 + (IF GivenToSeller(x)' THEN 1 ELSE 0)
             /\ rows'[x].REFUND = (IF status'[x] = "REFUNDED" THEN 1 ELSE 0)
  BY <1>1, <1>4, <1>5, <1>9 DEF RowsCounted
<1> QED
  BY <1>7, <1>8, <1>9 DEF RowsCounted

\* Giving an event to its seller like goods writes one row.
LEMMA GoodsRows ==
  ASSUME TypeInv, DisputeMatchesStatus, RowsCounted, NEW c \in Callers, CommitGoods(c)
  PROVE  RowsCounted'
<1> PICK t : t = call[c].job
  OBVIOUS
<1>1. /\ t \in Txs /\ status[t] = "FUNDS_LOCKED" /\ t \notin asGoods
      /\ PaySeller(t) /\ asGoods' = asGoods \cup {t}
      /\ UNCHANGED <<dispute, invoice, payoutStatus>>
  BY GoodsGiven
<1>2. \A x \in Txs : Approved(x)' = Approved(x)
  BY <1>1, SameInvoices
<1>3. EscrowTypeOK /\ Cardinality(Approved(t)) \in Nat /\ dispute[t].status # "RESOLVED"
  BY <1>1, ApprovedFinite DEF TypeInv, TypeOK, DisputeMatchesStatus
<1> QED
  BY <1>1, <1>2, <1>3 DEF PaySeller, UpdateBalance, SetStatus, EscrowTypeOK, LedgerTypes,
     RowsCounted, Paid, Held, Settled, GivenToSeller, PaidTo

LEMMA RowsStep == TypeInv /\ DisputeMatchesStatus /\ RowsCounted /\ [Next]_vars => RowsCounted'
<1> SUFFICES ASSUME TypeInv, DisputeMatchesStatus, RowsCounted, [Next]_vars
             PROVE  RowsCounted'
  OBVIOUS
<1>1. ASSUME UNCHANGED <<status, dispute, rows, asGoods>>, \A x \in Txs : Approved(x)' = Approved(x)
      PROVE  RowsCounted'
  BY <1>1 DEF RowsCounted, Paid, Held, Settled, GivenToSeller, PaidTo
<1>2. ASSUME NEW t \in Txs, Create(t)
      PROVE  RowsCounted'
  BY <1>2, CreateSettles, SameInvoices DEF RowsCounted, Paid, Held, Settled, GivenToSeller, PaidTo
<1>3. ASSUME NEW t \in Txs, NEW p \in Payouts, NEW v \in Vendors \cup {External},
             NEW amount \in ClaimAmounts, SubmitEventVendorInvoice(p, t, v, amount)
      PROVE  RowsCounted'
  BY <1>1, <1>3, SubmitInvoices DEF database
<1>4. ASSUME NEW c \in Callers, CommitProcess(c)
      PROVE  RowsCounted'
  <2> PICK t \in Txs, S \in SUBSET Payouts :
           /\ status[t] = "FUNDS_LOCKED" /\ PaySet(t, S)
           /\ \A x \in Txs : x # t => status'[x] = status[x]
           /\ status'[t] = "RELEASED" \/ UNCHANGED status
    BY <1>4, ProcessSettles, Zenon
  <2>1. /\ \A x \in Txs : Paid(x)' <=> Paid(x)
        /\ \A x \in Txs : status'[x] = "REFUNDED" <=> status[x] = "REFUNDED"
    BY DEF Paid, Held, Settled
  <2> QED
    BY <2>1, PaySetRows
<1>5. ASSUME NEW t, NEW S, PaySet(t, S), UNCHANGED status
      PROVE  RowsCounted'
  <2>1. /\ \A x \in Txs : Paid(x)' <=> Paid(x)
        /\ \A x \in Txs : status'[x] = "REFUNDED" <=> status[x] = "REFUNDED"
    BY <1>5 DEF Paid, Held, Settled
  <2> QED
    BY <1>5, <2>1, PaySetRows
<1>6. ASSUME NEW c \in Callers, Quiet(c)
      PROVE  RowsCounted'
  BY <1>1, <1>6, QuietInvoices DEF Quiet, database
<1>7. CASE UNCHANGED <<status, dispute, rows, asGoods, invoice, payoutStatus>>
  BY <1>1, <1>7, SameInvoices
<1>8. \/ UNCHANGED vars
      \/ \E u \in Users : (Freeze(u) \/ Unfreeze(u)) /\ UNCHANGED eventsVars
      => UNCHANGED <<status, dispute, rows, asGoods, invoice, payoutStatus>>
  BY DEF vars, eventsVars, database, Freeze, Unfreeze
<1> QED
  BY <1>2, <1>3, <1>4, <1>5, <1>6, <1>7, <1>8, DealRows, GoodsRows, NextCases

LEMMA RowsCorrect == Spec => []RowsCounted
<1>1. Init => RowsCounted
  <2> SUFFICES ASSUME Init PROVE RowsCounted
    OBVIOUS
  <2>1. \A t \in Txs : Cardinality(Approved(t)) = 0
    <3>1. \A t \in Txs : Approved(t) = {}
      BY DEF Init, Approved, FiledFor
    <3> QED
      BY <3>1, FS_EmptySet
  <2> QED
    BY <2>1 DEF Init, EscrowInit, RowsCounted, Paid, Held, Settled, GivenToSeller, PaidTo, LedgerTypes
<1> QED
  BY <1>1, TypeInvCorrect, DisputeCorrect, RowsStep, PTL DEF Spec

\* The calls that have paid something of an event and not logged it yet.
CommittedTo(t) == {c \in Callers : call[c].stage = "committed" /\ EventOf(call[c].job) = t}
AdvancedFor(t) == advanced \cap FiledFor(t)
Settlement(t) == IF Processed(t) \/ t \in asGoods THEN 1 ELSE 0

\* What is logged of an event, or still to be logged, was paid: one invoice at
\* a time, or by settling the event or giving it to its seller like goods.
AuditsCounted ==
  \A t \in Txs :
    audits[t] + Cardinality(CommittedTo(t)) <= Cardinality(AdvancedFor(t)) + Settlement(t)

LEMMA SettlementKept ==
  ASSUME UNCHANGED asGoods, \A x \in Txs : Processed(x)' <=> Processed(x)
  PROVE  \A x \in Txs : Settlement(x)' = Settlement(x)
BY DEF Settlement

LEMMA AuditsFinite ==
  ASSUME NEW t
  PROVE  /\ IsFiniteSet(CommittedTo(t)) /\ Cardinality(CommittedTo(t)) \in Nat
         /\ IsFiniteSet(AdvancedFor(t)) /\ Cardinality(AdvancedFor(t)) \in Nat
         /\ Settlement(t) \in {0, 1}
<1>1. CommittedTo(t) \subseteq Callers /\ AdvancedFor(t) \subseteq Payouts
  BY DEF CommittedTo, AdvancedFor, FiledFor
<1> QED
  BY <1>1, VendorsAssumption, FS_Subset, FS_CardinalityType DEF Settlement

\* A set that gains at most one element, and one that loses an element.
LEMMA OneMoreAtMost ==
  ASSUME NEW S, IsFiniteSet(S), NEW c, NEW R, R \subseteq S \cup {c}
  PROVE  Cardinality(R) \in Nat /\ Cardinality(R) <= Cardinality(S) + 1
<1>1. /\ IsFiniteSet(S \cup {c})
      /\ Cardinality(S \cup {c}) = IF c \in S THEN Cardinality(S) ELSE Cardinality(S) + 1
  BY FS_AddElement
<1>2. /\ IsFiniteSet(R) /\ Cardinality(R) <= Cardinality(S \cup {c})
  BY <1>1, FS_Subset
<1> QED
  BY <1>1, <1>2, FS_CardinalityType

LEMMA OneLess ==
  ASSUME NEW S, IsFiniteSet(S), NEW c \in S, NEW R, R \subseteq S \ {c}
  PROVE  Cardinality(R) \in Nat /\ Cardinality(R) + 1 <= Cardinality(S)
<1>1. /\ IsFiniteSet(S \ {c}) /\ Cardinality(S \ {c}) = Cardinality(S) - 1
  BY FS_RemoveElement
<1>2. IsFiniteSet(R) /\ Cardinality(R) <= Cardinality(S \ {c})
  BY <1>1, FS_Subset
<1> QED
  BY <1>1, <1>2, FS_CardinalityType

\* A step that logs nothing and commits nothing.
LEMMA AuditsKept ==
  ASSUME TypeInv, AuditsCounted, UNCHANGED audits,
         \A x \in Txs : CommittedTo(x)' \subseteq CommittedTo(x),
         \A x \in Txs : AdvancedFor(x)' = AdvancedFor(x),
         \A x \in Txs : Settlement(x)' = Settlement(x)
  PROVE  AuditsCounted'
<1> SUFFICES ASSUME NEW x \in Txs
             PROVE  audits'[x] + Cardinality(CommittedTo(x)')
                      <= Cardinality(AdvancedFor(x)') + Settlement(x)'
  BY DEF AuditsCounted
<1> DEFINE before == CommittedTo(x)
           after == CommittedTo(x)'
<1>1. IsFiniteSet(before) /\ after \subseteq before
  BY AuditsFinite
<1>2. audits[x] \in Nat /\ audits'[x] = audits[x]
  BY DEF TypeInv, TypeOK
<1>3. AdvancedFor(x)' = AdvancedFor(x) /\ Settlement(x)' = Settlement(x)
  OBVIOUS
<1>4. audits[x] + Cardinality(before) <= Cardinality(AdvancedFor(x)) + Settlement(x)
  BY DEF AuditsCounted
<1>5. Cardinality(AdvancedFor(x)) \in Nat /\ Settlement(x) \in Nat
  BY AuditsFinite
<1> HIDE DEF before, after
<1>6. /\ Cardinality(after) \in Nat /\ Cardinality(before) \in Nat
      /\ Cardinality(after) <= Cardinality(before)
  BY <1>1, FS_Subset, FS_CardinalityType
<1>7. audits'[x] + Cardinality(after) <= Cardinality(AdvancedFor(x)) + Settlement(x)
  BY <1>2, <1>4, <1>5, <1>6
<1> QED
  BY <1>3, <1>7 DEF after

\* A step that pays one thing of an event and leaves it to be logged.
LEMMA AuditsCommit ==
  ASSUME TypeInv, AuditsCounted, UNCHANGED audits, NEW t \in Txs, NEW c \in Callers,
         \A x \in Txs : CommittedTo(x)' \subseteq CommittedTo(x) \cup (IF x = t THEN {c} ELSE {}),
         \A x \in Txs : x # t => AdvancedFor(x)' = AdvancedFor(x),
         \A x \in Txs : x # t => Settlement(x)' = Settlement(x),
         Cardinality(AdvancedFor(t)') + Settlement(t)'
           = Cardinality(AdvancedFor(t)) + Settlement(t) + 1
  PROVE  AuditsCounted'
<1> SUFFICES ASSUME NEW x \in Txs
             PROVE  audits'[x] + Cardinality(CommittedTo(x)')
                      <= Cardinality(AdvancedFor(x)') + Settlement(x)'
  BY DEF AuditsCounted
<1> DEFINE before == CommittedTo(x)
           after == CommittedTo(x)'
           paid == Cardinality(AdvancedFor(x)) + Settlement(x)
           paidNext == Cardinality(AdvancedFor(x)') + Settlement(x)'
<1>1. IsFiniteSet(before) /\ Cardinality(before) \in Nat
  BY AuditsFinite
<1>2. audits[x] \in Nat /\ audits'[x] = audits[x]
  BY DEF TypeInv, TypeOK
<1>3. audits[x] + Cardinality(before) <= paid
  BY DEF AuditsCounted
<1>4. paid \in Nat
  BY AuditsFinite
<1>5. CASE x = t
  <2>1. paidNext = paid + 1
    BY <1>5
  <2>2. after \subseteq before \cup {c}
    BY <1>5
  <2> HIDE DEF before, after, paid, paidNext
  <2>3. Cardinality(after) \in Nat /\ Cardinality(after) <= Cardinality(before) + 1
    BY <1>1, <2>2, OneMoreAtMost
  <2>4. audits'[x] + Cardinality(after) <= paidNext
    BY <1>1, <1>2, <1>3, <1>4, <2>1, <2>3
  <2> QED
    BY <2>4 DEF after, paidNext
<1>6. CASE x # t
  <2>1. paidNext = paid
    BY <1>6
  <2>2. after \subseteq before
    BY <1>6
  <2> HIDE DEF before, after, paid, paidNext
  <2>3. Cardinality(after) \in Nat /\ Cardinality(after) <= Cardinality(before)
    BY <1>1, <2>2, FS_Subset, FS_CardinalityType
  <2>4. audits'[x] + Cardinality(after) <= paidNext
    BY <1>1, <1>2, <1>3, <1>4, <2>1, <2>3
  <2> QED
    BY <2>4 DEF after, paidNext
<1> QED
  BY <1>5, <1>6

\* Logging what a call has paid.
LEMMA AuditsLog ==
  ASSUME TypeInv, AuditsCounted, NEW c \in Callers, StartAudit(c)
  PROVE  AuditsCounted'
<1> PICK t : t = EventOf(call[c].job)
  OBVIOUS
<1>1. /\ call[c].stage = "committed" /\ audits' = [audits EXCEPT ![t] = @ + 1] /\ EndCall(c)
      /\ UNCHANGED <<status, dispute, invoice, payoutStatus, advanced, asGoods>>
  BY DEF StartAudit, database
<1>2. /\ \A d \in Callers : d # c => call'[d] = call[d]
      /\ call'[c].stage = "idle"
  BY <1>1 DEF EndCall, Idle, TypeInv, TypeOK
<1>3. \A j : EventOf(j)' = EventOf(j)
  BY <1>1 DEF EventOf
<1>4. \A x \in Txs : /\ CommittedTo(x)' \subseteq CommittedTo(x) \ {c}
                     /\ c \in CommittedTo(x) <=> x = t
  BY <1>1, <1>2, <1>3 DEF CommittedTo
<1>5. \A x \in Txs : AdvancedFor(x)' = AdvancedFor(x) /\ Settlement(x)' = Settlement(x)
  BY <1>1, SameInvoices DEF AdvancedFor, Settlement, Processed
<1> SUFFICES ASSUME NEW x \in Txs
             PROVE  audits'[x] + Cardinality(CommittedTo(x)')
                      <= Cardinality(AdvancedFor(x)') + Settlement(x)'
  BY DEF AuditsCounted
<1> DEFINE before == CommittedTo(x)
           after == CommittedTo(x)'
           paid == Cardinality(AdvancedFor(x)) + Settlement(x)
<1>6. IsFiniteSet(before) /\ Cardinality(before) \in Nat /\ paid \in Nat
  BY AuditsFinite
<1>7. audits[x] \in Nat /\ audits'[x] = IF x = t THEN audits[x] + 1 ELSE audits[x]
  BY <1>1 DEF TypeInv, TypeOK
<1>8. audits[x] + Cardinality(before) <= paid
  BY DEF AuditsCounted
<1>9. after \subseteq before \ {c} /\ (c \in before <=> x = t)
  BY <1>4
<1> HIDE DEF before, after, paid
<1>10. CASE x = t
  <2>1. Cardinality(after) \in Nat /\ Cardinality(after) + 1 <= Cardinality(before)
    BY <1>6, <1>9, <1>10, OneLess
  <2> QED
    BY <1>5, <1>6, <1>7, <1>8, <1>10, <2>1 DEF after, paid
<1>11. CASE x # t
  <2>1. Cardinality(after) \in Nat /\ Cardinality(after) <= Cardinality(before)
    <3>1. after \subseteq before
      BY <1>9
    <3> QED
      BY <1>6, <3>1, FS_Subset, FS_CardinalityType
  <2> QED
    BY <1>5, <1>6, <1>7, <1>8, <1>11, <2>1 DEF after, paid
<1> QED
  BY <1>10, <1>11

\* A call that commits joins those of its event, and no other does.
LEMMA CommittedJoins ==
  ASSUME TypeInv, NEW c \in Callers, NEW j, SetCall(c, "committed", j), UNCHANGED invoice,
         NEW t, t = EventOf(j)
  PROVE  \A x \in Txs : CommittedTo(x)' \subseteq CommittedTo(x) \cup (IF x = t THEN {c} ELSE {})
<1>1. /\ \A d \in Callers : d # c => call'[d] = call[d]
      /\ call'[c].job = j
  BY DEF SetCall, TypeInv, TypeOK
<1>2. \A k : EventOf(k)' = EventOf(k)
  BY DEF EventOf
<1> QED
  BY <1>1, <1>2 DEF CommittedTo

\* A call that ends, or works on without committing, leaves them.
LEMMA CommittedLeaves ==
  ASSUME TypeInv, NEW c \in Callers, call' = [call EXCEPT ![c] = call'[c]],
         call'[c].stage # "committed", UNCHANGED invoice
  PROVE  \A x \in Txs : CommittedTo(x)' \subseteq CommittedTo(x)
<1>1. \A d \in Callers : d # c => call'[d] = call[d]
  BY DEF TypeInv, TypeOK
<1>2. \A k : EventOf(k)' = EventOf(k)
  BY DEF EventOf
<1> QED
  BY <1>1, <1>2 DEF CommittedTo

LEMMA AuditsStep ==
  TypeInv /\ DisputeMatchesStatus /\ AuditsCounted /\ [Next]_vars => AuditsCounted'
<1> SUFFICES ASSUME TypeInv, DisputeMatchesStatus, AuditsCounted, [Next]_vars
             PROVE  AuditsCounted'
  OBVIOUS
<1>1. ASSUME UNCHANGED <<invoice, payoutStatus, advanced, asGoods, call, audits>>,
             \A x \in Txs : Processed(x)' <=> Processed(x)
      PROVE  AuditsCounted'
  <2>1. \A x \in Txs : CommittedTo(x)' = CommittedTo(x) /\ AdvancedFor(x)' = AdvancedFor(x)
    BY <1>1, SameInvoices DEF CommittedTo, EventOf, AdvancedFor
  <2> QED
    BY <1>1, <2>1, SettlementKept, AuditsKept
<1>2. ASSUME NEW t \in Txs, Create(t)
      PROVE  AuditsCounted'
  BY <1>1, <1>2, CreateSettles
<1>3. ASSUME NEW t \in Txs, DealStep(t, 0), UNCHANGED eventsVars
      PROVE  AuditsCounted'
  BY <1>1, <1>3, DealSettles DEF eventsVars
<1>4. ASSUME NEW t \in Txs, NEW p \in Payouts, NEW v \in Vendors \cup {External},
             NEW amount \in ClaimAmounts, SubmitEventVendorInvoice(p, t, v, amount)
      PROVE  AuditsCounted'
  <2>1. /\ p \notin advanced
        /\ FiledFor(t)' = FiledFor(t) \cup {p}
        /\ \A x : x # t => FiledFor(x)' = FiledFor(x)
        /\ \A x \in Payouts : x # p => invoice'[x] = invoice[x]
        /\ UNCHANGED <<status, dispute, advanced, asGoods, call, audits>>
    BY <1>4, SubmitInvoices DEF database
  <2>2. \A x \in Txs : AdvancedFor(x)' = AdvancedFor(x)
    BY <2>1 DEF AdvancedFor
  <2>3. \A d \in Callers : call[d].stage = "committed"
          => EventOf(call[d].job)' = EventOf(call[d].job)
    <3> SUFFICES ASSUME NEW d \in Callers, call[d].stage = "committed"
                 PROVE  EventOf(call[d].job)' = EventOf(call[d].job)
      OBVIOUS
    <3>1. call'[d].job = call[d].job
      BY <2>1
    <3>2. call[d].job \in Txs \/ (call[d].job \in Payouts /\ call[d].job # p)
      BY <2>1 DEF TypeInv, JobsFiled
    <3> QED
      BY <2>1, <3>1, <3>2 DEF EventOf
  <2>4. \A x \in Txs : CommittedTo(x)' \subseteq CommittedTo(x)
    BY <2>1, <2>3 DEF CommittedTo
  <2>5. \A x \in Txs : Processed(x)' <=> Processed(x)
    BY <2>1 DEF Processed
  <2> QED
    BY <2>1, <2>2, <2>4, <2>5, SettlementKept, AuditsKept
<1>5. ASSUME NEW c \in Callers, CommitProcess(c)
      PROVE  AuditsCounted'
  <2> PICK t \in Txs, S \in SUBSET Payouts :
           /\ status[t] = "FUNDS_LOCKED" /\ ~Processed(t) /\ PaySet(t, S)
           /\ UNCHANGED <<advanced, asGoods, audits, dispute>>
           /\ \A x \in Txs : x # t => (Processed(x)' <=> Processed(x))
           /\ \/ SetCall(c, "committed", t) /\ Processed(t)'
              \/ UNCHANGED status /\ EndCall(c)
    BY <1>5, ProcessSettles, Zenon
  <2>1. UNCHANGED invoice /\ \A x \in Txs : AdvancedFor(x)' = AdvancedFor(x)
    BY PaySetMoves DEF AdvancedFor, PaySet
  <2>2. CASE SetCall(c, "committed", t) /\ Processed(t)'
    <3>1. EventOf(t) = t
      BY DEF EventOf
    <3>2. \A x \in Txs : CommittedTo(x)' \subseteq CommittedTo(x) \cup (IF x = t THEN {c} ELSE {})
      BY <2>1, <2>2, <3>1, CommittedJoins
    <3>3. Settlement(t)' = 1 /\ Settlement(t) = 0
      BY <2>2 DEF Settlement, TypeInv, TypeOK
    <3>5. \A x \in Txs : x # t => Settlement(x)' = Settlement(x)
      BY DEF Settlement
    <3>4. Cardinality(AdvancedFor(t)') + Settlement(t)'
            = Cardinality(AdvancedFor(t)) + Settlement(t) + 1
      BY <2>1, <3>3, AuditsFinite
    <3> QED
      BY <2>1, <3>2, <3>4, <3>5, AuditsCommit
  <2>3. CASE UNCHANGED status /\ EndCall(c)
    <3>1. call' = [call EXCEPT ![c] = call'[c]] /\ call'[c].stage # "committed"
      BY <2>3 DEF EndCall, Idle, TypeInv, TypeOK
    <3>2. \A x \in Txs : Processed(x)' <=> Processed(x)
      BY <2>3 DEF Processed
    <3> QED
      BY <2>1, <3>1, <3>2, CommittedLeaves, SettlementKept, AuditsKept
  <2> QED
    BY <2>2, <2>3
<1>6. ASSUME NEW c \in Callers, NEW p \in Payouts, NEW t \in Txs, PaySet(t, {p}),
             invoice[p].tx = t, advanced' = advanced \cup {p}, SetCall(c, "committed", p),
             UNCHANGED <<status, audits>>
      PROVE  AuditsCounted'
  <2>1. UNCHANGED <<invoice, dispute, asGoods>> /\ p \in FiledFor(t) /\ p \notin advanced
    BY <1>6 DEF PaySet, TypeInv, TypeOK
  <2>2. EventOf(p) = t
    BY <1>6, VendorsAssumption DEF EventOf
  <2>3. \A x \in Txs : CommittedTo(x)' \subseteq CommittedTo(x) \cup (IF x = t THEN {c} ELSE {})
    BY <1>6, <2>1, <2>2, CommittedJoins
  <2>4. \A x \in Txs : FiledFor(x)' = FiledFor(x)
    BY <1>6, PaySetMoves
  <2>5. /\ AdvancedFor(t)' = AdvancedFor(t) \cup {p} /\ p \notin AdvancedFor(t)
        /\ \A x \in Txs : x # t => AdvancedFor(x)' = AdvancedFor(x)
    BY <1>6, <2>1, <2>4 DEF AdvancedFor, FiledFor
  <2>6. \A x \in Txs : Processed(x)' <=> Processed(x)
    BY <1>6, <2>1 DEF Processed
  <2>7. \A x \in Txs : Settlement(x)' = Settlement(x)
    BY <2>1, <2>6, SettlementKept
  <2>8. Cardinality(AdvancedFor(t) \cup {p}) = Cardinality(AdvancedFor(t)) + 1
    BY <2>5, AuditsFinite, FS_AddElement
  <2>9. Cardinality(AdvancedFor(t)') + Settlement(t)'
          = Cardinality(AdvancedFor(t)) + Settlement(t) + 1
    BY <2>5, <2>7, <2>8, AuditsFinite
  <2> QED
    BY <1>6, <2>3, <2>5, <2>7, <2>9, AuditsCommit
<1>7. ASSUME NEW c \in Callers, Quiet(c)
      PROVE  AuditsCounted'
  <2>1. CASE StartAudit(c)
    BY <2>1, AuditsLog
  <2>2. CASE UNCHANGED audits
    <3>1. /\ call' = [call EXCEPT ![c] = call'[c]] /\ call'[c].stage # "committed"
          /\ UNCHANGED <<invoice, advanced, asGoods, status, dispute>>
      BY <1>7 DEF Quiet, database
    <3>2. \A x \in Txs : AdvancedFor(x)' = AdvancedFor(x) /\ (Processed(x)' <=> Processed(x))
      BY <1>7, <3>1, QuietInvoices DEF AdvancedFor, Processed
    <3> QED
      BY <2>2, <3>1, <3>2, CommittedLeaves, SettlementKept, AuditsKept
  <2> QED
    BY <1>7, <2>1, <2>2 DEF Quiet
<1>8. CASE UNCHANGED <<status, dispute, invoice, payoutStatus, advanced, asGoods, call, audits>>
  BY <1>1, <1>8 DEF Processed
<1>9. \/ UNCHANGED vars
      \/ \E u \in Users : (Freeze(u) \/ Unfreeze(u)) /\ UNCHANGED eventsVars
      => UNCHANGED <<status, dispute, invoice, payoutStatus, advanced, asGoods, call, audits>>
  BY DEF vars, eventsVars, database, Freeze, Unfreeze
<1>10. ASSUME NEW c \in Callers, CommitGoods(c)
       PROVE  AuditsCounted'
  <2> PICK t : t = call[c].job
    OBVIOUS
  <2>1. /\ t \in Txs /\ status[t] = "FUNDS_LOCKED" /\ t \notin asGoods
        /\ asGoods' = asGoods \cup {t} /\ SetCall(c, "committed", t)
        /\ UNCHANGED <<invoice, payoutStatus, advanced, audits>>
    BY <1>10, GoodsGiven
  <2>2. EventOf(t) = t
    BY <2>1 DEF EventOf
  <2>3. \A x \in Txs : CommittedTo(x)' \subseteq CommittedTo(x) \cup (IF x = t THEN {c} ELSE {})
    BY <2>1, <2>2, CommittedJoins
  <2>4. \A x \in Txs : AdvancedFor(x)' = AdvancedFor(x)
    BY <2>1, SameInvoices DEF AdvancedFor
  <2>5. \A x \in Txs : x # t => Settlement(x)' = Settlement(x)
    BY <1>10, <2>1, GoodsSettles DEF Settlement
  <2>6. Settlement(t) = 0 /\ Settlement(t)' = 1
    BY <2>1 DEF Settlement, Processed
  <2>7. Cardinality(AdvancedFor(t)') + Settlement(t)'
          = Cardinality(AdvancedFor(t)) + Settlement(t) + 1
    BY <2>1, <2>4, <2>6, AuditsFinite
  <2> QED
    BY <2>1, <2>3, <2>4, <2>5, <2>7, AuditsCommit
<1> QED
  BY <1>2, <1>3, <1>4, <1>5, <1>6, <1>7, <1>8, <1>9, <1>10, NextCases

LEMMA AuditsCorrect == Spec => []AuditsCounted
<1>1. Init => AuditsCounted
  <2> SUFFICES ASSUME Init, NEW t \in Txs
               PROVE  audits[t] + Cardinality(CommittedTo(t))
                        <= Cardinality(AdvancedFor(t)) + Settlement(t)
    BY DEF AuditsCounted
  <2>1. CommittedTo(t) = {} /\ audits[t] = 0
    BY DEF Init, CommittedTo, Idle
  <2>2. Cardinality(CommittedTo(t)) = 0
    BY <2>1, FS_EmptySet
  <2> QED
    BY <2>1, <2>2, AuditsFinite
<1> QED
  BY <1>1, TypeInvCorrect, DisputeCorrect, AuditsStep, PTL DEF Spec

\* However many clients pay the invoices of an event in the two ways, and
\* release it like goods, at the same time, each invoice is credited once, the
\* seller is given the budget at most once, every movement of money has its
\* row, and nothing is logged that was not paid.
THEOREM PayoutOnceCorrect == Spec => []EachPayoutOnce
<1>1. RowsCounted /\ AuditsCounted => EachPayoutOnce
  <2> SUFFICES ASSUME RowsCounted, AuditsCounted
               PROVE  EachPayoutOnce
    OBVIOUS
  <2>1. \A t \in Txs :
          audits[t] + Cardinality({c \in Callers : call[c].stage = "committed"
                                                     /\ EventOf(call[c].job) = t})
            <= Cardinality(advanced \cap FiledFor(t))
                 + (IF Processed(t) \/ t \in asGoods THEN 1 ELSE 0)
    BY DEF AuditsCounted, CommittedTo, AdvancedFor, Settlement
  <2> QED
    BY <2>1 DEF EachPayoutOnce, RowsCounted
<1> QED
  BY <1>1, RowsCorrect, AuditsCorrect, PTL

-----------------------------------------------------------------------------
(* The books.                                                              *)

\* What the books add up, event by event.
PaidIn == [t \in Txs |-> IF Paid(t) THEN terms[t].gross ELSE 0]
Earned == [t \in Txs |-> IF Processed(t) THEN EventPlatformFee(terms[t].gross) ELSE 0]

\* What was paid one invoice at a time, and what a member received in all.
Advances == Total(AmountsOf(advanced))
Receipts(u) == Total(AmountsOf(ApprovedOf(u)))

SumsTyped ==
  /\ PaidIn \in [Txs -> Nat] /\ EventOut \in [Txs -> Nat] /\ Earned \in [Txs -> Nat]
  /\ Advances \in Nat
  /\ \A u \in Users : /\ Debits(u) \in [Txs -> Nat] /\ Settlements(u) \in [Txs -> Nat]
                      /\ Receipts(u) \in Nat
                      /\ balance[u] \in Nat /\ InitialBalance[u] \in Nat
  /\ finance.escrow \in Int /\ finance.revenue \in Int

LEMMA SumsType == TypeInv /\ DisputeMatchesStatus => SumsTyped
<1> SUFFICES ASSUME TypeInv, DisputeMatchesStatus
             PROVE  SumsTyped
  OBVIOUS
<1>1. \A t \in Txs : status[t] # "NONE" => terms[t].gross \in Nat
  BY DEF TypeInv, TypeOK, EscrowTypeOK, Terms
<1>2. \A t \in Txs : Processed(t) \/ Settled(t) \/ Paid(t) => status[t] # "NONE"
  BY DEF Processed, Settled, Paid, Held
<1>3. \A t \in Txs : status[t] # "NONE" => EventPlatformFee(terms[t].gross) \in Nat
  BY <1>1, PlatformFeeBounds
<1>4. \A t : Total(AmountsOf(FiledFor(t))) \in Nat
  <2> SUFFICES ASSUME NEW t PROVE Total(AmountsOf(FiledFor(t))) \in Nat
    OBVIOUS
  <2>1. \A p \in Payouts : p \in FiledFor(t) => invoice[p].amount \in Nat
    BY FiledInvoice DEF FiledFor
  <2> QED
    BY <2>1, ClaimsType, AmountsAreClaims
<1>5. PaidIn \in [Txs -> Nat] /\ Earned \in [Txs -> Nat]
  BY <1>1, <1>2, <1>3 DEF PaidIn, Earned
<1>6. EventOut \in [Txs -> Nat]
  <2>1. \A t \in Txs : EventOut[t] \in Nat
    <3> SUFFICES ASSUME NEW t \in Txs PROVE EventOut[t] \in Nat
      OBVIOUS
    <3> PICK total, fee, gross : /\ total = Total(AmountsOf(FiledFor(t)))
                                 /\ gross = terms[t].gross
                                 /\ fee = EventPlatformFee(terms[t].gross)
      OBVIOUS
    <3>1. EventOut[t] = IF Processed(t) THEN total + fee ELSE IF Settled(t) THEN gross ELSE 0
      BY DEF EventOut
    <3>2. /\ Processed(t) => total \in Nat /\ fee \in Nat
          /\ Settled(t) => gross \in Nat
      BY <1>1, <1>2, <1>3, <1>4
    <3> QED
      BY <3>1, <3>2
  <2> QED
    BY <2>1 DEF EventOut
<1>7. Advances \in Nat
  <2>1. \A p \in Payouts : p \in advanced => invoice[p].amount \in Nat
    BY FiledInvoice DEF TypeInv, TypeOK
  <2> QED
    BY <2>1, ClaimsType, AmountsAreClaims DEF Advances
<1>8. ASSUME NEW u \in Users
      PROVE  Receipts(u) \in Nat
  <2>1. \A p \in Payouts : p \in ApprovedOf(u) => invoice[p].amount \in Nat
    BY FiledInvoice DEF ApprovedOf
  <2> QED
    BY <2>1, ClaimsType, AmountsAreClaims DEF Receipts
<1>9. \A t \in Txs : GivenToSeller(t) \/ (\E outcome : PaidTo(t, outcome))
                        => terms[t].gross \in Nat
  BY <1>1 DEF GivenToSeller, PaidTo, DisputeMatchesStatus, TypeInv, TypeOK
<1>10. ASSUME NEW u \in Users
      PROVE  Debits(u) \in [Txs -> Nat] /\ Settlements(u) \in [Txs -> Nat]
  BY <1>1, <1>2, <1>9 DEF Debits, Settlements
<1>11. \A u \in Users : balance[u] \in Nat /\ InitialBalance[u] \in Nat
  BY PartiesAssumption DEF TypeInv, TypeOK, EscrowTypeOK
<1>12. finance.escrow \in Int /\ finance.revenue \in Int
  BY DEF TypeInv, TypeOK, EscrowTypeOK
<1> QED
  BY <1>5, <1>6, <1>7, <1>8, <1>10, <1>11, <1>12 DEF SumsTyped

LEMMA SumsTypeNext == TypeInv' /\ DisputeMatchesStatus' => SumsTyped'
BY SumsType, PTL

\* Sums that differ in one event.
LEMMA EventSum ==
  ASSUME NEW t \in Txs, NEW f \in [Txs -> Nat], NEW g \in [Txs -> Nat],
         \A x \in Txs : x # t => g[x] = f[x]
  PROVE  /\ Total(f) \in Nat /\ Total(g) \in Nat /\ f[t] \in Nat /\ g[t] \in Nat
         /\ Total(g) = Total(f) - f[t] + g[t]
<1>1. IsFiniteSet(Txs)
  BY PartiesAssumption
<1> QED
  BY <1>1, TotalType, TotalChange

\* A step on one event keeps the books if what it does to escrow, to revenue
\* and to each wallet is what it does to the entries of the event, to the
\* advances and to the receipts of the members.
LEMMA EventBooks ==
  ASSUME SumsTyped, SumsTyped', BooksMatch, NEW t \in Txs,
         \A x \in Txs : x # t =>
           PaidIn'[x] = PaidIn[x] /\ EventOut'[x] = EventOut[x] /\ Earned'[x] = Earned[x],
         \A u \in Users : \A x \in Txs : x # t =>
           Debits(u)'[x] = Debits(u)[x] /\ Settlements(u)'[x] = Settlements(u)[x],
         finance'.escrow + PaidIn[t] + EventOut'[t] + Advances'
           = finance.escrow + PaidIn'[t] + EventOut[t] + Advances,
         finance'.revenue + Earned[t] = finance.revenue + Earned'[t],
         \A u \in Users :
           balance'[u] + Debits(u)'[t] + Settlements(u)[t] + Receipts(u)
             = balance[u] + Debits(u)[t] + Settlements(u)'[t] + Receipts(u)'
  PROVE  BooksMatch'
<1>1. EscrowMatches'
  <2> DEFINE in == PaidIn
             out == EventOut
             inNext == PaidIn'
             outNext == EventOut'
             advance == Advances
             advanceNext == Advances'
  <2>1. /\ in \in [Txs -> Nat] /\ out \in [Txs -> Nat] /\ advance \in Nat
        /\ inNext \in [Txs -> Nat] /\ outNext \in [Txs -> Nat] /\ advanceNext \in Nat
        /\ finance.escrow \in Int /\ finance'.escrow \in Int
    BY DEF SumsTyped
  <2>2. \A x \in Txs : x # t => inNext[x] = in[x] /\ outNext[x] = out[x]
    OBVIOUS
  <2>3. finance'.escrow + in[t] + outNext[t] + advanceNext
          = finance.escrow + inNext[t] + out[t] + advance
    OBVIOUS
  <2>4. finance.escrow = Total(in) - Total(out) - advance
    BY DEF BooksMatch, EscrowMatches, PaidIn, Advances
  <2> HIDE DEF in, out, inNext, outNext, advance, advanceNext
  <2>5. /\ Total(inNext) = Total(in) - in[t] + inNext[t]
        /\ Total(outNext) = Total(out) - out[t] + outNext[t]
        /\ Total(in) \in Nat /\ Total(out) \in Nat
        /\ in[t] \in Nat /\ out[t] \in Nat /\ inNext[t] \in Nat /\ outNext[t] \in Nat
    BY <2>1, <2>2, EventSum
  <2>6. finance'.escrow = Total(inNext) - Total(outNext) - advanceNext
    BY <2>1, <2>3, <2>4, <2>5
  <2> QED
    BY <2>6 DEF EscrowMatches, PaidIn, Advances, inNext, outNext, advanceNext
<1>2. RevenueMatches'
  <2> DEFINE earned == Earned
             earnedNext == Earned'
  <2>1. /\ earned \in [Txs -> Nat] /\ earnedNext \in [Txs -> Nat]
        /\ finance.revenue \in Int /\ finance'.revenue \in Int
    BY DEF SumsTyped
  <2>2. \A x \in Txs : x # t => earnedNext[x] = earned[x]
    OBVIOUS
  <2>3. finance'.revenue + earned[t] = finance.revenue + earnedNext[t]
    OBVIOUS
  <2>4. finance.revenue = Total(earned)
    BY DEF BooksMatch, RevenueMatches, Earned
  <2> HIDE DEF earned, earnedNext
  <2>5. /\ Total(earnedNext) = Total(earned) - earned[t] + earnedNext[t]
        /\ Total(earned) \in Nat /\ earned[t] \in Nat /\ earnedNext[t] \in Nat
    BY <2>1, <2>2, EventSum
  <2>6. finance'.revenue = Total(earnedNext)
    BY <2>1, <2>3, <2>4, <2>5
  <2> QED
    BY <2>6 DEF RevenueMatches, Earned, earnedNext
<1>3. ASSUME NEW u \in Users
      PROVE  balance'[u] + Total(Debits(u)')
               = InitialBalance[u] + Total(Settlements(u)') + Receipts(u)'
  <2> PICK d, s, r, b : d = Debits(u) /\ s = Settlements(u) /\ r = Receipts(u) /\ b = balance[u]
    OBVIOUS
  <2> PICK dNext, sNext, rNext, bNext :
           /\ dNext = Debits(u)' /\ sNext = Settlements(u)' /\ rNext = Receipts(u)'
           /\ bNext = balance'[u]
    OBVIOUS
  <2> PICK start : start = InitialBalance[u]
    OBVIOUS
  <2>1. /\ d \in [Txs -> Nat] /\ s \in [Txs -> Nat] /\ r \in Nat
        /\ dNext \in [Txs -> Nat] /\ sNext \in [Txs -> Nat] /\ rNext \in Nat
        /\ start \in Nat /\ b \in Nat /\ bNext \in Nat
    BY DEF SumsTyped
  <2>2. \A x \in Txs : x # t => dNext[x] = d[x] /\ sNext[x] = s[x]
    OBVIOUS
  <2>3. bNext + dNext[t] + s[t] + r = b + d[t] + sNext[t] + rNext
    OBVIOUS
  <2>4. b + Total(d) = start + Total(s) + r
    BY DEF BooksMatch, WalletsReconcile, Receipts
  <2>5. /\ Total(dNext) = Total(d) - d[t] + dNext[t]
        /\ Total(sNext) = Total(s) - s[t] + sNext[t]
        /\ Total(d) \in Nat /\ Total(s) \in Nat
        /\ d[t] \in Nat /\ s[t] \in Nat /\ dNext[t] \in Nat /\ sNext[t] \in Nat
    BY <2>1, <2>2, EventSum
  <2>6. bNext + Total(dNext) = start + Total(sNext) + rNext
    BY <2>1, <2>3, <2>4, <2>5
  <2> QED
    BY <2>6
<1> QED
  BY <1>1, <1>2, <1>3 DEF BooksMatch, WalletsReconcile, Receipts

\* The sums over invoices, before and after a step.
LEMMA SumsAreClaims ==
  /\ Advances = Total(Claims(advanced, invoice))
  /\ Advances' = Total(Claims(advanced', invoice'))
  /\ \A u : Receipts(u) = Total(Claims(ApprovedOf(u), invoice))
  /\ \A u : Receipts(u)' = Total(Claims(ApprovedOf(u)', invoice'))
BY AmountsAreClaims DEF Advances, Receipts

\* A step that leaves the invoices alone.
LEMMA InvoicesKeep ==
  ASSUME UNCHANGED <<invoice, payoutStatus, advanced>>
  PROVE  /\ Advances' = Advances /\ \A u : Receipts(u)' = Receipts(u)
         /\ \A x : AmountsOf(FiledFor(x))' = AmountsOf(FiledFor(x))
<1>1. \A u : ApprovedOf(u)' = ApprovedOf(u)
  BY DEF ApprovedOf
<1>2. \A x : AmountsOf(FiledFor(x))' = AmountsOf(FiledFor(x))
  BY SameInvoices, AmountsAreClaims
<1> QED
  BY <1>1, <1>2, SumsAreClaims

\* The events whose columns and invoices stay, keep their entries.
LEMMA OthersKeep ==
  ASSUME NEW x \in Txs, status'[x] = status[x], terms'[x] = terms[x], dispute'[x] = dispute[x],
         x \in asGoods' <=> x \in asGoods,
         AmountsOf(FiledFor(x))' = AmountsOf(FiledFor(x))
  PROVE  /\ PaidIn'[x] = PaidIn[x] /\ EventOut'[x] = EventOut[x] /\ Earned'[x] = Earned[x]
         /\ \A u \in Users : Debits(u)'[x] = Debits(u)[x] /\ Settlements(u)'[x] = Settlements(u)[x]
<1>1. /\ Paid(x)' <=> Paid(x)
      /\ Settled(x)' <=> Settled(x)
      /\ Processed(x)' <=> Processed(x)
      /\ \A o : PaidTo(x, o)' <=> PaidTo(x, o)
      /\ GivenToSeller(x)' <=> GivenToSeller(x)
  BY DEF Paid, Held, Settled, Processed, PaidTo, GivenToSeller
<1>2. Total(AmountsOf(FiledFor(x)))' = Total(AmountsOf(FiledFor(x)))
  BY AmountsAreClaims DEF Total, Coins, Purse
<1>3. EventOut'[x] = EventOut[x]
  BY <1>1, <1>2 DEF EventOut
<1>4. PaidIn'[x] = PaidIn[x] /\ Earned'[x] = Earned[x]
  BY <1>1 DEF PaidIn, Earned
<1>5. ASSUME NEW u \in Users
      PROVE  Debits(u)'[x] = Debits(u)[x] /\ Settlements(u)'[x] = Settlements(u)[x]
  BY <1>1 DEF Debits, Settlements
<1> QED
  BY <1>3, <1>4, <1>5

LEMMA SameEntries ==
  ASSUME NEW f \in [Txs -> Nat], NEW g \in [Txs -> Nat], \A x \in Txs : g[x] = f[x]
  PROVE  g = f
OBVIOUS

\* A step that leaves every event and invoice alone keeps the books.
LEMMA BooksKept ==
  ASSUME SumsTyped, SumsTyped', BooksMatch,
         UNCHANGED <<status, terms, dispute, asGoods, balance, finance>>,
         \A x \in Txs : AmountsOf(FiledFor(x))' = AmountsOf(FiledFor(x)),
         Advances' = Advances, \A u \in Users : Receipts(u)' = Receipts(u)
  PROVE  BooksMatch'
<1>1. \A x \in Txs :
        /\ PaidIn'[x] = PaidIn[x] /\ EventOut'[x] = EventOut[x] /\ Earned'[x] = Earned[x]
        /\ \A u \in Users : Debits(u)'[x] = Debits(u)[x] /\ Settlements(u)'[x] = Settlements(u)[x]
  BY OthersKeep
<1>2. /\ PaidIn' = PaidIn /\ EventOut' = EventOut /\ Earned' = Earned
      /\ \A u \in Users : Debits(u)' = Debits(u) /\ Settlements(u)' = Settlements(u)
  <2>1. PaidIn' = PaidIn /\ EventOut' = EventOut /\ Earned' = Earned
    BY <1>1, SameEntries DEF SumsTyped
  <2>2. ASSUME NEW u \in Users
        PROVE  Debits(u)' = Debits(u) /\ Settlements(u)' = Settlements(u)
    BY <1>1, SameEntries DEF SumsTyped
  <2> QED
    BY <2>1, <2>2
<1>3. EscrowMatches'
  <2>1. finance.escrow = Total(PaidIn) - Total(EventOut) - Advances
    BY DEF BooksMatch, EscrowMatches, PaidIn, Advances
  <2>2. finance'.escrow = Total(PaidIn') - Total(EventOut') - Advances'
    BY <1>2, <2>1
  <2> QED
    BY <2>2 DEF EscrowMatches, PaidIn, Advances
<1>4. RevenueMatches'
  <2>1. finance.revenue = Total(Earned)
    BY DEF BooksMatch, RevenueMatches, Earned
  <2>2. finance'.revenue = Total(Earned')
    BY <1>2, <2>1
  <2> QED
    BY <2>2 DEF RevenueMatches, Earned
<1>5. ASSUME NEW u \in Users
      PROVE  balance'[u] + Total(Debits(u)')
               = InitialBalance[u] + Total(Settlements(u)') + Receipts(u)'
  <2>1. balance[u] + Total(Debits(u)) = InitialBalance[u] + Total(Settlements(u)) + Receipts(u)
    BY DEF BooksMatch, WalletsReconcile, Receipts
  <2> QED
    BY <1>2, <2>1
<1> QED
  BY <1>3, <1>4, <1>5 DEF BooksMatch, WalletsReconcile, Receipts

\* The entries of an event that is not paid are empty; those of one whose money
\* is held are what the organizer paid.
EmptyEntries(t) ==
  /\ PaidIn[t] = 0 /\ EventOut[t] = 0 /\ Earned[t] = 0
  /\ \A u \in Users : Debits(u)[t] = 0 /\ Settlements(u)[t] = 0
OpenEntries(t) ==
  /\ PaidIn[t] = terms[t].gross /\ EventOut[t] = 0 /\ Earned[t] = 0
  /\ \A u \in Users : /\ Debits(u)[t] = IF terms[t].buyer = u THEN terms[t].gross ELSE 0
                      /\ Settlements(u)[t] = 0
EntriesFollow ==
  \A t \in Txs : (~Paid(t) => EmptyEntries(t)) /\ (Held(t) => OpenEntries(t))

\* What the books rest on, and what they say before and after a step.
BooksInv == TypeInv /\ DisputeMatchesStatus

LEMMA EntriesNow == BooksInv => EntriesFollow
<1> SUFFICES ASSUME BooksInv, NEW t \in Txs
             PROVE  (~Paid(t) => EmptyEntries(t)) /\ (Held(t) => OpenEntries(t))
  BY DEF EntriesFollow
<1>1. CASE ~Paid(t)
  <2>1. ~Processed(t) /\ ~Settled(t) /\ ~Held(t) /\ ~GivenToSeller(t) /\ \A o : ~PaidTo(t, o)
    BY <1>1 DEF BooksInv, TypeInv, TypeOK, DisputeMatchesStatus, Processed, GivenToSeller, PaidTo,
       Paid, Settled
  <2> QED
    BY <1>1, <2>1 DEF EmptyEntries, PaidIn, EventOut, Earned, Debits, Settlements
<1>2. CASE Held(t)
  <2>1. ~Processed(t) /\ ~Settled(t) /\ Paid(t) /\ ~GivenToSeller(t) /\ \A o : ~PaidTo(t, o)
    BY <1>2 DEF BooksInv, TypeInv, TypeOK, DisputeMatchesStatus, Processed, GivenToSeller, PaidTo,
       Paid, Held, Settled
  <2> QED
    BY <2>1 DEF OpenEntries, PaidIn, EventOut, Earned, Debits, Settlements
<1> QED
  BY <1>1, <1>2 DEF Paid

LEMMA EntriesNext == BooksInv' => EntriesFollow'
BY EntriesNow, PTL

LEMMA BooksInvStep == BooksInv /\ [Next]_vars => BooksInv'
BY TypeStep, DisputesStep DEF BooksInv

LEMMA BooksSides ==
  ASSUME BooksInv, BooksInv'
  PROVE  SumsTyped /\ SumsTyped' /\ EntriesFollow /\ EntriesFollow'
BY SumsType, SumsTypeNext, EntriesNow, EntriesNext DEF BooksInv

\* A step on one event that leaves the invoices alone.
LEMMA DealEntries ==
  ASSUME BooksInv, BooksInv', BooksMatch, NEW t \in Txs,
         UNCHANGED <<invoice, payoutStatus, advanced>>,
         \A x \in Txs : x # t =>
           /\ status'[x] = status[x] /\ terms'[x] = terms[x] /\ dispute'[x] = dispute[x]
           /\ x \in asGoods' <=> x \in asGoods,
         finance'.escrow + PaidIn[t] + EventOut'[t] = finance.escrow + PaidIn'[t] + EventOut[t],
         finance'.revenue + Earned[t] = finance.revenue + Earned'[t],
         \A u \in Users :
           balance'[u] + Debits(u)'[t] + Settlements(u)[t]
             = balance[u] + Debits(u)[t] + Settlements(u)'[t]
  PROVE  BooksMatch'
<1>1. SumsTyped /\ SumsTyped'
  BY BooksSides
<1>2. /\ Advances' = Advances /\ \A u : Receipts(u)' = Receipts(u)
      /\ \A x : AmountsOf(FiledFor(x))' = AmountsOf(FiledFor(x))
  BY InvoicesKeep
<1>3. \A x \in Txs : x # t =>
        /\ PaidIn'[x] = PaidIn[x] /\ EventOut'[x] = EventOut[x] /\ Earned'[x] = Earned[x]
        /\ \A u \in Users : Debits(u)'[x] = Debits(u)[x] /\ Settlements(u)'[x] = Settlements(u)[x]
  BY <1>2, OthersKeep
<1>4. finance'.escrow + PaidIn[t] + EventOut'[t] + Advances'
        = finance.escrow + PaidIn'[t] + EventOut[t] + Advances
  <2> PICK a, aNext : a = Advances /\ aNext = Advances'
    OBVIOUS
  <2> PICK e, in, out : e = finance.escrow /\ in = PaidIn[t] /\ out = EventOut[t]
    OBVIOUS
  <2> PICK eNext, inNext, outNext :
           eNext = finance'.escrow /\ inNext = PaidIn'[t] /\ outNext = EventOut'[t]
    OBVIOUS
  <2>1. /\ a \in Nat /\ aNext = a /\ e \in Int /\ in \in Nat /\ out \in Nat
        /\ eNext \in Int /\ inNext \in Nat /\ outNext \in Nat
        /\ eNext + in + outNext = e + inNext + out
    BY <1>1, <1>2 DEF SumsTyped
  <2>2. eNext + in + outNext + aNext = e + inNext + out + a
    BY <2>1
  <2> QED
    BY <2>2
<1>5. ASSUME NEW u \in Users
      PROVE  balance'[u] + Debits(u)'[t] + Settlements(u)[t] + Receipts(u)
               = balance[u] + Debits(u)[t] + Settlements(u)'[t] + Receipts(u)'
  <2> PICK r, rNext : r = Receipts(u) /\ rNext = Receipts(u)'
    OBVIOUS
  <2> PICK b, d, s : b = balance[u] /\ d = Debits(u)[t] /\ s = Settlements(u)[t]
    OBVIOUS
  <2> PICK bNext, dNext, sNext :
           bNext = balance'[u] /\ dNext = Debits(u)'[t] /\ sNext = Settlements(u)'[t]
    OBVIOUS
  <2>1. /\ r \in Nat /\ rNext = r /\ b \in Nat /\ d \in Nat /\ s \in Nat
        /\ bNext \in Nat /\ dNext \in Nat /\ sNext \in Nat
        /\ bNext + dNext + s = b + d + sNext
    BY <1>1, <1>2 DEF SumsTyped
  <2>2. bNext + dNext + s + r = b + d + sNext + rNext
    BY <2>1
  <2> QED
    BY <2>2
<1> QED
  BY <1>1, <1>3, <1>4, <1>5, EventBooks

\* A status that changes without money: an event not paid yet, or one whose
\* money stays where it is.
LEMMA StatusBooks ==
  ASSUME BooksInv, BooksInv', BooksMatch, NEW t \in Txs,
         UNCHANGED <<invoice, payoutStatus, advanced, asGoods, balance, finance>>,
         \A x \in Txs : x # t =>
           status'[x] = status[x] /\ terms'[x] = terms[x] /\ dispute'[x] = dispute[x],
         \/ ~Paid(t) /\ ~Paid(t)'
         \/ Held(t) /\ Held(t)' /\ terms'[t] = terms[t]
  PROVE  BooksMatch'
<1>1. SumsTyped /\ SumsTyped' /\ EntriesFollow /\ EntriesFollow'
  BY BooksSides
<1>2. \/ EmptyEntries(t) /\ EmptyEntries(t)'
      \/ OpenEntries(t) /\ OpenEntries(t)' /\ terms'[t] = terms[t]
  BY <1>1 DEF EntriesFollow
<1>3. /\ PaidIn'[t] = PaidIn[t] /\ EventOut'[t] = EventOut[t] /\ Earned'[t] = Earned[t]
      /\ \A u \in Users : Debits(u)'[t] = Debits(u)[t] /\ Settlements(u)'[t] = Settlements(u)[t]
  BY <1>2 DEF EmptyEntries, OpenEntries
<1> QED
  BY <1>3, DealEntries

\* The payment webhook moves the budget from the organizer into escrow.
LEMMA ConfirmBooks ==
  ASSUME BooksInv, BooksInv', BooksMatch, NEW t \in Txs, ConfirmPayment(t), UNCHANGED eventsVars
  PROVE  BooksMatch'
<1> PICK b, gross : b = terms[t].buyer /\ gross = terms[t].gross
  OBVIOUS
<1>1. /\ status[t] = "WAITING_PAYMENT" /\ status'[t] = "FUNDS_LOCKED"
      /\ \A x \in Txs : x # t => status'[x] = status[x]
      /\ UNCHANGED <<terms, dispute, invoice, payoutStatus, advanced, asGoods>>
  BY DEF ConfirmPayment, SetStatus, eventsVars, BooksInv, TypeInv, TypeOK, EscrowTypeOK
<1>2. b \in Users /\ gross \in Nat
  BY <1>1 DEF BooksInv, TypeInv, TypeOK, EscrowTypeOK, Terms
<1>3. /\ balance'[b] = balance[b] - gross
      /\ \A w \in Users : w # b => balance'[w] = balance[w]
      /\ finance'.escrow = finance.escrow + gross /\ finance'.revenue = finance.revenue + 0
  BY <1>2 DEF ConfirmPayment, UpdateBalance, UpdateFinance, BooksInv, TypeInv, TypeOK, EscrowTypeOK
<1>4. SumsTyped /\ SumsTyped' /\ EmptyEntries(t) /\ OpenEntries(t)'
  BY <1>1, BooksSides DEF EntriesFollow, Paid, Held, Settled
<1>5. /\ finance'.escrow + PaidIn[t] + EventOut'[t] = finance.escrow + PaidIn'[t] + EventOut[t]
      /\ finance'.revenue + Earned[t] = finance.revenue + Earned'[t]
  BY <1>1, <1>2, <1>3, <1>4 DEF EmptyEntries, OpenEntries, SumsTyped
<1>6. ASSUME NEW u \in Users
      PROVE  balance'[u] + Debits(u)'[t] + Settlements(u)[t]
               = balance[u] + Debits(u)[t] + Settlements(u)'[t]
  <2>1. /\ Debits(u)[t] = 0 /\ Settlements(u)[t] = 0 /\ Settlements(u)'[t] = 0
        /\ Debits(u)'[t] = IF b = u THEN gross ELSE 0
    BY <1>1, <1>4 DEF EmptyEntries, OpenEntries
  <2>2. balance[u] \in Nat /\ balance'[u] \in Nat
    BY <1>4 DEF SumsTyped
  <2>3. b = u => balance'[u] = balance[u] - gross
    BY <1>3
  <2>4. b # u => balance'[u] = balance[u]
    BY <1>3
  <2> QED
    BY <1>2, <2>1, <2>2, <2>3, <2>4
<1> QED
  BY <1>1, <1>5, <1>6, DealEntries

\* A resolved dispute moves the budget, all of it, to the party it names.
LEMMA ResolveBooks ==
  ASSUME BooksInv, BooksInv', BooksMatch, NEW t \in Txs, NEW outcome \in Outcomes,
         ResolveDispute(t, outcome, 0), UNCHANGED eventsVars
  PROVE  BooksMatch'
<1> PICK b, s, gross : b = terms[t].buyer /\ s = terms[t].seller /\ gross = terms[t].gross
  OBVIOUS
<1> PICK w : w = IF outcome = "REFUND_BUYER" THEN b ELSE s
  OBVIOUS
<1>0. /\ status[t] = "DISPUTED" /\ t \notin asGoods
      /\ UNCHANGED <<terms, invoice, payoutStatus, advanced, asGoods>>
  BY DEF ResolveDispute, eventsVars, BooksInv, TypeInv, TypeOK
<1>1. /\ b \in Users /\ s \in Users /\ w \in Users /\ gross \in Nat
      /\ terms[t].net = gross /\ terms[t].midtransFee \in Int
  BY <1>0 DEF BooksInv, TypeInv, TypeOK, EscrowTypeOK, NoSellerFee, Terms
<1>2. /\ dispute'[t].status = "RESOLVED" /\ dispute'[t].outcome = outcome
      /\ \A x \in Txs : x # t => dispute'[x] = dispute[x]
  BY DEF ResolveDispute, SetDispute, BooksInv, TypeInv, TypeOK, EscrowTypeOK
<1>3. RefundAmount(t, 0) = gross /\ gross - gross = 0
  BY <1>1 DEF RefundAmount
<1>4. /\ status'[t] \in {"RELEASED", "REFUNDED"}
      /\ \A x \in Txs : x # t => status'[x] = status[x]
  BY DEF ResolveDispute, RefundBuyer, PaySeller, SetStatus, BooksInv, TypeInv, TypeOK, EscrowTypeOK
<1>5. /\ \E k \in LedgerTypes : UpdateBalance(t, k, w, gross)
      /\ \E fee \in Int : UpdateFinance(-gross, 0, fee)
  <2>1. CASE outcome = "REFUND_BUYER"
    BY <1>1, <1>3, <2>1 DEF ResolveDispute, RefundBuyer, LedgerTypes
  <2>2. CASE outcome = "RELEASE_TO_SELLER"
    <3>1. PaySeller(t) /\ w = s
      BY <2>2 DEF ResolveDispute
    <3> QED
      BY <1>1, <1>3, <3>1 DEF PaySeller, LedgerTypes
  <2> QED
    BY <2>1, <2>2 DEF Outcomes
<1>6. /\ balance'[w] = balance[w] + gross
      /\ \A u \in Users : u # w => balance'[u] = balance[u]
  BY <1>1, <1>5 DEF UpdateBalance, BooksInv, TypeInv, TypeOK, EscrowTypeOK
<1>7. finance'.escrow = finance.escrow - gross /\ finance'.revenue = finance.revenue + 0
  BY <1>1, <1>5 DEF UpdateFinance, BooksInv, TypeInv, TypeOK, EscrowTypeOK
<1>8. SumsTyped /\ SumsTyped' /\ OpenEntries(t)
  BY <1>0, BooksSides DEF EntriesFollow, Held
<1>9. /\ PaidIn'[t] = gross /\ EventOut'[t] = gross /\ Earned'[t] = 0
      /\ \A u \in Users : /\ Debits(u)'[t] = IF b = u THEN gross ELSE 0
                          /\ Settlements(u)'[t] = IF w = u THEN gross ELSE 0
  <2>1. /\ Paid(t)' /\ Settled(t)' /\ ~Processed(t)' /\ terms'[t] = terms[t]
        /\ \A o : PaidTo(t, o)' <=> o = outcome
        /\ GivenToSeller(t)' <=> outcome = "RELEASE_TO_SELLER"
    BY <1>0, <1>2, <1>4 DEF Paid, Settled, Processed, PaidTo, GivenToSeller
  <2>2. PaidIn'[t] = gross /\ EventOut'[t] = gross /\ Earned'[t] = 0
    BY <2>1 DEF PaidIn, EventOut, Earned
  <2>3. ASSUME NEW u \in Users
        PROVE  /\ Debits(u)'[t] = IF b = u THEN gross ELSE 0
               /\ Settlements(u)'[t] = IF w = u THEN gross ELSE 0
    BY <2>1 DEF Debits, Settlements, Outcomes
  <2> QED
    BY <2>2, <2>3
<1>10. /\ finance'.escrow + PaidIn[t] + EventOut'[t] = finance.escrow + PaidIn'[t] + EventOut[t]
       /\ finance'.revenue + Earned[t] = finance.revenue + Earned'[t]
  BY <1>1, <1>7, <1>8, <1>9 DEF OpenEntries, SumsTyped
<1>11. ASSUME NEW u \in Users
       PROVE  balance'[u] + Debits(u)'[t] + Settlements(u)[t]
                = balance[u] + Debits(u)[t] + Settlements(u)'[t]
  <2>1. /\ Debits(u)[t] = (IF b = u THEN gross ELSE 0) /\ Settlements(u)[t] = 0
        /\ Debits(u)'[t] = (IF b = u THEN gross ELSE 0)
        /\ Settlements(u)'[t] = IF w = u THEN gross ELSE 0
    BY <1>8, <1>9 DEF OpenEntries
  <2>2. balance[u] \in Nat /\ balance'[u] \in Nat
    BY <1>8 DEF SumsTyped
  <2>3. w = u => balance'[u] = balance[u] + gross
    BY <1>6
  <2>4. w # u => balance'[u] = balance[u]
    BY <1>6
  <2> QED
    BY <1>1, <2>1, <2>2, <2>3, <2>4
<1> QED
  BY <1>0, <1>2, <1>4, <1>10, <1>11, DealEntries

\* Released like goods, an event gives its budget, all of it, to its seller,
\* and earns the platform nothing.
LEMMA GoodsBooks ==
  ASSUME BooksInv, BooksInv', BooksMatch, NEW c \in Callers, CommitGoods(c)
  PROVE  BooksMatch'
<1> PICK t : t = call[c].job
  OBVIOUS
<1>0. /\ t \in Txs /\ status[t] = "FUNDS_LOCKED" /\ PaySeller(t) /\ SetStatus(t, "RELEASED")
      /\ asGoods' = asGoods \cup {t}
      /\ UNCHANGED <<terms, dispute, invoice, payoutStatus, advanced>>
  BY GoodsGiven DEF BooksInv
<1> PICK b, s, gross : b = terms[t].buyer /\ s = terms[t].seller /\ gross = terms[t].gross
  OBVIOUS
<1>1. /\ b \in Users /\ s \in Users /\ gross \in Nat
      /\ terms[t].net = gross /\ terms[t].midtransFee \in Int
  <2>1. terms[t] \in Terms /\ terms[t].net = terms[t].gross
    BY <1>0 DEF BooksInv, TypeInv, TypeOK, EscrowTypeOK, NoSellerFee
  <2> QED
    BY <2>1 DEF Terms
<1>2. status'[t] = "RELEASED" /\ \A x \in Txs : x # t => status'[x] = status[x]
  BY <1>0 DEF SetStatus, BooksInv, TypeInv, TypeOK, EscrowTypeOK
<1>3. gross - gross = 0
  BY <1>1
<1>4. /\ \E k \in LedgerTypes : UpdateBalance(t, k, s, gross)
      /\ \E fee \in Int : UpdateFinance(-gross, 0, fee)
  BY <1>0, <1>1, <1>3 DEF PaySeller, LedgerTypes
<1>5. /\ balance'[s] = balance[s] + gross
      /\ \A u \in Users : u # s => balance'[u] = balance[u]
  BY <1>1, <1>4 DEF UpdateBalance, BooksInv, TypeInv, TypeOK, EscrowTypeOK
<1>6. finance'.escrow = finance.escrow - gross /\ finance'.revenue = finance.revenue + 0
  BY <1>1, <1>4 DEF UpdateFinance, BooksInv, TypeInv, TypeOK, EscrowTypeOK
<1>7. SumsTyped /\ SumsTyped' /\ OpenEntries(t)
  BY <1>0, BooksSides DEF EntriesFollow, Held
<1>8. /\ PaidIn'[t] = gross /\ EventOut'[t] = gross /\ Earned'[t] = 0
      /\ \A u \in Users : /\ Debits(u)'[t] = IF b = u THEN gross ELSE 0
                          /\ Settlements(u)'[t] = IF s = u THEN gross ELSE 0
  <2>1. dispute'[t].status # "RESOLVED"
    BY <1>0 DEF BooksInv, DisputeMatchesStatus
  <2>2. /\ Paid(t)' /\ Settled(t)' /\ ~Processed(t)' /\ GivenToSeller(t)'
        /\ terms'[t] = terms[t] /\ \A o : ~PaidTo(t, o)'
    BY <1>0, <1>2, <2>1 DEF Paid, Settled, Processed, PaidTo, GivenToSeller
  <2>3. PaidIn'[t] = gross /\ EventOut'[t] = gross /\ Earned'[t] = 0
    BY <1>0, <2>2 DEF PaidIn, EventOut, Earned
  <2>4. ASSUME NEW u \in Users
        PROVE  /\ Debits(u)'[t] = IF b = u THEN gross ELSE 0
               /\ Settlements(u)'[t] = IF s = u THEN gross ELSE 0
    BY <1>0, <2>2 DEF Debits, Settlements
  <2> QED
    BY <2>3, <2>4
<1>9. /\ finance'.escrow + PaidIn[t] + EventOut'[t] = finance.escrow + PaidIn'[t] + EventOut[t]
      /\ finance'.revenue + Earned[t] = finance.revenue + Earned'[t]
  BY <1>1, <1>6, <1>7, <1>8 DEF OpenEntries, SumsTyped
<1>10. ASSUME NEW u \in Users
       PROVE  balance'[u] + Debits(u)'[t] + Settlements(u)[t]
                = balance[u] + Debits(u)[t] + Settlements(u)'[t]
  <2>1. /\ Debits(u)[t] = (IF b = u THEN gross ELSE 0) /\ Settlements(u)[t] = 0
        /\ Debits(u)'[t] = (IF b = u THEN gross ELSE 0)
        /\ Settlements(u)'[t] = IF s = u THEN gross ELSE 0
    BY <1>7, <1>8 DEF OpenEntries
  <2>2. balance[u] \in Nat /\ balance'[u] \in Nat
    BY <1>7 DEF SumsTyped
  <2>3. s = u => balance'[u] = balance[u] + gross
    BY <1>5
  <2>4. s # u => balance'[u] = balance[u]
    BY <1>5
  <2> QED
    BY <1>1, <2>1, <2>2, <2>3, <2>4
<1> QED
  BY <1>0, <1>2, <1>9, <1>10, DealEntries

\* Creating an event and the shared steps keep the books.
LEMMA CreateBooks ==
  ASSUME BooksInv, BooksInv', BooksMatch, NEW t \in Txs, Create(t)
  PROVE  BooksMatch'
<1>1. /\ status[t] = "NONE" /\ status'[t] = "WAITING_PAYMENT"
      /\ \A x \in Txs : x # t => status'[x] = status[x] /\ terms'[x] = terms[x]
      /\ UNCHANGED <<dispute, balance, finance, invoice, payoutStatus, advanced, asGoods>>
  BY CreateSettles DEF BooksInv
<1>2. ~Paid(t) /\ ~Paid(t)'
  BY <1>1 DEF Paid, Held, Settled
<1> QED
  BY <1>1, <1>2, StatusBooks

LEMMA DealBooks ==
  ASSUME BooksInv, BooksInv', BooksMatch, NEW t \in Txs, DealStep(t, 0), UNCHANGED eventsVars
  PROVE  BooksMatch'
<1>1. /\ UNCHANGED <<invoice, payoutStatus, advanced, asGoods, terms>>
      /\ \A x \in Txs : x # t => status'[x] = status[x] /\ dispute'[x] = dispute[x]
  BY DealSettles, DealMoves DEF eventsVars, BooksInv
<1> USE DEF Paid, Held, Settled, SetStatus, SetDispute
<1>2. CASE CancelTransaction(t)
  <2>1. ~Paid(t) /\ ~Paid(t)' /\ UNCHANGED <<balance, finance>>
    BY <1>2 DEF CancelTransaction, BooksInv, TypeInv, TypeOK, EscrowTypeOK
  <2> QED
    BY <1>1, <2>1, StatusBooks
<1>3. CASE \E u \in Users : OpenDispute(t, u)
  <2>1. Held(t) /\ Held(t)' /\ UNCHANGED <<balance, finance>>
    BY <1>3 DEF OpenDispute, BooksInv, TypeInv, TypeOK, EscrowTypeOK
  <2> QED
    BY <1>1, <2>1, StatusBooks
<1>4. CASE AcknowledgeDispute(t)
  <2>1. Held(t) /\ Held(t)' /\ UNCHANGED <<balance, finance>>
    BY <1>4 DEF AcknowledgeDispute, BooksInv, DisputeMatchesStatus
  <2> QED
    BY <1>1, <2>1, StatusBooks
<1> QED
  BY <1>2, <1>3, <1>4, ConfirmBooks, ResolveBooks DEF DealStep, DisputeStep

\* Filing an invoice moves no money, and only an event that holds its budget
\* takes one.
LEMMA SubmitBooks ==
  ASSUME BooksInv, BooksInv', BooksMatch, NEW t \in Txs, NEW p \in Payouts,
         NEW v \in Vendors \cup {External}, NEW amount \in ClaimAmounts,
         SubmitEventVendorInvoice(p, t, v, amount)
  PROVE  BooksMatch'
<1>1. /\ payoutStatus[p] = "NONE" /\ status[t] = "FUNDS_LOCKED" /\ p \notin advanced
      /\ \A x : p \notin FiledFor(x)
      /\ \A x : x # t => FiledFor(x)' = FiledFor(x)
      /\ \A q \in Payouts : q # p => invoice'[q] = invoice[q] /\ payoutStatus'[q] = payoutStatus[q]
      /\ payoutStatus'[p] = "PENDING"
      /\ UNCHANGED <<status, terms, dispute, balance, finance, advanced, asGoods>>
  BY SubmitInvoices DEF database, BooksInv
<1>2. \A x \in Txs : x # t => AmountsOf(FiledFor(x))' = AmountsOf(FiledFor(x))
  BY <1>1, ClaimsSame, AmountsAreClaims
<1>3. Advances' = Advances
  <2>1. Claims(advanced, invoice') = Claims(advanced, invoice)
    BY <1>1, ClaimsSame
  <2> QED
    BY <1>1, <2>1, SumsAreClaims
<1>4. ASSUME NEW u \in Users
      PROVE  Receipts(u)' = Receipts(u)
  <2>1. ApprovedOf(u)' = ApprovedOf(u) /\ p \notin ApprovedOf(u)
    BY <1>1 DEF ApprovedOf
  <2>2. Claims(ApprovedOf(u), invoice') = Claims(ApprovedOf(u), invoice)
    BY <1>1, <2>1, ClaimsSame
  <2> QED
    BY <2>1, <2>2, SumsAreClaims
<1>5. SumsTyped /\ SumsTyped' /\ OpenEntries(t) /\ OpenEntries(t)'
  BY <1>1, BooksSides DEF EntriesFollow, Held
<1>6. /\ PaidIn'[t] = PaidIn[t] /\ EventOut'[t] = EventOut[t] /\ Earned'[t] = Earned[t]
      /\ \A u \in Users : Debits(u)'[t] = Debits(u)[t] /\ Settlements(u)'[t] = Settlements(u)[t]
  BY <1>1, <1>5 DEF OpenEntries
<1>7. \A x \in Txs : x # t =>
        /\ PaidIn'[x] = PaidIn[x] /\ EventOut'[x] = EventOut[x] /\ Earned'[x] = Earned[x]
        /\ \A u \in Users : Debits(u)'[x] = Debits(u)[x] /\ Settlements(u)'[x] = Settlements(u)[x]
  BY <1>1, <1>2, OthersKeep
<1> QED
  BY <1>1, <1>3, <1>4, <1>5, <1>6, <1>7, EventBooks

\* A paid set credits its vendors with what their invoices claim.
LEMMA PaySetReceipts ==
  ASSUME TypeInv, NEW t, NEW S, PaySet(t, S), NEW u \in Users
  PROVE  /\ Total(AmountsOf(OfVendor(S, u))) \in Nat
         /\ Receipts(u)' = Receipts(u) + Total(AmountsOf(OfVendor(S, u)))
         /\ balance'[u] = balance[u] + Total(AmountsOf(OfVendor(S, u)))
<1>1. /\ \A p \in Payouts : payoutStatus'[p] = "APPROVED"
                               <=> (payoutStatus[p] = "APPROVED" \/ p \in S)
      /\ S \subseteq Payouts /\ Total(AmountsOf(OfVendor(S, u))) \in Nat
      /\ UNCHANGED invoice
  BY PaySetMoves, PaySetColumns DEF PaySet
<1>2. ApprovedOf(u)' = ApprovedOf(u) \cup OfVendor(S, u)
  BY <1>1 DEF ApprovedOf, OfVendor
<1>3. ApprovedOf(u) \cap OfVendor(S, u) = {}
  BY DEF ApprovedOf, OfVendor, PaySet
<1>4. \A p \in Payouts : p \in ApprovedOf(u) \cup OfVendor(S, u) => invoice[p].amount \in Nat
  BY FiledInvoice DEF ApprovedOf, OfVendor, PaySet, FiledFor
<1>5. Total(Claims(ApprovedOf(u) \cup OfVendor(S, u), invoice))
        = Total(Claims(ApprovedOf(u), invoice)) + Total(Claims(OfVendor(S, u), invoice))
  BY <1>3, <1>4, ClaimsAdd
<1>6. Receipts(u)' = Receipts(u) + Total(AmountsOf(OfVendor(S, u)))
  BY <1>1, <1>2, <1>5, SumsAreClaims, AmountsAreClaims
<1>7. balance'[u] = balance[u] + Total(AmountsOf(OfVendor(S, u)))
  BY DEF PaySet, CreditVendors
<1> QED
  BY <1>1, <1>6, <1>7

\* Paying a set of invoices keeps the books if escrow and revenue follow.
LEMMA PaySetBooks ==
  ASSUME BooksInv, BooksInv', BooksMatch, NEW t, NEW S, PaySet(t, S),
         \A x \in Txs : x # t => status'[x] = status[x],
         Paid(t)' <=> Paid(t),
         finance'.escrow + EventOut'[t] + Advances' = finance.escrow + EventOut[t] + Advances,
         finance'.revenue + Earned[t] = finance.revenue + Earned'[t]
  PROVE  BooksMatch'
<1>1. /\ t \in Txs /\ UNCHANGED <<terms, dispute, invoice, asGoods>>
      /\ \A x \in Txs : FiledFor(x)' = FiledFor(x)
  BY PaySetMoves DEF PaySet, BooksInv
<1>2. \A x \in Txs : AmountsOf(FiledFor(x))' = AmountsOf(FiledFor(x))
  BY <1>1, AmountsAreClaims
<1>3. \A x \in Txs : x # t =>
        /\ PaidIn'[x] = PaidIn[x] /\ EventOut'[x] = EventOut[x] /\ Earned'[x] = Earned[x]
        /\ \A u \in Users : Debits(u)'[x] = Debits(u)[x] /\ Settlements(u)'[x] = Settlements(u)[x]
  BY <1>1, <1>2, OthersKeep
<1>4. /\ PaidIn'[t] = PaidIn[t]
      /\ \A u \in Users : Debits(u)'[t] = Debits(u)[t] /\ Settlements(u)'[t] = Settlements(u)[t]
  <2>1. (\A o : PaidTo(t, o)' <=> PaidTo(t, o)) /\ (GivenToSeller(t)' <=> GivenToSeller(t))
    BY <1>1 DEF PaidTo, GivenToSeller
  <2> QED
    BY <1>1, <2>1 DEF PaidIn, Debits, Settlements
<1>5. SumsTyped /\ SumsTyped'
  BY BooksSides
<1>6. finance'.escrow + PaidIn[t] + EventOut'[t] + Advances'
        = finance.escrow + PaidIn'[t] + EventOut[t] + Advances
  <2> PICK e, in, out, a :
           e = finance.escrow /\ in = PaidIn[t] /\ out = EventOut[t] /\ a = Advances
    OBVIOUS
  <2> PICK eNext, outNext, aNext :
           eNext = finance'.escrow /\ outNext = EventOut'[t] /\ aNext = Advances'
    OBVIOUS
  <2>1. /\ e \in Int /\ in \in Nat /\ out \in Nat /\ a \in Nat
        /\ eNext \in Int /\ outNext \in Nat /\ aNext \in Nat
        /\ eNext + outNext + aNext = e + out + a
    BY <1>1, <1>5 DEF SumsTyped
  <2>2. eNext + in + outNext + aNext = e + in + out + a
    BY <2>1
  <2> QED
    BY <1>4, <2>2
<1>7. ASSUME NEW u \in Users
      PROVE  balance'[u] + Debits(u)'[t] + Settlements(u)[t] + Receipts(u)
               = balance[u] + Debits(u)[t] + Settlements(u)'[t] + Receipts(u)'
  <2> PICK b, d, s, r :
           b = balance[u] /\ d = Debits(u)[t] /\ s = Settlements(u)[t] /\ r = Receipts(u)
    OBVIOUS
  <2> PICK bNext, rNext, credit : /\ bNext = balance'[u] /\ rNext = Receipts(u)'
                                  /\ credit = Total(AmountsOf(OfVendor(S, u)))
    OBVIOUS
  <2>1. credit \in Nat /\ rNext = r + credit /\ bNext = b + credit
    BY PaySetReceipts DEF BooksInv
  <2>2. b \in Nat /\ d \in Nat /\ s \in Nat /\ r \in Nat
    BY <1>1, <1>5 DEF SumsTyped
  <2>3. bNext + d + s + r = b + d + s + rNext
    BY <2>1, <2>2
  <2> QED
    BY <1>4, <2>3
<1> QED
  BY <1>1, <1>3, <1>5, <1>6, <1>7, EventBooks

\* ProcessEventVendorPayouts pays what is open, and settles the event for all
\* of its invoices and the platform fee when nobody waits for the bank.
LEMMA ProcessBooks ==
  ASSUME BooksInv, BooksInv', BooksMatch, NEW c \in Callers, CommitProcess(c)
  PROVE  BooksMatch'
<1> PICK t \in Txs, S \in SUBSET Payouts :
         /\ status[t] = "FUNDS_LOCKED" /\ PaySet(t, S) /\ UNCHANGED advanced
         /\ \A x \in Txs : x # t => status'[x] = status[x]
         /\ \/ SettleEvent(t) /\ status'[t] = "RELEASED" /\ Processed(t)'
            \/ UNCHANGED <<status, finance>>
  BY ProcessSettles, Zenon DEF BooksInv
<1>1. /\ SumsTyped /\ SumsTyped' /\ EventOut[t] = 0 /\ Earned[t] = 0
      /\ OpenEntries(t)
  BY BooksSides DEF EntriesFollow, Held, OpenEntries
<1>2. UNCHANGED <<terms, invoice>> /\ FiledFor(t)' = FiledFor(t)
  BY PaySetMoves DEF PaySet, BooksInv
<1>3. Advances' = Advances
  BY <1>2, SumsAreClaims
<1>4. CASE SettleEvent(t) /\ status'[t] = "RELEASED" /\ Processed(t)'
  <2> PICK total, fee : /\ total = Total(AmountsOf(FiledFor(t)))
                        /\ fee = EventPlatformFee(terms[t].gross)
    OBVIOUS
  <2>1. EventOut'[t] = total + fee /\ Earned'[t] = fee
    <3>1. Total(AmountsOf(FiledFor(t)))' = Total(AmountsOf(FiledFor(t)))
      BY <1>2, AmountsAreClaims DEF Total, Coins, Purse
    <3>2. EventPlatformFee(terms'[t].gross) = fee
      BY <1>2
    <3> QED
      BY <1>4, <3>1, <3>2 DEF EventOut, Earned
  <2>2. /\ finance'.escrow = finance.escrow + (-(total + fee))
        /\ finance'.revenue = finance.revenue + fee
    BY <1>4 DEF SettleEvent, UpdateFinance
  <2>3. total \in Nat /\ fee \in Nat
    <3>1. \A p \in Payouts : p \in FiledFor(t) => invoice[p].amount \in Nat
      BY FiledInvoice DEF FiledFor, BooksInv
    <3>2. total \in Nat
      BY <3>1, ClaimsType, AmountsAreClaims
    <3>3. terms[t].gross \in Nat
      BY DEF BooksInv, TypeInv, TypeOK, EscrowTypeOK, Terms
    <3> QED
      BY <3>2, <3>3, PlatformFeeBounds
  <2>4. /\ finance'.escrow + EventOut'[t] + Advances' = finance.escrow + EventOut[t] + Advances
        /\ finance'.revenue + Earned[t] = finance.revenue + Earned'[t]
    <3>1. finance.escrow \in Int /\ finance.revenue \in Int /\ Advances \in Nat
      BY <1>1 DEF SumsTyped
    <3> QED
      BY <1>1, <1>3, <2>1, <2>2, <2>3, <3>1
  <2>5. Paid(t)' <=> Paid(t)
    BY <1>4 DEF Paid, Held, Settled
  <2> QED
    BY <2>4, <2>5, PaySetBooks
<1>5. CASE UNCHANGED <<status, finance>>
  <2>1. Paid(t)' <=> Paid(t)
    BY <1>5 DEF Paid, Held, Settled
  <2>2. OpenEntries(t)'
    BY <1>5, BooksSides DEF EntriesFollow, Held
  <2>3. EventOut'[t] = EventOut[t] /\ Earned'[t] = Earned[t]
    BY <1>1, <2>2 DEF OpenEntries
  <2> QED
    BY <1>3, <1>5, <2>1, <2>3, PaySetBooks
<1> QED
  BY <1>4, <1>5

\* ReleaseEventMilestonePayout takes one invoice out of escrow at once.
LEMMA AdvanceBooks ==
  ASSUME BooksInv, BooksInv', BooksMatch, NEW p \in Payouts, NEW t \in Txs,
         PaySet(t, {p}), invoice[p].amount \in Nat, UpdateFinance(-invoice[p].amount, 0, 0),
         advanced' = advanced \cup {p}, UNCHANGED status
  PROVE  BooksMatch'
<1>1. /\ UNCHANGED <<terms, invoice, dispute, asGoods>> /\ FiledFor(t)' = FiledFor(t)
      /\ p \notin advanced
  BY PaySetMoves DEF PaySet, BooksInv, TypeInv, TypeOK
<1>2. SumsTyped /\ SumsTyped'
  BY BooksSides
<1>3. Advances' = Advances + invoice[p].amount
  <2>1. \A q \in Payouts : q \in advanced \cup {p} => invoice[q].amount \in Nat
    BY FiledInvoice DEF BooksInv, TypeInv, TypeOK
  <2>2. Total(Claims(advanced \cup {p}, invoice))
          = Total(Claims(advanced, invoice)) + Total(Claims({p}, invoice))
    BY <1>1, <2>1, ClaimsAdd
  <2>3. Total(Claims({p}, invoice)) = invoice[p].amount
    BY ClaimsOne
  <2> QED
    BY <1>1, <2>2, <2>3, SumsAreClaims
<1>4. AmountsOf(FiledFor(t))' = AmountsOf(FiledFor(t))
  BY <1>1, AmountsAreClaims
<1>5. EventOut'[t] = EventOut[t] /\ Earned'[t] = Earned[t]
  BY <1>1, <1>4, OthersKeep
<1>6. /\ finance'.escrow = finance.escrow + (-invoice[p].amount)
      /\ finance'.revenue = finance.revenue + 0
  BY DEF UpdateFinance
<1>7. finance'.escrow + EventOut'[t] + Advances' = finance.escrow + EventOut[t] + Advances
  <2> PICK e, out, a, k :
           e = finance.escrow /\ out = EventOut[t] /\ a = Advances /\ k = invoice[p].amount
    OBVIOUS
  <2>1. e \in Int /\ out \in Nat /\ a \in Nat /\ k \in Nat
    BY <1>2 DEF SumsTyped
  <2>2. (e + (-k)) + out + (a + k) = e + out + a
    BY <2>1
  <2> QED
    BY <1>3, <1>5, <1>6, <2>2
<1>8. finance'.revenue + Earned[t] = finance.revenue + Earned'[t]
  BY <1>2, <1>5, <1>6 DEF SumsTyped
<1>9. Paid(t)' <=> Paid(t)
  BY DEF Paid, Held, Settled
<1> QED
  BY <1>7, <1>8, <1>9, PaySetBooks

\* Every step keeps the books.
LEMMA BooksStep == BooksInv /\ BooksMatch /\ [Next]_vars => BooksMatch'
<1> SUFFICES ASSUME BooksInv, BooksMatch, [Next]_vars
             PROVE  BooksMatch'
  OBVIOUS
<1>1. BooksInv' /\ TypeInv
  BY BooksInvStep DEF BooksInv
<1>2. SumsTyped /\ SumsTyped'
  BY <1>1, BooksSides
<1>3. ASSUME NEW c \in Callers, Quiet(c)
      PROVE  BooksMatch'
  <2>1. /\ UNCHANGED <<status, terms, dispute, balance, finance, invoice, advanced, asGoods>>
        /\ \A x : FiledFor(x)' = FiledFor(x)
        /\ \A p \in Payouts : payoutStatus'[p] = "APPROVED" <=> payoutStatus[p] = "APPROVED"
    BY <1>3, QuietInvoices DEF Quiet, database
  <2>2. \A u : ApprovedOf(u)' = ApprovedOf(u)
    BY <2>1 DEF ApprovedOf
  <2>3. /\ Advances' = Advances /\ \A u : Receipts(u)' = Receipts(u)
        /\ \A x : AmountsOf(FiledFor(x))' = AmountsOf(FiledFor(x))
    BY <2>1, <2>2, SumsAreClaims, AmountsAreClaims
  <2> QED
    BY <1>2, <2>1, <2>3, BooksKept
<1>4. CASE UNCHANGED <<database, invoice, payoutStatus, advanced, asGoods>>
  BY <1>2, <1>4, InvoicesKeep, BooksKept DEF database
<1>5. \/ UNCHANGED vars
      \/ \E u \in Users : (Freeze(u) \/ Unfreeze(u)) /\ UNCHANGED eventsVars
      => UNCHANGED <<database, invoice, payoutStatus, advanced, asGoods>>
  BY DEF vars, eventsVars, Freeze, Unfreeze
<1> QED
  BY <1>1, <1>3, <1>4, <1>5, CreateBooks, DealBooks, SubmitBooks, ProcessBooks, AdvanceBooks,
     GoodsBooks, NextCases

\* The empty platform: no event is paid, no invoice is filed.
LEMMA BooksInit == Init /\ BooksInv => BooksMatch
<1> SUFFICES ASSUME Init, BooksInv
             PROVE  BooksMatch
  OBVIOUS
<1>1. SumsTyped /\ EntriesFollow
  BY SumsType, EntriesNow DEF BooksInv
<1>2. \A t \in Txs : EmptyEntries(t)
  BY <1>1 DEF Init, EscrowInit, EntriesFollow, Paid, Held, Settled
<1>3. /\ Total(PaidIn) = 0 /\ Total(EventOut) = 0 /\ Total(Earned) = 0
      /\ \A u \in Users : Total(Debits(u)) = 0 /\ Total(Settlements(u)) = 0
  BY <1>1, <1>2, TotalZero DEF SumsTyped, EmptyEntries
<1>4. Advances = 0 /\ \A u : Receipts(u) = 0
  <2>1. \A p \in Payouts : p \notin advanced /\ \A u : p \notin ApprovedOf(u)
    BY DEF Init, ApprovedOf
  <2> QED
    BY <2>1, ClaimsNone, SumsAreClaims
<1>5. EscrowMatches
  BY <1>3, <1>4 DEF Init, EscrowInit, EscrowMatches, PaidIn, Advances
<1>6. RevenueMatches
  BY <1>3 DEF Init, EscrowInit, RevenueMatches, Earned
<1>7. WalletsReconcile
  BY <1>1, <1>3, <1>4 DEF Init, EscrowInit, WalletsReconcile, SumsTyped, Receipts
<1> QED
  BY <1>5, <1>6, <1>7 DEF BooksMatch

\* Escrow, revenue and every wallet follow from the events and their invoices
\* alone, in every reachable state: in whichever of the two ways, or both at
\* once, the invoices of an event are paid, and whether a dispute or a release
\* like goods gives the budget away.
THEOREM BooksCorrect == Spec => []BooksMatch
<1>1. TypeInv /\ DisputeMatchesStatus => BooksInv
  BY DEF BooksInv
<1> QED
  BY <1>1, BooksInit, TypeInvCorrect, DisputeCorrect, BooksStep, PTL DEF Spec
=============================================================================
