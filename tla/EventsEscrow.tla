---------------------------- MODULE EventsEscrow ----------------------------
(***************************************************************************)
(* Events escrow of core-service: a budget locked up front, the pledges of *)
(* the organizer to vendors, the invoices filed against it, and the two    *)
(* ways an invoice is paid (all at once by ProcessEventVendorPayouts, one  *)
(* at a time by ReleaseEventMilestonePayout), for vendors with a wallet    *)
(* and vendors without one.                                                *)
(*                                                                         *)
(* The two ways keep their books differently.  The first takes money out   *)
(* of escrow only when the whole event is settled, and then for every      *)
(* invoice; the second takes it out at once.  And ReleaseFundsGoods, which *)
(* reads the status of a transaction and never its type, gives the whole   *)
(* budget to the seller of a locked event, whatever its invoices claim.    *)
(*                                                                         *)
(* The history variables remember what the code does not record, so that   *)
(* what holds of the books can be stated: "advanced", which invoices the   *)
(* second way has paid, and "asGoods", which events were released like     *)
(* goods.                                                                  *)
(***************************************************************************)
EXTENDS Escrow

CONSTANTS
  Callers,        \* clients that may have a request in flight
  Payouts,        \* identities of the invoices that may be filed
  Vendors,        \* the members that may be a vendor
  External,       \* the vendor of an invoice without a vendor_user_id
  NoInvoice,      \* "no row"
  NoJob,          \* what an idle client works on
  BaseAmounts,    \* base amounts a client may ask for
  PledgeAmounts,  \* amounts the organizer may pledge; 0 is no allocation
  ClaimAmounts,   \* amounts of an invoice
  FailOpen        \* FRAUD_FAIL_OPEN: an unreachable fraud service is "safe"

ASSUME VendorsAssumption ==
  /\ IsFiniteSet(Callers) /\ IsFiniteSet(Payouts) /\ Payouts \cap Txs = {}
  /\ Vendors \subseteq Users /\ External \notin Users
  /\ NoJob \notin Payouts \cup Txs
  /\ BaseAmounts \subseteq Int
  /\ PledgeAmounts \subseteq Nat
  /\ ClaimAmounts \subseteq Nat \ {0}
  /\ FailOpen \in BOOLEAN

VARIABLES
  pledged,       \* allocated_amount per event and vendor, 0 without a row
  drawn,         \* actual_paid_amount of that row
  invoice,       \* the columns of an invoice fixed when it is filed
  payoutStatus,  \* event_vendor_payouts.status
  advanced,      \* invoices paid by ReleaseEventMilestonePayout
  asGoods,       \* events released by ReleaseFundsGoods
  call,          \* requests in flight, one per client
  audits         \* on-chain audit goroutines started per event

eventsVars == <<pledged, drawn, invoice, payoutStatus, advanced, asGoods, call, audits>>
vars == <<database, frozen, eventsVars>>

-----------------------------------------------------------------------------
\* A vendor has at most one allocation in an event here; the table would take
\* more.  The status of an allocation is CLAIMED once drawn reaches pledged.
Pledges == Txs \X Vendors

PayoutStatus == {"NONE", "PENDING", "APPROVED", "PENDING_DISBURSEMENT", "DISBURSED"}
Invoices == [tx : Txs, vendor : Vendors \cup {External}, amount : Nat]

\* The job of a call is an event to settle, by its invoices or like goods, or a
\* single invoice.
GoodsStages == {"screening_goods", "cleared_goods"}
Calls == [stage : {"idle", "screening", "cleared", "committed", "checked"} \cup GoodsStages,
          job : Txs \cup Payouts \cup {NoJob}]
Idle == [stage |-> "idle", job |-> NoJob]

TypeOK ==
  /\ EscrowTypeOK
  /\ pledged \in [Pledges -> Nat]
  /\ drawn \in [Pledges -> Nat]
  /\ invoice \in [Payouts -> Invoices \cup {NoInvoice}]
  /\ payoutStatus \in [Payouts -> PayoutStatus]
  /\ \A p \in Payouts : payoutStatus[p] # "NONE" =>
       /\ invoice[p] \in Invoices
       /\ payoutStatus[p] = "APPROVED" => invoice[p].vendor \in Vendors
       /\ payoutStatus[p] \in {"PENDING_DISBURSEMENT", "DISBURSED"} => invoice[p].vendor = External
  /\ advanced \subseteq {p \in Payouts : payoutStatus[p] = "APPROVED"}
  /\ asGoods \subseteq {t \in Txs : status[t] = "RELEASED"}
  /\ call \in [Callers -> Calls]
  /\ \A c \in Callers :
       /\ call[c].stage = "checked" => call[c].job \in Payouts
       /\ call[c].stage \in GoodsStages => call[c].job \in Txs
       /\ call[c].stage \in {"cleared", "committed"} => call[c].job \in Txs \cup Payouts
  /\ audits \in [Txs -> Nat]

Init ==
  /\ EscrowInit
  /\ pledged = [k \in Pledges |-> 0]
  /\ drawn = [k \in Pledges |-> 0]
  /\ invoice = [p \in Payouts |-> NoInvoice]
  /\ payoutStatus = [p \in Payouts |-> "NONE"]
  /\ advanced = {}
  /\ asGoods = {}
  /\ call = [c \in Callers |-> Idle]
  /\ audits = [t \in Txs |-> 0]

-----------------------------------------------------------------------------
(* Creating and paying an event, and filing invoices against it.           *)

\* LockFundsEvents: the row, its detail and the pledges, which may not exceed
\* the base amount.  Events have no buyer and no seller fee.
LockFundsEvents(t, b, s, base, pledges) ==
  /\ base > 0
  /\ Total(pledges) <= base
  /\ EnforceSellerLimit(s, base)
  /\ CreateTransaction(t, b, s, base, base)
  /\ pledged' = [k \in Pledges |-> IF k[1] = t THEN pledges[k[2]] ELSE pledged[k]]
  /\ UNCHANGED <<drawn, invoice, payoutStatus, advanced, asGoods, call, audits>>

ConfirmPaymentEvents(t) == ConfirmPayment(t) /\ UNCHANGED eventsVars

FiledFor(t) == {p \in Payouts : payoutStatus[p] # "NONE" /\ invoice[p].tx = t}
AmountsOf(S) == [p \in Payouts |-> IF p \in S THEN invoice[p].amount ELSE 0]
InternalOf(S) == {p \in S : invoice[p].vendor # External}
OfVendor(S, v) == {p \in S : invoice[p].vendor = v}

\* GetActiveEventVendorPayoutsTotal: whatever is not DISBURSED still claims escrow.
GetActivePayoutsTotal(t) ==
  Total(AmountsOf({p \in FiledFor(t) : payoutStatus[p] # "DISBURSED"}))

\* The pledges to the other vendors that their invoices have not used up.
ReservedFor(t, v) ==
  Total([u \in Vendors \ {v} |->
    IF pledged[t, u] > drawn[t, u] THEN pledged[t, u] - drawn[t, u] ELSE 0])

PayableEscrow(t) == terms[t].gross - EventPlatformFee(terms[t].gross)

File(p, t, v, amount) ==
  /\ invoice' = [invoice EXCEPT ![p] = [tx |-> t, vendor |-> v, amount |-> amount]]
  /\ payoutStatus' = [payoutStatus EXCEPT ![p] = "PENDING"]
  /\ UNCHANGED <<database, frozen, pledged, drawn, advanced, asGoods, call, audits>>

\* Mutant: an invoice is only compared with the escrow, not added to the others.
SubmitEventVendorInvoiceAlone(p, t, v, amount) ==
  /\ payoutStatus[p] = "NONE"
  /\ status[t] = "FUNDS_LOCKED"
  /\ ReservedFor(t, v) + amount <= PayableEscrow(t)
  /\ File(p, t, v, amount)

SubmitEventVendorInvoice(p, t, v, amount) ==
  /\ payoutStatus[p] = "NONE"
  /\ status[t] = "FUNDS_LOCKED"
  /\ GetActivePayoutsTotal(t) + ReservedFor(t, v) + amount <= PayableEscrow(t)
  /\ File(p, t, v, amount)

-----------------------------------------------------------------------------
(* Paying invoices: pre-check, screening, unit of work, audit.             *)

SetCall(c, stage, job) == call' = [call EXCEPT ![c] = [stage |-> stage, job |-> job]]
EndCall(c) == call' = [call EXCEPT ![c] = Idle]

\* An event must be locked, whichever way it is to be settled; an invoice must
\* not be APPROVED, and one of an external vendor is not screened.
RequestPayout(c, job) ==
  /\ call[c] = Idle
  /\ \/ /\ job \in Txs
        /\ status[job] = "FUNDS_LOCKED"
        /\ \E stage \in {"screening", "screening_goods"} : SetCall(c, stage, job)
     \/ /\ job \in Payouts
        /\ payoutStatus[job] \notin {"NONE", "APPROVED"}
        /\ SetCall(c, IF invoice[job].vendor = External THEN "cleared" ELSE "screening", job)
  /\ UNCHANGED <<database, frozen, pledged, drawn, invoice, payoutStatus, advanced, asGoods, audits>>

Screen(c, verdict) ==
  /\ call[c].stage \in {"screening", "screening_goods"}
  /\ IF verdict = "safe" \/ (verdict = "unavailable" /\ FailOpen)
       THEN SetCall(c, IF call[c].stage = "screening" THEN "cleared" ELSE "cleared_goods",
                    call[c].job)
       ELSE EndCall(c)
  /\ UNCHANGED <<database, frozen, pledged, drawn, invoice, payoutStatus, advanced, asGoods, audits>>

\* Mutant: what was paid earlier is forgotten.
DrawDownOverwrites(t, S) ==
  drawn' = [k \in Pledges |->
    IF k[1] = t /\ pledged[k] > 0 THEN Total(AmountsOf(OfVendor(S, k[2]))) ELSE drawn[k]]

\* MarkVendorAllocationClaimed, for the vendors of the invoices in S.
DrawDown(t, S) ==
  drawn' = [k \in Pledges |->
    IF k[1] = t /\ pledged[k] > 0 THEN drawn[k] + Total(AmountsOf(OfVendor(S, k[2]))) ELSE drawn[k]]

\* One UpdateBalance for every invoice in S; one refused wallet fails them all.
CreditVendors(t, S) ==
  /\ \A p \in S : invoice[p].vendor \notin frozen
  /\ balance' = [u \in Users |-> balance[u] + Total(AmountsOf(OfVendor(S, u)))]
  /\ rows' = [rows EXCEPT ![t].RECEIVE_FUNDS = @ + Cardinality(S)]

\* Mutant: settling charges no platform fee, the whole budget leaves escrow.
SettleEventWhole(t) ==
  /\ SetStatus(t, "RELEASED")
  /\ UpdateFinance(-terms[t].gross, 0, terms[t].midtransFee)

\* Every invoice and the platform fee leave escrow, whoever paid the invoice;
\* what is left of the budget stays there.
SettleEvent(t) ==
  /\ SetStatus(t, "RELEASED")
  /\ UpdateFinance(-(Total(AmountsOf(FiledFor(t))) + EventPlatformFee(terms[t].gross)),
                   EventPlatformFee(terms[t].gross), terms[t].midtransFee)

\* The loop over the invoices: pay the members, leave the outside vendors to the
\* bank, and settle the event when nobody waits.
PayInvoices(c, t, internal, waiting) ==
  /\ CreditVendors(t, internal)
  /\ DrawDown(t, internal)
  /\ payoutStatus' = [p \in Payouts |-> IF p \in internal THEN "APPROVED"
                                        ELSE IF p \in waiting THEN "PENDING_DISBURSEMENT"
                                        ELSE payoutStatus[p]]
  /\ IF waiting = {}
       THEN SettleEvent(t) /\ SetCall(c, "committed", t)
       ELSE UNCHANGED <<status, finance>> /\ EndCall(c)
  /\ UNCHANGED <<terms, dispute, frozen, pledged, invoice, advanced, asGoods, audits>>

Process(c) == call[c].stage = "cleared" /\ call[c].job \in Txs

\* Mutant: invoices that are already APPROVED are paid again.
CommitProcessAgain(c) ==
  LET t == call[c].job
      open == FiledFor(t)
  IN  /\ Process(c) /\ status[t] = "FUNDS_LOCKED" /\ open # {}
      /\ PayInvoices(c, t, InternalOf(open), open \ InternalOf(open))

\* Mutant: invoices the bank has taken over no longer keep the event locked.
CommitProcessEarly(c) ==
  LET t == call[c].job
      open == {p \in FiledFor(t) : payoutStatus[p] = "PENDING"}
  IN  /\ Process(c) /\ status[t] = "FUNDS_LOCKED" /\ FiledFor(t) # {}
      /\ PayInvoices(c, t, InternalOf(open), open \ InternalOf(open))

\* The unit of work of ProcessEventVendorPayouts, with the status read again.
\* Every invoice that is not APPROVED is open: those of outside vendors go
\* (back) to PENDING_DISBURSEMENT, DISBURSED or not, and keep the event locked.
CommitProcess(c) ==
  LET t == call[c].job
      open == {p \in FiledFor(t) : payoutStatus[p] # "APPROVED"}
  IN  /\ Process(c) /\ status[t] = "FUNDS_LOCKED" /\ FiledFor(t) # {}
      /\ PayInvoices(c, t, InternalOf(open), open \ InternalOf(open))

\* The unit of work of ReleaseEventMilestonePayout does not read the event.
CommitInvoice(c) ==
  LET p == call[c].job
      t == invoice[p].tx
      v == invoice[p].vendor
  IN
  /\ call[c].stage = "cleared" /\ p \in Payouts
  /\ payoutStatus[p] # "APPROVED"
  /\ IF v = External
       THEN /\ payoutStatus' = [payoutStatus EXCEPT ![p] = "PENDING_DISBURSEMENT"]
            /\ EndCall(c)
            /\ UNCHANGED <<balance, rows, drawn, advanced, finance>>
       ELSE /\ UpdateBalance(t, "RECEIVE_FUNDS", v, invoice[p].amount)
            /\ payoutStatus' = [payoutStatus EXCEPT ![p] = "APPROVED"]
            /\ DrawDown(t, {p})
            /\ UpdateFinance(-invoice[p].amount, 0, 0)
            /\ advanced' = advanced \cup {p}
            /\ SetCall(c, "committed", p)
  /\ UNCHANGED <<status, terms, dispute, frozen, pledged, invoice, asGoods, audits>>

\* The unit of work of ReleaseFundsGoods: the seller gets the whole budget.
CommitGoods(c) ==
  LET t == call[c].job IN
  /\ call[c].stage = "cleared_goods"
  /\ ReleaseFundsGoods(t)
  /\ asGoods' = asGoods \cup {t}
  /\ SetCall(c, "committed", t)
  /\ UNCHANGED <<pledged, drawn, invoice, payoutStatus, advanced, audits>>

\* The unit of work fails, or the process dies with the call in flight.
PayoutFails(c) ==
  /\ call[c].stage \in {"cleared", "cleared_goods", "committed", "checked"}
  /\ EndCall(c)
  /\ UNCHANGED <<database, frozen, pledged, drawn, invoice, payoutStatus, advanced, asGoods, audits>>

EventOf(job) == IF job \in Txs THEN job ELSE invoice[job].tx

StartAudit(c) ==
  /\ call[c].stage = "committed"
  /\ audits' = [audits EXCEPT ![EventOf(call[c].job)] = @ + 1]
  /\ EndCall(c)
  /\ UNCHANGED <<database, frozen, pledged, drawn, invoice, payoutStatus, advanced, asGoods>>

-----------------------------------------------------------------------------
(* MarkExternalPayoutDisbursed reads the invoice and writes it outside any *)
(* unit of work.                                                           *)

\* Mutant: any invoice can be marked.
CheckDisbursementAny(c, p) ==
  /\ call[c] = Idle
  /\ payoutStatus[p] # "NONE"
  /\ SetCall(c, "checked", p)
  /\ UNCHANGED <<database, frozen, pledged, drawn, invoice, payoutStatus, advanced, asGoods, audits>>

CheckDisbursement(c, p) ==
  /\ call[c] = Idle
  /\ payoutStatus[p] = "PENDING_DISBURSEMENT"
  /\ SetCall(c, "checked", p)
  /\ UNCHANGED <<database, frozen, pledged, drawn, invoice, payoutStatus, advanced, asGoods, audits>>

RecordDisbursement(c) ==
  /\ call[c].stage = "checked"
  /\ payoutStatus' = [payoutStatus EXCEPT ![call[c].job] = "DISBURSED"]
  /\ EndCall(c)
  /\ UNCHANGED <<database, frozen, pledged, drawn, invoice, advanced, asGoods, audits>>

-----------------------------------------------------------------------------
\* The id of a new row is fresh.
Create(t) ==
  /\ status[t] = "NONE"
  /\ \E b, s \in Users, base \in BaseAmounts, pledges \in [Vendors -> PledgeAmounts] :
       LockFundsEvents(t, b, s, base, pledges)

Submit(t) ==
  \E p \in Payouts, v \in Vendors \cup {External}, amount \in ClaimAmounts :
    SubmitEventVendorInvoice(p, t, v, amount)

Payout(c) ==
  \/ \E job \in Txs \cup Payouts : RequestPayout(c, job)
  \/ \E verdict \in {"safe", "unsafe", "unavailable"} : Screen(c, verdict)
  \/ CommitProcess(c)
  \/ CommitInvoice(c)
  \/ CommitGoods(c)
  \/ PayoutFails(c)
  \/ StartAudit(c)

Disburse(c) ==
  \/ \E p \in Payouts : CheckDisbursement(c, p)
  \/ RecordDisbursement(c)

Next ==
  \/ \E t \in Txs :
       \/ Create(t)
       \/ ConfirmPaymentEvents(t)
       \/ CancelTransaction(t) /\ UNCHANGED eventsVars
       \/ DisputeStep(t, 0) /\ UNCHANGED eventsVars
       \/ Submit(t)
  \/ \E c \in Callers : Payout(c) \/ Disburse(c)
  \/ \E u \in Users : (Freeze(u) \/ Unfreeze(u)) /\ UNCHANGED eventsVars

Spec == Init /\ [][Next]_vars

-----------------------------------------------------------------------------
(* Safety.                                                                 *)

\* Events settled by their invoices, and those settled as a whole: refunded, or
\* given to the seller by a dispute or like goods.
Processed(t) == status[t] = "RELEASED" /\ dispute[t].status = "NONE" /\ t \notin asGoods
PaidTo(t, outcome) == dispute[t].status = "RESOLVED" /\ dispute[t].outcome = outcome
GivenToSeller(t) == t \in asGoods \/ PaidTo(t, "RELEASE_TO_SELLER")
Approved(t) == {p \in FiledFor(t) : payoutStatus[p] = "APPROVED"}

\* An invoice is paid to a wallet once, by whichever of the two ways comes
\* first; beside the invoices a seller gets the budget once, by a dispute or
\* like goods and never by both; and no event is logged more often than
\* something was paid.
EachPayoutOnce ==
  \A t \in Txs :
    /\ rows[t].PAYMENT = (IF Paid(t) THEN 1 ELSE 0)
    /\ rows[t].RECEIVE_FUNDS = Cardinality(Approved(t))
                                 + (IF GivenToSeller(t) THEN 1 ELSE 0)
    /\ rows[t].REFUND = (IF status[t] = "REFUNDED" THEN 1 ELSE 0)
    /\ audits[t] + Cardinality({c \in Callers : call[c].stage = "committed" /\ EventOf(call[c].job) = t})
         <= Cardinality(advanced \cap FiledFor(t))
              + (IF Processed(t) \/ t \in asGoods THEN 1 ELSE 0)

\* An event that its seller was not given as a whole, by a dispute or like
\* goods, is RELEASED only when it has an invoice and all of them are paid, and
\* it stays so: no invoice is filed after the release, whoever settles it in
\* whichever way at the same time (ProcessEventVendorPayouts, "released ...
\* only when all vendors are settled").
ReleasedMeansSettled ==
  \A t \in Txs : status[t] = "RELEASED" /\ ~GivenToSeller(t) =>
                   FiledFor(t) # {} /\ FiledFor(t) = Approved(t)

\* The invoices of members never add up to more than the escrow less the 5%
\* fee, whatever is filed, paid or disbursed at the same time.
InternalClaimsWithinEscrow ==
  \A t \in Txs : Paid(t) => Total(AmountsOf(InternalOf(FiledFor(t)))) <= PayableEscrow(t)

\* What was drawn from a pledge is what was paid to its vendor, by both ways.
PledgesDrawnDown ==
  \A t \in Txs, v \in Vendors :
    drawn[t, v] = (IF pledged[t, v] > 0 THEN Total(AmountsOf(OfVendor(Approved(t), v))) ELSE 0)

\* The escrow balance: what was paid in, less what settled the events and what
\* was paid one invoice at a time.  Whoever gets an event as a whole gets all of
\* it, its invoices paid or not.
EventOut == [t \in Txs |->
  IF Processed(t) THEN Total(AmountsOf(FiledFor(t))) + EventPlatformFee(terms[t].gross)
  ELSE IF Settled(t) THEN terms[t].gross
  ELSE 0]

EscrowMatches ==
  finance.escrow =
    Total([t \in Txs |-> IF Paid(t) THEN terms[t].gross ELSE 0])
      - Total(EventOut) - Total(AmountsOf(advanced))

\* The platform earns its 5% on every event settled by its invoices, once, and
\* nothing on a disputed one or one released like goods.
RevenueMatches ==
  finance.revenue =
    Total([t \in Txs |-> IF Processed(t) THEN EventPlatformFee(terms[t].gross) ELSE 0])

\* Every wallet can be recomputed from the deals and the invoices.
ApprovedOf(u) == {p \in Payouts : payoutStatus[p] = "APPROVED" /\ invoice[p].vendor = u}
Debits(u) == [t \in Txs |-> IF Paid(t) /\ terms[t].buyer = u THEN terms[t].gross ELSE 0]
Settlements(u) == [t \in Txs |->
  IF \/ PaidTo(t, "REFUND_BUYER") /\ terms[t].buyer = u
     \/ GivenToSeller(t) /\ terms[t].seller = u
    THEN terms[t].gross ELSE 0]

WalletsReconcile ==
  \A u \in Users :
    balance[u] + Total(Debits(u))
      = InitialBalance[u] + Total(Settlements(u)) + Total(AmountsOf(ApprovedOf(u)))

\* The books are exact after every step, in whichever way, or in several, an
\* event is settled: what escrow holds, what the platform has earned and what
\* every wallet holds follow from the deals and the invoices, and from which of
\* them were paid one at a time or released like goods.
BooksMatch == EscrowMatches /\ RevenueMatches /\ WalletsReconcile

-----------------------------------------------------------------------------
(* What the test of money conservation says, and the code does not do.     *)

\* money_conservation_test.go: over a closed transaction lifecycle no rupiah is
\* created or destroyed.
ClosedDealsConserveMoney ==
  (\A t \in Txs : ~Held(t)) =>
    Total(balance) + finance.escrow + finance.revenue = Total(InitialBalance)
=============================================================================
