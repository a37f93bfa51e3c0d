--------------------------- MODULE ServicesEscrow ---------------------------
(***************************************************************************)
(* Services escrow of core-service: a contract whose base amount is locked *)
(* up front and paid out milestone by milestone, with the disputes, the    *)
(* wallets and the platform cash it shares with the other escrows, and the *)
(* milestone releases in flight.                                           *)
(*                                                                         *)
(* A milestone release reads the status of its milestone and never that of *)
(* its contract.  The model keeps to that, so a milestone may be released  *)
(* before the payment, during a dispute and after the settlement; what     *)
(* still holds then is stated here; the rule of the documents that this    *)
(* breaks is stated at the end, and is violated.                           *)
(*                                                                         *)
(* ReleaseFundsGoods reads the status of a transaction and never its type, *)
(* so a client may also release a whole contract by the route for goods,   *)
(* whatever its milestones have taken.                                     *)
(***************************************************************************)
EXTENDS Escrow

CONSTANTS
  Callers,           \* clients that may have a release request in flight
  MaxMilestones,     \* bound on the milestones of one contract
  NoJob,             \* what an idle client works on
  BaseAmounts,       \* base amounts a client may ask for
  MilestoneAmounts,  \* amounts a client may give to a milestone
  FailOpen           \* FRAUD_FAIL_OPEN: an unreachable fraud service is "safe"

\* A milestone row, named by its transaction and milestone_index.
Indexes == 1 .. MaxMilestones
Milestones == Txs \X Indexes

ASSUME MilestonesAssumption ==
  /\ MaxMilestones \in Nat
  /\ Milestones \cap Txs = {} /\ NoJob \notin Milestones \cup Txs
  /\ BaseAmounts \subseteq Int
  /\ MilestoneAmounts \subseteq Int
  /\ FailOpen \in BOOLEAN

VARIABLES
  plan,       \* service_milestones.amount of each milestone, 0 without a row
  released,   \* milestones whose status is RELEASED
  refunded,   \* the amount column of the REFUND row of each contract
  call,       \* release requests in flight, one per client
  audits      \* on-chain audit goroutines started per milestone and contract

servicesVars == <<plan, released, refunded, call, audits>>
vars == <<database, frozen, servicesVars>>

-----------------------------------------------------------------------------
\* The job of a call is a milestone, or a contract to be released as a whole.
Jobs == Milestones \cup Txs
Calls == [stage : {"idle", "screening", "cleared", "committed"}, job : Jobs \cup {NoJob}]
Idle == [stage |-> "idle", job |-> NoJob]

TypeOK ==
  /\ EscrowTypeOK
  /\ plan \in [Milestones -> Nat]
  /\ released \subseteq {m \in Milestones : plan[m] > 0}
  /\ refunded \in [Txs -> Nat]
  /\ call \in [Callers -> Calls]
  /\ \A c \in Callers : call[c].stage # "idle" =>
       call[c].job \in Txs \cup {m \in Milestones : plan[m] > 0}
  /\ audits \in [Jobs -> Nat]

Init ==
  /\ EscrowInit
  /\ plan = [m \in Milestones |-> 0]
  /\ released = {}
  /\ refunded = [t \in Txs |-> 0]
  /\ call = [c \in Callers |-> Idle]
  /\ audits = [job \in Jobs |-> 0]

-----------------------------------------------------------------------------
(* Creating, paying and disputing a contract.                              *)

\* A milestone breakdown as a request carries it, in the order of its indexes.
Breakdowns == UNION {[1 .. n -> MilestoneAmounts] : n \in 0 .. MaxMilestones}

\* Mutant: the milestones may add up to less or to more than the contract.
LockFundsServicesUnsummed(t, b, s, base, breakdown) ==
  /\ base > 0
  /\ DOMAIN breakdown # {}
  /\ \A i \in DOMAIN breakdown : breakdown[i] > 0
  /\ EnforceSellerLimit(s, base)
  /\ CreateTransaction(t, b, s, base, base - ServicesCommission(base))
  /\ plan' = [m \in Milestones |->
       IF m[1] = t /\ m[2] \in DOMAIN breakdown THEN breakdown[m[2]] ELSE plan[m]]
  /\ UNCHANGED <<released, refunded, call, audits>>

\* LockFundsServices: the row, its detail and its milestones, which must cover
\* the base amount exactly.  The buyer pays no fee.
LockFundsServices(t, b, s, base, breakdown) ==
  /\ base > 0
  /\ DOMAIN breakdown # {}
  /\ \A i \in DOMAIN breakdown : breakdown[i] > 0
  /\ Total(breakdown) = base
  /\ EnforceSellerLimit(s, base)
  /\ CreateTransaction(t, b, s, base, base - ServicesCommission(base))
  /\ plan' = [m \in Milestones |->
       IF m[1] = t /\ m[2] \in DOMAIN breakdown THEN breakdown[m[2]] ELSE plan[m]]
  /\ UNCHANGED <<released, refunded, call, audits>>

ConfirmPaymentServices(t) == ConfirmPayment(t) /\ UNCHANGED servicesVars

\* GetReleasedMilestonesTotalByTxID.
ReleasedAmounts == [m \in Milestones |-> IF m \in released THEN plan[m] ELSE 0]
ReleasedOf(t) == [m \in Milestones |-> IF m[1] = t THEN ReleasedAmounts[m] ELSE 0]
GetReleasedMilestonesTotal(t) == Total(ReleasedOf(t))

\* The dispute steps, and the amount the refund leaves in the ledger.
DisputeServices(t) ==
  /\ DisputeStep(t, GetReleasedMilestonesTotal(t))
  /\ refunded' = IF status'[t] = "REFUNDED"
       THEN [refunded EXCEPT ![t] = RefundAmount(t, GetReleasedMilestonesTotal(t))]
       ELSE refunded
  /\ UNCHANGED <<plan, released, call, audits>>

-----------------------------------------------------------------------------
(* ReleaseMilestoneFunds and ReleaseFundsGoods, cut where other actors may *)
(* move.                                                                   *)

SetCall(c, stage, job) == call' = [call EXCEPT ![c] = [stage |-> stage, job |-> job]]
EndCall(c) == call' = [call EXCEPT ![c] = Idle]

\* The pre-check: the milestone exists and is not RELEASED; the contract is
\* locked.
RequestRelease(c, job) ==
  /\ call[c] = Idle
  /\ \/ job \in Milestones /\ plan[job] > 0 /\ job \notin released
     \/ job \in Txs /\ status[job] = "FUNDS_LOCKED"
  /\ SetCall(c, "screening", job)
  /\ UNCHANGED <<database, frozen, plan, released, refunded, audits>>

Screen(c, verdict) ==
  /\ call[c].stage = "screening"
  /\ IF verdict = "safe" \/ (verdict = "unavailable" /\ FailOpen)
       THEN SetCall(c, "cleared", call[c].job)
       ELSE EndCall(c)
  /\ UNCHANGED <<database, frozen, plan, released, refunded, audits>>

\* Mutant: the commission stays behind in escrow.
PayMilestoneKeepsCommission(m) ==
  /\ UpdateBalance(m[1], "RECEIVE_FUNDS", terms[m[1]].seller,
                   plan[m] - ServicesCommission(plan[m]))
  /\ UpdateFinance(-(plan[m] - ServicesCommission(plan[m])), 0, 0)

\* The seller gets the milestone less its commission; all of it leaves escrow.
PayMilestone(m) ==
  /\ UpdateBalance(m[1], "RECEIVE_FUNDS", terms[m[1]].seller,
                   plan[m] - ServicesCommission(plan[m]))
  /\ UpdateFinance(-plan[m], ServicesCommission(plan[m]), 0)

\* Mutant: the unit of work does not read the milestone again.
CommitMilestoneUnchecked(c) ==
  LET m == call[c].job IN
  /\ call[c].stage = "cleared" /\ m \in Milestones
  /\ PayMilestone(m)
  /\ released' = released \cup {m}
  /\ SetCall(c, "committed", m)
  /\ UNCHANGED <<status, terms, dispute, frozen, plan, refunded, audits>>

\* The unit of work, with the status of the milestone read again.
CommitMilestone(c) ==
  LET m == call[c].job IN
  /\ call[c].stage = "cleared" /\ m \in Milestones
  /\ m \notin released
  /\ PayMilestone(m)
  /\ released' = released \cup {m}
  /\ SetCall(c, "committed", m)
  /\ UNCHANGED <<status, terms, dispute, frozen, plan, refunded, audits>>

\* The unit of work of ReleaseFundsGoods: the seller gets the whole net amount.
CommitContract(c) ==
  LET t == call[c].job IN
  /\ call[c].stage = "cleared" /\ t \in Txs
  /\ ReleaseFundsGoods(t)
  /\ SetCall(c, "committed", t)
  /\ UNCHANGED <<plan, released, refunded, audits>>

\* The unit of work fails, or the process dies with the call in flight.
ReleaseFails(c) ==
  /\ call[c].stage \in {"cleared", "committed"}
  /\ EndCall(c)
  /\ UNCHANGED <<database, frozen, plan, released, refunded, audits>>

StartAudit(c) ==
  /\ call[c].stage = "committed"
  /\ audits' = [audits EXCEPT ![call[c].job] = @ + 1]
  /\ EndCall(c)
  /\ UNCHANGED <<database, frozen, plan, released, refunded>>

-----------------------------------------------------------------------------
\* The id of a new row is fresh.
Create(t) ==
  /\ status[t] = "NONE"
  /\ \E b, s \in Users, base \in BaseAmounts, breakdown \in Breakdowns :
       LockFundsServices(t, b, s, base, breakdown)

Release(c) ==
  \/ \E job \in Jobs : RequestRelease(c, job)
  \/ \E verdict \in {"safe", "unsafe", "unavailable"} : Screen(c, verdict)
  \/ CommitMilestone(c)
  \/ CommitContract(c)
  \/ ReleaseFails(c)
  \/ StartAudit(c)

Next ==
  \/ \E t \in Txs :
       \/ Create(t)
       \/ ConfirmPaymentServices(t)
       \/ CancelTransaction(t) /\ UNCHANGED servicesVars
       \/ DisputeServices(t)
  \/ \E c \in Callers : Release(c)
  \/ \E u \in Users : (Freeze(u) \/ Unfreeze(u)) /\ UNCHANGED servicesVars

Spec == Init /\ [][Next]_vars

-----------------------------------------------------------------------------
(* Safety: what holds whenever milestones are released.                    *)

ReleasedMilestones(t) == {m \in released : m[1] = t}

PaidIn == [t \in Txs |-> IF Paid(t) THEN terms[t].gross ELSE 0]
PaidOut == [t \in Txs |-> IF status[t] = "RELEASED" THEN terms[t].gross ELSE 0]

\* The escrow balance is what came in less what went out to milestones, to
\* refunds and to settlements, whatever the order of webhooks, milestone
\* releases and disputes.
EscrowMatches ==
  finance.escrow = Total(PaidIn) - Total(PaidOut) - Total(ReleasedAmounts) - Total(refunded)

\* Revenue is exactly the commission of the released milestones and what was
\* kept back from the contracts settled for the seller.
RevenueMatches ==
  finance.revenue =
    Total([m \in Milestones |-> ServicesCommission(ReleasedAmounts[m])])
      + Total([t \in Txs |-> IF status[t] = "RELEASED" THEN terms[t].gross - terms[t].net ELSE 0])

\* The clients that have released a milestone, or a contract as a whole, and
\* not started its audit goroutine yet.
Committed(job) == {c \in Callers : call[c] = [stage |-> "committed", job |-> job]}

\* The milestones, and the contracts released by the route for goods.
Done == released \cup {t \in Txs : status[t] = "RELEASED" /\ dispute[t].status = "NONE"}

\* A milestone is paid once and logged at most once, however many requests
\* for it are in flight: the ledger has one row for each released milestone,
\* and one for a settlement.  Nor is a contract settled or logged twice, however
\* milestones, releases as a whole and disputes overtake each other.
EachMilestoneOnce ==
  /\ \A job \in Jobs : audits[job] + Cardinality(Committed(job)) <= (IF job \in Done THEN 1 ELSE 0)
  /\ \A t \in Txs :
       /\ rows[t].PAYMENT = (IF Paid(t) THEN 1 ELSE 0)
       /\ rows[t].RECEIVE_FUNDS = Cardinality(ReleasedMilestones(t))
                                    + (IF status[t] = "RELEASED" THEN 1 ELSE 0)
       /\ rows[t].REFUND = (IF status[t] = "REFUNDED" THEN 1 ELSE 0)

\* The milestones never take more out of a paid and unsettled contract than
\* the buyer has paid in, so the refund of a dispute is never cut off at zero.
MilestonesWithinEscrow ==
  \A t \in Txs : Held(t) => GetReleasedMilestonesTotal(t) <= terms[t].gross

\* Every wallet can be recomputed from the ledger.
MilestonePay(u) == [m \in Milestones |->
  IF m \in released /\ terms[m[1]].seller = u
    THEN plan[m] - ServicesCommission(plan[m]) ELSE 0]
Settlements(u) == [t \in Txs |->
  IF status[t] = "RELEASED" /\ terms[t].seller = u THEN terms[t].net ELSE 0]
Refunds(u) == [t \in Txs |->
  IF status[t] = "REFUNDED" /\ terms[t].buyer = u THEN refunded[t] ELSE 0]
Debits(u) == [t \in Txs |-> IF Paid(t) /\ terms[t].buyer = u THEN terms[t].gross ELSE 0]

WalletsReconcile ==
  \A u \in Users :
    balance[u] + Total(Debits(u))
      = InitialBalance[u] + Total(MilestonePay(u)) + Total(Settlements(u)) + Total(Refunds(u))

\* The books are exact after every step, to the rounding of each milestone's
\* commission: what escrow holds, what the platform has earned and what every
\* wallet holds follow from the contracts and their milestones alone.
BooksMatch == EscrowMatches /\ RevenueMatches /\ WalletsReconcile

\* A refund settles a contract to the last rupiah: the milestones released
\* before it and the refund make up the gross amount (dispute_usecase.go: only
\* the escrow still held is refunded).
RefundSettles ==
  [][\A t \in Txs : status[t] # "REFUNDED" /\ status'[t] = "REFUNDED" =>
       /\ refunded'[t] + GetReleasedMilestonesTotal(t) = terms[t].gross
       /\ finance'.escrow = finance.escrow - refunded'[t]]_vars

-----------------------------------------------------------------------------
(* What the documents say of the contract behind a milestone.              *)

\* INV-03 of DDD.md: no escrow is released while a dispute is active.
NoReleaseWhileDisputed ==
  [][\A m \in Milestones : m \in released' \ released =>
       dispute[m[1]].status \notin {"OPEN", "UNDER_REVIEW"}]_vars
=============================================================================
