----------------------------- MODULE GoodsEscrow -----------------------------
(***************************************************************************)
(* Goods escrow of core-service: the life of a goods transaction from      *)
(* LockFundsGoods to its settlement, the disputes that freeze it, the      *)
(* wallets and the platform cash it moves money between, the release calls *)
(* in flight and the hourly auto-release worker.                           *)
(*                                                                         *)
(* What the code does outside a unit of work (the pre-check read of        *)
(* ReleaseFundsGoods, the call to the fraud service, the scan of the       *)
(* worker, the start of the audit goroutine) is a step of its own, and any *)
(* other actor may move between two of them.                               *)
(***************************************************************************)
EXTENDS Escrow

CONSTANTS
  Callers,          \* clients that may have a release request in flight
  Worker,           \* the auto-release goroutine
  NoTx,             \* "no transaction"
  BaseAmounts,      \* amounts a client may ask for
  ShippingFees,     \* shipping fees a client may ask for
  SellerTiers,      \* tiers a client may name, some of the three
  FailOpen,         \* FRAUD_FAIL_OPEN: an unreachable fraud service is "safe"
  MaxCrashes        \* bound on the number of process crashes

ASSUME CallersAssumption ==
  /\ Worker \notin Callers
  /\ NoTx \notin Txs

ASSUME AmountsAssumption ==
  /\ BaseAmounts \subseteq Int
  /\ ShippingFees \subseteq Nat
  /\ SellerTiers \subseteq Tiers
  /\ FailOpen \in BOOLEAN
  /\ MaxCrashes \in Nat

VARIABLES
  expired,    \* transactions whose auto_confirm_deadline has passed
  call,       \* ReleaseFundsGoods calls in flight, one per caller
  queue,      \* ids the worker scanned and has not processed yet
  audits,     \* on-chain audit goroutines started per transaction
  crashes     \* process crashes so far

goodsVars == <<expired, call, queue, audits, crashes>>
vars == <<database, frozen, goodsVars>>

-----------------------------------------------------------------------------
Actors == Callers \cup {Worker}
Calls == [stage : {"idle", "screening", "cleared", "committed"}, tx : Txs \cup {NoTx}]
Idle == [stage |-> "idle", tx |-> NoTx]

TypeOK ==
  /\ EscrowTypeOK
  /\ expired \subseteq Txs
  /\ call \in [Actors -> Calls]
  /\ \A a \in Actors : call[a].stage # "idle" => call[a].tx \in Txs
  /\ queue \subseteq Txs
  /\ audits \in [Txs -> Nat]
  /\ crashes \in Nat

Init ==
  /\ EscrowInit
  /\ expired = {}
  /\ call = [a \in Actors |-> Idle]
  /\ queue = {}
  /\ audits = [t \in Txs |-> 0]
  /\ crashes = 0

-----------------------------------------------------------------------------
(* Creating and paying a deal.                                             *)

\* LockFundsGoods: the row and its goods detail.  The deadline is only
\* required to be a date, so it may be past.
LockFundsGoods(t, b, s, base, isRekberPay, tier, shippingFee, overdue) ==
  /\ base > 0
  /\ EnforceSellerLimit(s, base)
  /\ CreateTransaction(t, b, s,
       base + CalculateBuyerServiceFee(base, isRekberPay, tier) + shippingFee,
       base - CalculateSellerServiceFee(base, tier))
  /\ expired' = IF overdue THEN expired \cup {t} ELSE expired
  /\ UNCHANGED <<call, queue, audits, crashes>>

ConfirmPaymentGoods(t) == ConfirmPayment(t) /\ UNCHANGED goodsVars

-----------------------------------------------------------------------------
(* ReleaseFundsGoods, one step for each stretch of it that other actors    *)
(* cannot interrupt: the pre-check read, the answer of the fraud service,  *)
(* the unit of work, the start of the audit goroutine.                     *)

SetCall(a, stage, t) == call' = [call EXCEPT ![a] = [stage |-> stage, tx |-> t]]
EndCall(a) == call' = [call EXCEPT ![a] = Idle]

RequestRelease(c, t) ==
  /\ call[c] = Idle
  /\ status[t] = "FUNDS_LOCKED"
  /\ SetCall(c, "screening", t)
  /\ UNCHANGED <<database, expired, frozen, queue, audits, crashes>>

\* The fraud service answers, or cannot be reached.
Screen(a, verdict) ==
  /\ call[a].stage = "screening"
  /\ IF verdict = "safe" \/ (verdict = "unavailable" /\ FailOpen)
       THEN SetCall(a, "cleared", call[a].tx)
       ELSE EndCall(a)
  /\ UNCHANGED <<database, expired, frozen, queue, audits, crashes>>

\* Mutant: the unit of work trusts the pre-check and does not read the status.
CommitReleaseUnchecked(a) ==
  LET t == call[a].tx IN
  /\ call[a].stage = "cleared"
  /\ PaySeller(t)
  /\ SetCall(a, "committed", t)
  /\ UNCHANGED <<terms, expired, dispute, frozen, queue, audits, crashes>>

\* Mutant: the unit of work only asks whether the money is still held.
CommitReleaseHeld(a) ==
  LET t == call[a].tx IN
  /\ call[a].stage = "cleared"
  /\ status[t] \in {"FUNDS_LOCKED", "DISPUTED"}
  /\ PaySeller(t)
  /\ SetCall(a, "committed", t)
  /\ UNCHANGED <<terms, expired, dispute, frozen, queue, audits, crashes>>

\* The unit of work, with the status read again under the row lock.
CommitRelease(a) ==
  LET t == call[a].tx IN
  /\ call[a].stage = "cleared"
  /\ ReleaseFundsGoods(t)
  /\ SetCall(a, "committed", t)
  /\ UNCHANGED <<expired, queue, audits, crashes>>

\* Mutant: a failing id ends the pass of the worker, whatever is left of it.
ReleaseFailsAndStops(a) ==
  /\ call[a].stage = "cleared"
  /\ EndCall(a)
  /\ queue' = IF a = Worker THEN {} ELSE queue
  /\ UNCHANGED <<database, expired, frozen, audits, crashes>>

\* The unit of work fails: the status has moved on, the seller's wallet is
\* frozen, or the database reports a serialization failure.
ReleaseFails(a) ==
  /\ call[a].stage = "cleared"
  /\ EndCall(a)
  /\ UNCHANGED <<database, expired, frozen, queue, audits, crashes>>

\* logAuditOnChain starts its goroutine and the call returns.
StartAudit(a) ==
  /\ call[a].stage = "committed"
  /\ audits' = [audits EXCEPT ![call[a].tx] = @ + 1]
  /\ EndCall(a)
  /\ UNCHANGED <<database, expired, frozen, queue, crashes>>

-----------------------------------------------------------------------------
(* The auto-release worker: an hourly scan keeps the ids it found, then    *)
(* calls ReleaseFundsGoods for one after the other and skips what fails.   *)

GetExpiredLockedTransactions == {t \in expired : status[t] = "FUNDS_LOCKED"}

\* A list that is cut off while it is read passes for the whole list (the query
\* does not ask rows.Err), so a scan may miss some of what is due.
WorkerScan ==
  /\ queue = {} /\ call[Worker] = Idle
  /\ queue' \in (SUBSET GetExpiredLockedTransactions) \ {{}}
  /\ UNCHANGED <<database, expired, frozen, call, audits, crashes>>

WorkerTake(t) ==
  /\ t \in queue /\ call[Worker] = Idle
  /\ queue' = queue \ {t}
  /\ IF status[t] = "FUNDS_LOCKED" THEN SetCall(Worker, "screening", t)
                                   ELSE UNCHANGED call
  /\ UNCHANGED <<database, expired, frozen, audits, crashes>>

-----------------------------------------------------------------------------
(* The environment: time and the process.                                  *)

DeadlinePasses(t) ==
  /\ status[t] # "NONE"
  /\ t \notin expired
  /\ expired' = expired \cup {t}
  /\ UNCHANGED <<database, frozen, call, queue, audits, crashes>>

\* The process dies and starts again: the calls in flight and the worker's
\* scan are lost, the database is not.
Crash ==
  /\ crashes < MaxCrashes
  /\ crashes' = crashes + 1
  /\ call' = [a \in Actors |-> Idle]
  /\ queue' = {}
  /\ UNCHANGED <<database, expired, frozen, audits>>

-----------------------------------------------------------------------------
Create(t) ==
  \E b, s \in Users, base \in BaseAmounts, isRekberPay, overdue \in BOOLEAN,
     tier \in SellerTiers, shippingFee \in ShippingFees :
    LockFundsGoods(t, b, s, base, isRekberPay, tier, shippingFee, overdue)

Release(a) ==
  \/ \E verdict \in {"safe", "unsafe", "unavailable"} : Screen(a, verdict)
  \/ CommitRelease(a)
  \/ ReleaseFails(a)
  \/ StartAudit(a)

Next ==
  \/ \E t \in Txs :
       \/ Create(t)
       \/ ConfirmPaymentGoods(t)
       \/ CancelTransaction(t) /\ UNCHANGED goodsVars
       \/ DisputeStep(t, 0) /\ UNCHANGED goodsVars
       \/ \E c \in Callers : RequestRelease(c, t)
       \/ WorkerTake(t)
       \/ DeadlinePasses(t)
  \/ \E a \in Actors : Release(a)
  \/ WorkerScan
  \/ \E u \in Users : (Freeze(u) \/ Unfreeze(u)) /\ UNCHANGED goodsVars
  \/ Crash

Spec == Init /\ [][Next]_vars

-----------------------------------------------------------------------------
(* Safety.                                                                 *)

HeldAmounts == [t \in Txs |-> IF Held(t) THEN terms[t].gross ELSE 0]
Retentions == [t \in Txs |->
  IF status[t] = "RELEASED" THEN terms[t].gross - terms[t].net ELSE 0]

\* The platform's escrow balance is exactly what buyers have paid into deals
\* that are locked or disputed: whatever the order of webhooks, release calls,
\* worker passes, disputes and crashes, no deal is entered or left twice.
EscrowMatches == finance.escrow = Total(HeldAmounts)

\* Revenue is exactly what was kept back from released deals, and nothing is
\* charged for a refund (dispute_usecase.go: the platform takes no fee).
RevenueMatches == finance.revenue = Total(Retentions) /\ finance.midtransFees = 0

\* Money is only moved: wallets, escrow and revenue always add up to what the
\* wallets held at the start (the claim of money_conservation_test.go, here
\* for every interleaving and not after single-threaded flows).
MoneyConserved ==
  Total(balance) + finance.escrow + finance.revenue = Total(InitialBalance)

\* The ledger tells the status: a deal has one PAYMENT row exactly when its
\* money came in, one RECEIVE_FUNDS row exactly when it was released and one
\* REFUND row exactly when it was refunded.
LedgerMatchesStatus ==
  \A t \in Txs :
    /\ rows[t].PAYMENT       = IF Paid(t) THEN 1 ELSE 0
    /\ rows[t].RECEIVE_FUNDS = IF status[t] = "RELEASED" THEN 1 ELSE 0
    /\ rows[t].REFUND        = IF status[t] = "REFUNDED" THEN 1 ELSE 0

\* What the ledger rows of a deal took from and gave to one wallet.
Debits(u) == [t \in Txs |->
  IF status[t] # "NONE" /\ terms[t].buyer = u THEN rows[t].PAYMENT * terms[t].gross ELSE 0]
Payouts(u) == [t \in Txs |->
  IF status[t] # "NONE" /\ terms[t].seller = u THEN rows[t].RECEIVE_FUNDS * terms[t].net ELSE 0]
Refunds(u) == [t \in Txs |->
  IF status[t] # "NONE" /\ terms[t].buyer = u THEN rows[t].REFUND * terms[t].gross ELSE 0]

\* Every wallet balance can be recomputed from its ledger rows: no movement
\* without a row, no row without its movement, none on the wrong wallet.
WalletsReconcile ==
  \A u \in Users : balance[u] + Total(Debits(u))
                     = InitialBalance[u] + Total(Payouts(u)) + Total(Refunds(u))

\* a has released t and has not started the audit goroutine yet.
Committed(a, t) == call[a] = [stage |-> "committed", tx |-> t]

\* At most one audit record is started for a deal, by the one call whose unit
\* of work released it: of two calls that both passed the pre-check and the
\* fraud screening one never logs, and a settlement by dispute is not logged.
AuditedOnce ==
  \A t \in Txs :
    /\ audits[t] <= 1
    /\ \A a \in Actors : Committed(a, t) =>
         audits[t] = 0 /\ \A b \in Actors : Committed(b, t) => b = a
    /\ audits[t] = 1 \/ (\E a \in Actors : Committed(a, t)) =>
         status[t] = "RELEASED" /\ dispute[t].status = "NONE"

\* Status only moves along the escrow state machine, and the step that settles
\* a deal has the authority for it: the answer of an administrator when it was
\* disputed (INV-03 of DDD.md: no release while a dispute is active), a screened
\* release call when it was not.
Authorised(t) ==
  /\ <<status[t], status'[t]>> \in
       {<<"NONE", "WAITING_PAYMENT">>, <<"WAITING_PAYMENT", "FUNDS_LOCKED">>,
        <<"WAITING_PAYMENT", "CANCELLED">>, <<"FUNDS_LOCKED", "DISPUTED">>,
        <<"FUNDS_LOCKED", "RELEASED">>, <<"DISPUTED", "RELEASED">>,
        <<"DISPUTED", "REFUNDED">>}
  /\ (status'[t] = "RELEASED" /\ dispute[t].status # "NONE")
       => dispute[t].status = "UNDER_REVIEW" /\ dispute'[t].outcome = "RELEASE_TO_SELLER"
  /\ (status'[t] = "RELEASED" /\ dispute[t].status = "NONE")
       => \E a \in Actors : call[a] = [stage |-> "cleared", tx |-> t]

SettlementAuthorised ==
  [][\A t \in Txs : status'[t] # status[t] => Authorised(t)]_vars

-----------------------------------------------------------------------------
(* Liveness.                                                               *)

(***************************************************************************)
(* The ticker fires every hour and the loop of the worker always goes on   *)
(* to the next id (weak fairness of its own steps).  A deal that is due    *)
(* hour after hour is not cut off from every list, one that is screened    *)
(* hour after hour is found safe in the end, and a unit of work that is    *)
(* tried again and again commits in the end (strong fairness: the          *)
(* connection, the fraud score and the serialization failures are the      *)
(* environment's).                                                         *)
(* Nothing is assumed of clients, disputes, administrators or freezes.     *)
(***************************************************************************)
WorkerFairness ==
  /\ \A t \in Txs :
       /\ SF_vars(WorkerScan /\ t \in queue')
       /\ WF_vars(WorkerTake(t))
       /\ SF_vars(call[Worker].tx = t /\ Screen(Worker, "safe"))
       /\ SF_vars(call[Worker].tx = t /\ CommitRelease(Worker))
  /\ WF_vars(ReleaseFails(Worker))
  /\ WF_vars(StartAudit(Worker))

FairSpec == Spec /\ WorkerFairness

\* A locked deal past its deadline whose seller can be paid.
Overdue(t) ==
  /\ t \in expired
  /\ status[t] = "FUNDS_LOCKED"
  /\ terms[t].seller \notin frozen

\* No deal stays overdue for ever: the worker pays the seller unless somebody
\* settles or disputes the deal first, or the seller's wallet is frozen.  In
\* particular one deal that fails hour after hour does not hold up another,
\* and a crash in the middle of a pass loses none.
ExpiredDealsAreReleased == \A t \in Txs : Overdue(t) ~> ~Overdue(t)
=============================================================================
