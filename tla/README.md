# Formal verification of the Rekberkuy core service

Rekberkuy is an escrow platform: a buyer pays into escrow, and the money goes to
the seller when the buyer confirms, when a deadline passes, milestone by
milestone, or as an administrator rules in a dispute.  Almost all of its logic
that can go wrong in a way a unit test would hardly reach is in
`src/apps/core-service` (Go), with the audit contract
`src/blockchain/contracts/TransactionLogger.sol`.  This directory holds TLA+
modules of that logic, the TLC configurations that check them on small
instances, and TLAPS proofs, for every instance, of every safety property that a
passing run checks: of the three escrows, the refinement of an abstract escrow, the
wallet, the audit log, idempotency keys, membership and the loyalty evaluation.
`PROJECT.json` maps every definition to the lines it models.

Paths below are relative to `src/apps/core-service/internal/` unless they begin
with another directory of the repository.

## 1. Inventory

### Components, state, operations

| component | code | state | operations |
|---|---|---|---|
| goods escrow | `usecase/transaction_goods_usecase.go` | a row of `transactions` with its status and fixed amounts | LockFundsGoods, ConfirmPaymentGoods (webhook), CancelTransaction, ReleaseFundsGoods |
| services escrow | `usecase/transaction_services_usecase.go` | the row, its `service_milestones` | LockFundsServices, ConfirmPayment, ReleaseMilestoneFunds |
| events escrow | `usecase/transaction_events_usecase.go`, `usecase/disbursement_usecase.go` | the row, `event_vendor_allocations` (pledges), `event_vendor_payouts` (invoices) | LockFundsEvents, SubmitEventVendorInvoice, ProcessEventVendorPayouts, ReleaseEventMilestonePayout, MarkExternalPayoutDisbursed |
| disputes | `usecase/dispute_usecase.go` | one `disputes` row per transaction | Open, Acknowledge, Resolve (refund or release) |
| auto-release worker | `worker/auto_release_worker.go` | a scan of ids in memory | hourly scan, ReleaseFundsGoods on one id after the other |
| wallets and finance | `repository/wallet_repository.go`, `repository/finance_repository.go`, `repository/unit_of_work.go` | `rekberpay_wallets`, ledger rows, the one `platform_finances` row | UpdateBalanceTx, UpdatePlatformFinance, unit of work |
| top-up | `usecase/wallet_usecase.go`, `delivery/handlers/midtrans_webhook_handler.go` | a draft ledger row per order | TopUpWallet, ConfirmTopUp, MarkTopUpFailed |
| withdrawals | `usecase/withdrawal_usecase.go` | `withdrawals` | RequestWithdrawal, MarkWithdrawalDisbursed |
| fees | `usecase/finance_calculator.go`, `domain/finance.go`, `usecase/seller_limit.go` | none | buyer fee, seller fee, event fee, member cap, tier evaluation |
| audit log | `usecase/audit_helper.go`, `relayer/relayer.go`, `TransactionLogger.sol` | `transactions.blockchain_tx_hash`, events on the chain | goroutine, LogTransactionOnChain, UpdateBlockchainLog |
| audit reconciler | `worker/audit_reconciler_worker.go` | a batch of gaps in memory | ReconcileOnce, FindLoggedTransaction |
| idempotency | `delivery/handlers/idempotency_middleware.go`, `repository/idempotency_*.go` | a record per key in PostgreSQL or Redis | CheckOrLock, SaveResponse, replay |
| accounts | `usecase/auth_usecase.go`, `delivery/handlers/auth_middleware.go` | `user_profiles.role`, the roles in unexpired tokens | Register, Login, RequireRole, expiry |
| KYC | `usecase/kyc_usecase.go`, `repository/kyc_repository.go` | one `kyc_submissions` row per member | SubmitUserKYC, SaveKYCAIResult, ReviewKYC |
| CRM worker | `worker/crm_worker.go`, `usecase/finance_calculator.go` | a `crm_loyalty` row per member, a batch in memory | monthly evaluation |
| reviews | `usecase/review_usecase.go` | one `reviews` row per deal | CreateReview, average rating |
| the rest | catalog, vendor directory, query API, HTTP handlers, migrations, `src/backend-ai`, `src/apps/dashboard-web`, `src/e2e-qa` | | single-row inserts, reads, rendering, scoring |

### How they interact

* The HTTP handlers call one use case each.  Handlers of money operations sit
  behind the idempotency middleware.
* A use case changes the database in a **unit of work**: one Serializable
  transaction, rows locked with `FOR UPDATE`.  It commits whole or not at all.
* Between units of work there are reads outside any transaction, calls to the
  fraud service before a release, and a goroutine after it that logs the release
  on chain.  These are the places where other actors move.
* The payment gateway calls the webhook; the order prefix selects the use case.
* ReleaseFundsGoods reads the status of a transaction and never its type
  (`usecase/transaction_goods_usecase.go:127, 153`), and neither its handler, its
  route nor `GetTransactionByID` does.  A locked services contract or event can
  therefore be released like goods, and all three escrow modules have that action.
* The worker calls the same ReleaseFundsGoods a client does.  The reconciler
  calls the same relayer the goroutine does.
* An approved KYC submission changes the member's role.  The role is read by the
  seller limit when a deal is created and by the CRM worker when a month begins;
  the routes read the role in the token instead.
* The CRM worker reads the reviews buyers leave on released deals.
* All three escrows, the top-ups and the withdrawals share the wallets and the
  one finance row.

### What is hard

Concurrency: several releases of one deal; a release against a dispute; a
milestone against a refund; two ways of paying one event invoice, and the
release of goods that goes past both; invoices filed against a shared cap; two
administrators. Failure: crash between commit and goroutine, in the middle of a
worker's pass, between a draft and the order at the gateway; one frozen wallet
in a settlement of many; a lost answer from a node; a list that breaks off while
it is read and passes for the whole. Ordering and repetition: webhooks repeated,
late and out of order; broadcasts mined after their receipt timed out; requests
retried with the same key. Time: the auto-release deadline, the grace hour and
the scan range of the reconciler, the expiry of a Redis key. Arithmetic: integer
percentages rounded per deal, per milestone and per event. `PROJECT.json` lists
each at its line with the property that would catch it. Stale copies: a token's
role after a promotion, the roles of a batch, a score computed from documents
that were replaced while the AI service looked at them.

### What makes each part correct

* Escrows: the escrow balance is the money of the open deals; revenue is what
  was kept from the settled ones; wallets can be recomputed from the ledger; no
  money appears or disappears; status, dispute and ledger agree; a settlement
  has an authority behind it; nothing is paid or logged twice.
* Worker: an overdue deal does not stay overdue.
* Wallet: credits are paid for, repeated notices are harmless, fees add up.
* Audit: one entry per release, stored hashes point at entries, each release is
  recorded in the end.
* Idempotency: one execution and one answer per key.
* Membership: an approval and its promotion go together, a decision stands until
  the member submits again, a score belongs to the submission it is shown with.
* Loyalty: each member on the list once a month, whatever happens to another.

## 2. Modules

```
                                    EscrowPromise
                                          │ (INSTANCE)
Money ── FinanceCalculator ── Escrow ─┬─ GoodsEscrow ── GoodsRefinement ── MCGoodsEscrow
  │                                   ├─ ServicesEscrow ── MCServicesEscrow
  ├─ Wallet ── MCWallet               └─ EventsEscrow ──── MCEventsEscrow
  ├─ Loyalty ── MCLoyalty
  │
MoneyProofs ─┬─ EscrowProofs ─┬─ GoodsEscrowProofs     GoodsEscrow, GoodsRefinement
             │                ├─ ServicesEscrowProofs  ServicesEscrow
             │                └─ EventsEscrowProofs    EventsEscrow
             └─ WalletProofs                           Wallet

AuditLog ── MCAuditLog   Idempotency ── MCIdempotency   Membership ── MCMembership
WorkerProofs             Loyalty and AuditLog
AccessProofs             Membership and Idempotency
```

| module | stands for | state in the module / in the code |
|---|---|---|
| `Money` | adding amounts up | `Total(f)`, the sum of a function, as the number of its coins |
| `FinanceCalculator` | fees of goods, services and events, member cap | operators only |
| `Escrow` | what the three escrows share, `ReleaseFundsGoods` included | `status`, `terms` (columns fixed at creation), `dispute`, `balance`, `frozen`, `rows` (ledger rows per deal and type), `finance` |
| `GoodsEscrow` | goods deals, their disputes, the auto-release worker | adds `expired` (deadline passed), `call` (ReleaseFundsGoods in flight, one per client and one for the worker), `queue` (the worker's scan), `audits` (goroutines started), `crashes` |
| `ServicesEscrow` | contracts with milestones | adds `plan` (milestone amounts), `released`, `refunded`, `call` (on a milestone, or on a contract released like goods), `audits` (per milestone, and per contract released like goods) |
| `EventsEscrow` | events, pledges, invoices, bank payouts | adds `pledged`, `drawn`, `invoice`, `payoutStatus`, `call`, `audits`, and the history variables `advanced` (invoices paid one at a time) and `asGoods` (events released like goods) |
| `Wallet` | top-ups, gateway, webhook, withdrawals | `order`, `draft`, `credits`, `snap` (the order at the gateway), `notices`, `withdrawal`, `revenue`, `midtransFees`, and the history variable `reversed` |
| `AuditLog` | audit goroutines, relayer, chain, reconciler | `milestones`, `releases`, `fresh` (inside the grace hour), `hash`, `chain`, `early` (entries before the scanned range), `thread`, `queue`, `restarts` |
| `Idempotency` | the middleware and its two stores | `record`, `request`, `runs`, `answers`, `expiries` |
| `EscrowPromise` | what an escrow promises the parties of a deal, and nothing of how | `phase`, `agreement`, `wallet`, `vault`, `earned`; no code |
| `GoodsRefinement` | the mapping of `GoodsEscrow` to `EscrowPromise` | none of its own |
| `Membership` | accounts, tokens, KYC | `role`, `tokens`, `kyc` (with `version`, the number of submissions, and for the score the version it was computed from), `verifying` (requests that wait for backend-ai), and the history variable `overtaken` |
| `Loyalty` | reviews, the CRM worker | `role`, `released`, `review`, `crm`, `month`, `batch` (listed and not reached), `crashes`, and the history variables `listed` (who was on the month's list), `evaluations`, `spared`, `lost` |
| `*Proofs` | theorems about the modules named in the diagram | |
| `MC*` | values of the constants for TLC, symmetry | |

### From the code to actions

A unit of work is one action.  Everything a use case does outside one is an
action of its own, so that any other actor may move before it.  A release is the
typical case:

| stretch of `ReleaseFundsGoods` | action |
|---|---|
| read the deal, refuse if not FUNDS_LOCKED (:127) | `RequestRelease`, for the worker `WorkerTake` |
| the fraud service answers, refuses, or is unreachable | `Screen` |
| unit of work: read the status again under the lock, credit the seller, set RELEASED, update the finance row | `CommitRelease` |
| the unit of work fails: status moved on, wallet frozen, serialization failure | `ReleaseFails` |
| start the audit goroutine and return | `StartAudit` |

The same stretches, with `CommitContract` and `CommitGoods` for the unit of work,
release a services contract and an event as a whole.  `ReleaseMilestoneFunds` and
the two ways of paying invoices are cut in the same places.

Two lists are read outside every unit of work by loops that never ask
`rows.Err()`, so a connection that breaks off in the middle yields a shorter list
and no error: `GetExpiredLockedTransactions`
(`repository/transaction_repository.go:175-182`) and
`GetAllUsersForCRMEvaluation` (`repository/wallet_repository.go:176-187`).
`WorkerScan` and `StartBatch` therefore take any subset.  The loop over the
invoices of an event (`repository/transaction_repository.go:366-373`) has the same
gap, but settles nothing: it runs inside the unit of work, whose transaction cannot
commit once its connection or statement has failed.

`SubmitUserKYC` is cut between the write of the row and the write of the score,
with the call to backend-ai between them.  The monthly evaluation is cut between
its members, whose roles are those of the beginning.

A mutator that refuses leaves the database alone, so a refusal is an action that
is not enabled, except where the caller's own state moves on (`ReleaseFails`,
`PayoutFails`, `Fail`).  The webhook acknowledges what it does not act on; that
is a stutter.

The variables and the specifications of `AuditLog` and `Idempotency` carry the
name of their module (`auditVars`, `IdempotencySpec`) because one proof module
extends each of them together with another component, with which it shares no
state.  The gaps of the audit log are a set, and a cycle any sequence of the
oldest of them (`Oldest`, of which there is exactly one): a definition by filtering
the sequence of releases would be recursive and out of the provers' reach.

Operators whose comment begins with "Mutant:" are faulty variants of the
definition below them.  No behaviour uses them.  `PROJECT.json` pairs each with
the property that it must break; this is how every property is known to depend
on the code it is about.

### What the refinement says

`EscrowPromise` knows members who agree on a deal, pay, contest, and a vault
that gives the whole price to the seller, less the platform's share, or back to
the buyer.  A deal that is contested is closed by a decision and by nothing
else; terms never change; nobody pays with money they do not have.
`GoodsRefinement` reads where a deal stands off the *dispute* as long as one is
open, and off the *status* otherwise, so the two tables must agree in every
state; the money is the wallets and the finance row.  Release calls, screening,
the worker, ledger rows, audits, deadlines and crashes are invisible: whatever
they do, each step is a step of the deal with exactly its movement of money, or
none at all.

## 3. Runs

Twelve runs.  Eight must pass, four exhibit a disagreement between a document
and the code.

| run | question | bounds and why they are enough |
|---|---|---|
| `goods` | do racing releases, disputes, webhooks and a crash ever pay, log or settle a deal twice or without authority; do the books balance; is the promise of an escrow kept; does the worker settle every overdue deal? | two deals, a client and the worker (two release calls at once, the smallest number of which one can overtake the other), one crash.  One member can just pay for both deals, the other for none before it has sold and been paid, and both may sell, so that a frozen seller of one deal can hold up the other if anything can; a scan may miss either deal or both |
| `services` | is a milestone paid and logged once, does a refund settle the rest, and do the books balance, whatever is in flight? | two contracts of two milestones, two clients releasing milestones or whole contracts; wallets that cannot pay for both; one member above the cap and one below; amounts whose commission is rounded differently in whole and in parts, and milestones that exceed their contract.  One wallet can be frozen, the only possible seller's: freezing merely disables a step, each unit of work here touches one wallet, and the one that debits the buyer can be refused for the balance as well |
| `services_disputed` | is no escrow released while a dispute is active? (violated) | one contract of two milestones |
| `events` | is an invoice paid once by whichever way, does the cap hold, do pledges and books follow, also when the event is released like goods? | one event, two pledges, two invoices of members or outside vendors, two clients, amounts that together exceed the cap |
| `events_closed` | do closed events conserve money? (violated) | one event, one client, two invoices |
| `wallet` | are top-ups credited once and only when paid, do fees add up, is a paid order credited in the end? | two members, two orders, two withdrawals, estimates below and above the fee, an actual cost below, above, unreported or refused |
| `wallet_replay` | is no order credited twice, ever? (violated) | one order |
| `audit_log` | one entry per deal, hashes point at entries, every release is recorded | a deal and a contract of one part, one goroutine at a time beside the reconciler, batch of one, one broadcast dropped per deal, one crash; four broadcasts per deal are all that can occur, so the bound stops nobody |
| `audit_scan` | does the reconciler's scan miss nothing? (violated) | one contract with two parts paid before its release |
| `idempotency` | one execution and one answer per key | three requests, two keys, up to two expiries of each key |
| `membership` | do approval and role agree, do decisions stand, whose score does an administrator see? | two members, two submissions each (the second can overtake the first, or follow its decision), two roles to ask for; registrations with no role, an accepted one and ADMIN |
| `loyalty` | is everybody evaluated once a month, and can a low-sales warning ever happen? | two members, each on the list of a month or not, two months (GOLD in the first, a warning in the second at the earliest), two reviews that may average to 4.5, records on either side of the thresholds, one crash |

Deadlock is checked everywhere but in the two audit runs, where the system
rightly stops once every release is recorded.

Amounts are a few rupiah, large enough for the percentages not to vanish and for
one amount per kind to be rounded.  The flat goods fees (met by BRONZE sellers
only, who are in the proofs and not in the run) and the member cap
(Rp 10,000,000) are constants of the model and are scaled down with the amounts.

### What the violated runs show

* **`services_disputed`** `ReleaseMilestoneFunds` reads the status of the
  milestone and not that of the contract
  (`usecase/transaction_services_usecase.go:175-180`), so a milestone is paid
  while the contract is DISPUTED.  INV-03 of `docs/development/DDD.md` says no
  escrow is released while a dispute is active.  The same gap lets a milestone be
  released before the payment and after a cancellation.
* **`events_closed`** `ProcessEventVendorPayouts` pays the members among the
  vendors and, while an outside vendor waits for the bank, returns without taking
  their money out of escrow (`usecase/transaction_events_usecase.go:307`).  Whatever
  then closes the event as a whole (a refund or a settlement by dispute,
  `usecase/dispute_usecase.go:120, 152`, or the release of goods) moves the whole
  gross amount, so the event ends with more money than it
  began with.  `tests/internal/usecase/money_conservation_test.go` states that no
  rupiah is created or destroyed over a closed lifecycle.
* **`wallet_replay`** An unsuccessful notice overwrites the SUCCESS that makes a
  repeated settlement harmless (`MarkTopUpFailed` does not look at the status);
  a settlement delivered once more credits again.  The comment at
  `usecase/wallet_usecase.go:84` says "idempotent: already credited previously".
  `RepeatsCreditOnce` states what does hold.
* **`audit_scan`** The scan begins a fixed time before the release.  The
  milestones of a contract are logged under the id of the contract, possibly long
  before it is released by a dispute, and are then outside the scan; the
  reconciler logs the deal again.  The comment in `relayer/relayer.go` says the
  scan bound misses nothing.

### Fairness

* **Worker** (`WorkerFairness`).  The ticker fires every hour and the loop always
  goes on to the next id: weak fairness of the worker's own steps.  A deal that is
  due hour after hour is not cut off from every list, and one that is screened hour after hour is found safe in the end and its unit of work
  commits in the end: strong fairness per deal, since between two attempts the step is
  not enabled.  Nothing is assumed of clients, administrators or disputes, and
  the property lets a deal go by being settled or disputed otherwise, or by a
  frozen wallet.
* **Wallet.**  The gateway sends a notice again until it is acknowledged, and the
  webhook acknowledges a settlement only once it has applied it (a failing unit
  of work answers 500): weak fairness of `ConfirmTopUp`.  A frozen wallet lets an
  order off.
* **Audit.**  The ticker fires; no attempt hangs, since each call has a timeout;
  a pending broadcast is decided.  A lookup, a broadcast, a receipt and a write
  that the reconciler tries again and again succeed in the end (strong
  fairness per deal).  Of the first attempt only its end is assumed.
* Idempotency, services, events and membership have no liveness property: nothing
  in the code pushes them forward without a client.  The monthly evaluation has
  none because the code gives none: what a batch does not reach waits for the next
  month, and nothing makes that one succeed.

## 4. Proofs

Every safety invariant and action property of a passing run is a theorem, for any
finite set of members, deals, milestones, invoices, orders and withdrawals, any set
of clients (a finite one for events), any amounts, and any number of months,
submissions, broadcasts, expiries, crashes and restarts.

| theorem of `GoodsEscrowProofs` | property |
|---|---|
| `TypeCorrect` | `TypeOK`, with no wallet below zero |
| `LedgerCorrect` | `LedgerMatchesStatus` |
| `DisputeCorrect` | `DisputeMatchesStatus` (proved only; in the run `KeepsPromise` stands for it) |
| `AuditCorrect` | `AuditedOnce` |
| `EscrowCorrect`, `RevenueCorrect`, `ConservationCorrect` | `EscrowMatches`, `RevenueMatches`, `MoneyConserved` (the last proved only; it follows from the others) |
| `ReconcileCorrect` | `WalletsReconcile` |
| `SettlementCorrect` | `SettlementAuthorised` |
| `PromiseKept` | `KeepsPromise`, the refinement |

| theorem of `ServicesEscrowProofs` | property |
|---|---|
| `TypeCorrect`, `DisputeCorrect` | `TypeOK`, `DisputeMatchesStatus` (proved only) |
| `MilestoneOnceCorrect` | `EachMilestoneOnce` |
| `WithinEscrowCorrect` | `MilestonesWithinEscrow` |
| `RefundCorrect` | `RefundSettles` (an action property) |
| `BooksCorrect` | `BooksMatch`: escrow, revenue and every wallet |

| theorem of `EventsEscrowProofs` | property |
|---|---|
| `TypeCorrect`, `DisputeCorrect` | `TypeOK`, `DisputeMatchesStatus` (proved only) |
| `SettledCorrect` | `ReleasedMeansSettled` |
| `ClaimsCorrect` | `InternalClaimsWithinEscrow`, the 95% cap |
| `DrawnCorrect` | `PledgesDrawnDown` |
| `PayoutOnceCorrect` | `EachPayoutOnce` |
| `BooksCorrect` | `BooksMatch` |

| theorem of `WalletProofs` | property |
|---|---|
| `TypeCorrect`, `RowsCorrect` | `TypeOK`; rows and messages go together (`RowsInv`, proved only) |
| `RepeatsCorrect`, `CreditsCorrect` | `RepeatsCreditOnce`, `CreditsArePaid` |
| `BalanceCorrect` | `BalanceReconciles` |
| `FeesCorrect` | `FeesTrueUp` |

| theorem of `WorkerProofs` | property |
|---|---|
| `TypeCorrect`, `EvaluationCorrect`, `WarningsUnreachable` | all three of the run `loyalty` |
| `AuditTypeCorrect`, `LoggedOnceCorrect` | `AuditTypeOK`, `LoggedOnce` |
| `HashMinedCorrect` | the stored hash was mined (`HashIsMined`, proved only): all that holds if the contract may refuse a call |
| `HashCorrect` | `HashIsLogged`, if the contract refuses none |
| `ScanCorrect` | `ScanMissesNoDeal`: what is left of the violated `ScanMissesNothing`, for every deal released in one go |

| theorem of `AccessProofs` | property |
|---|---|
| `TypeCorrect`, `PromotionCorrect`, `DecisionCorrect`, `ScoreCorrect` | all four of the run `membership` |
| `KeyTypeCorrect`, `ExecutedOnceCorrect`, `OneAnswerCorrect` | all three of the run `idempotency` |

`MoneyProofs` has the laws of sums these rest on (`TotalUpdate` and its lemmas),
`EscrowProofs` the steps and the fees the three escrows share.

**Assumptions.**  Only those named in the modules: members, deals, orders and
withdrawals are finite sets and initial balances natural numbers
(`PartiesAssumption`, `WalletAssumption`), the worker is no client
(`CallersAssumption`), the amounts asked for are integers, shipping fees are not
negative and tiers are among the three (`AmountsAssumption`), the flat fees are
natural numbers (`FinanceCalculator`), and the null values (`NoRow`, `NoTx`, `NoKey`
...) are none of the values they stand beside.  Nothing relates amounts, fees and
balances to one another.  Pledges are natural numbers and claims positive, as the
handler checks; invoices are finite in number and so are the clients of an event,
since the calls that have paid and not yet logged are counted (`VendorsAssumption`).
`Membership` assumes that a member asks for one of the three roles a submission may
name, `Loyalty` that completed work is counted in natural numbers, `AuditLog` that
transactions are finite in number, `Idempotency` that requests are.  `RelayerWorks`,
that the contract accepts the relayer's calls, is a premise of `HashCorrect` alone;
without it the code stores the hash of a reverted call.

**The argument.**  Each property is proved by one step lemma for all actions.
The property is conjoined with what its step needs:

* `TypeOK` carries `net <= gross`, without which the retention of a release might
  be negative; it follows from bounds on the fees (`SellerServiceFeeBounds`).

*Goods escrow*

* The ledger, the disputes and the audit records are inductive relative to
  `TypeOK`; the audit needs in addition that a dispute is only opened on a deal
  still locked, that is `DisputeMatchesStatus`, and that at most one call has
  committed.  The heart of it is that `CommitRelease` reads the status again.
* Escrow, revenue and conservation are proved together, as `MoneyMatches`: one
  lemma (`Transfer`) gives the effect of a step on the sum over the wallets, one
  lemma per kind of step its effect on the three equations, and the case
  analysis over the actions is done once.
* `WalletsReconcile` uses the ledger theorem: a deal has at most one row of each
  type, so a step that adds a row changes one summand by one amount.
* `KeepsPromise` needs `TypeOK` and `DisputeMatchesStatus` before and after a
  step.  The second makes the phase of a deal a function of its status
  (`PhaseIsStatus`), so a step that sets the status of one deal moves that deal
  and no other (`PhaseMoves`); then one lemma per step of the code names the step
  of the promise it is, and whatever leaves the database alone is invisible.
* `SettlementAuthorised` is an action property and follows from the invariants
  in the state before the step.

*Services escrow*

* `TypeOK` alone is not inductive: paying a milestone reads the seller of its
  contract, so a planned milestone must belong to a contract that exists
  (`PlanOnRows`).
* `EachMilestoneOnce` splits in two.  `LoggedOnce`: at most one call stands between
  the commit and the log of a milestone, and the milestone is released and not
  logged yet.  `RowsCounted`: one ledger row per payment, refund, released
  milestone and settlement.  The lock that reads the status of the milestone, or of
  the contract released like goods, again is what both use.  For a contract the log
  also needs that a dispute is opened on a locked one only (`Done`).
* `MilestonesWithinEscrow` holds because a contract is created with milestones that
  add up to its gross amount (`PlanCovers`) and a sum over fewer of them is not
  larger (`TotalMonotone`); nothing else keeps a release within the escrow, since
  the code compares no balance.
* `RefundSettles` follows: the refund is the gross amount less what is released,
  which `PlanCovers` keeps from being cut off at zero.
* `BooksMatch` is one invariant over four sums, two over the contracts and two over
  the milestones.  `ContractBooks` gives the effect of a step that changes the
  entries of one contract, `MilestoneBooks` that of one milestone; the amount of a
  refund must have been zero before (`RefundRecorded`).

*Events escrow*

* `TypeOK` needs that a call works on something that was filed and that what it is
  about to mark disbursed has no wallet (`JobsFiled`), that only paid events have
  invoices (`FiledArePaid`), and that events have no seller fee (`NoSellerFee`).
* Both ways of paying are one step of different size: a set of approved invoices
  becomes paid (`PaySet`), of one element or of all.  Each property has one lemma
  for `PaySet`, and sums and counts over a set of invoices add up by
  `TotalDisjoint`.
* `ReleasedMeansSettled` and `InternalClaimsWithinEscrow` are inductive once
  `SubmitEventVendorInvoice` is known to refuse released events and to add a claim
  to the sum it has read under the lock.  A release like goods goes past the
  invoices, so `ReleasedMeansSettled` speaks of the events that were not given to
  their seller as a whole (`GivenToSeller`), and `asGoods` remembers which were.
* `EachPayoutOnce` again splits in the rows (`RowsCounted`) and the log
  (`AuditsCounted`): the calls that have paid and not yet logged, with what is
  logged, are no more than the invoices paid one by one and the settlement, by
  invoices or like goods.
* `BooksMatch` needs the entries of an event that is unpaid or held to be known
  (`EntriesFollow`), which `DisputeMatchesStatus` gives.

*Wallet*

* `RowsInv`: no gateway order without a draft, no settlement notice of an order that
  is not settled, no paid withdrawal of unknown cost.
* `RepeatsCreditOnce` and `CreditsArePaid` are proved with `FirstCredit`: an order
  that never lost its SUCCESS was credited exactly if it has it.
* `BalanceReconciles` and `FeesTrueUp` change one summand per step (`TotalUpdate`).
  That the fee ledger is never negative is no invariant of single steps (a true-up
  subtracts); it follows from `FeesTrueUp`, so `TypeOK` is proved last.

*Audit log*

* `HashIsMined` needs that a hash a thread is about to store was mined
  (`ReceiptsMined`), that broadcasts are numbered without a gap, so that a new one
  reuses no number (`Gapless`), and that what was mined stays so.
* `LoggedOnce` is the deepest: it needs that at most one thread is on a deal, the
  goroutine while the deal is fresh and the reconciler afterwards (`AloneOn`); that
  the queue holds a deal once; that whoever may send knows nothing is under way, and
  whoever is about to send that nothing is in the log (`SendsSafely`); that a deal
  not yet released is unknown to the chain (`UntouchedUntilReleased`); so that at
  most one broadcast of it is alive (`OneLive`).  The grace hour is what separates
  the two threads; with the query's grace hour removed the proof fails where TLC
  finds the duplicate.
* `ScanCorrect` is a corollary of `UntouchedUntilReleased`.
* The oldest gaps are an initial segment in the order of release (`InitialSegment`),
  hence listed once (`OldestOnce`).

*Idempotency*

* `ExecutedOnce` and `OneAnswer` need that one request holds a key and the key is
  then locked (`OneHolder`), that the runs of a key are covered by its expiries, its
  record and its holder (`RunsCounted`), and that a record and an answer are those
  of a run (`AnswersKnown`).

*Membership and loyalty*

* `Membership` needs that whoever has a row has an account and that the row names
  a role (`RowsAreOfMembers`); the score theorem needs that a waiting request has
  the newest submission of its member or was overtaken (`WaitingIsNewest`).
* `Loyalty` needs that a batch lists nobody twice and nobody evaluated already
  (`BatchIsFresh`), and that whoever of the list has left it has had its
  turn (`EverybodyHasATurn`).  `NobodyIsWarned` is inductive with `TypeOK`: a warning
  needs a failed month, and only a warning makes one.

**Sums.**  A sum over a finite set is usually defined by recursion, and facts
about it need induction over an operator, which the available provers cannot
instantiate.  `Money` defines `Total(f)` as the cardinality of a set of coins
instead, so `MoneyProofs` derives what is needed from facts on finite
cardinalities: changing one element changes the sum by as much (`TotalUpdate`),
smaller summands make a smaller sum (`TotalMonotone`), sums of functions that are
nowhere both positive add up (`TotalDisjoint`), and renaming the domain or
extending it with zeros changes nothing (`TotalRename`, `TotalExtend`).

**Model-checked only.**  Liveness (`ExpiredDealsAreReleased`,
`PaidTopUpsAreCredited`, `EveryReleaseIsRecorded`): fairness and ENABLED are out of
the prover's reach.  And the four violated properties, whose counterexamples only a
run can show.

## 5. Not modelled, and assumptions

* `PublishTransaction` acts on DRAFT rows, which no code creates.
* Buying an event ticket is `LockFundsEvents` behind another route and a check of
  the token's role; it has no state of its own.
* A payment that arrives for a cancelled deal is acknowledged and dropped; where
  the buyer's money is then is outside the platform and the model.
* Clocks are not modelled: a deadline passes at any time after creation, and an
  hour is over when nothing of the deal is under way.
* `AuditLog` assumes that a broadcast is mined or forgotten within the grace hour
  and between cycles, that the contract accepts the relayer's calls
  (`RelayerWorks`), and that a batch can hold the failing gaps.  The stub relayer
  and the reconciler's skip-streak log line are left out.
* `Idempotency` assumes a key's lifetime (24 h) outlives any request.  Requests
  without a key pass through and are left out.
* `Wallet` leaves out what deals move between wallets (the escrow modules have
  it).  An order whose creation failed on the platform's side cannot be paid,
  since the client has no payment page for it.
* A vendor has at most one pledge in an event in the model; the table would take
  more.
* int64 overflow needs an amount beyond 10^16 rupiah; integers are unbounded.
* `Membership` leaves out the documents themselves and the identity card that no
  two rows share, password hashing, the token's signature and lifetime, and the
  route that hands out tokens in development.
* `Loyalty` takes the rows of `crm_loyalty` and the completed work in them from an
  operator (external): no code writes either.  A row starts with no failed month.
  `CalculateEventAudit` has no caller and is left out.
* Catalog and vendor directory keep rows that no rule relates to another row or to
  a later step; queries, handlers, start-up code, the AI service and the dashboard
  keep no state.

### Disagreements without a run of their own

Read off the code while modelling it; the models follow the code.

* ReleaseFundsGoods takes a services contract or an event as well
  (`usecase/transaction_goods_usecase.go:127, 153`).  A locked event is then
  RELEASED with no dispute and no invoice paid, its whole net amount goes to the
  seller and the platform earns no 5%, where the comment at
  `usecase/transaction_events_usecase.go:231` says it is released only when all
  vendors are settled.  An invoice filed before can still be paid one at a time
  afterwards, out of other deals' escrow.  A contract pays the full net amount on
  top of the milestones already released.
* A batch of the monthly evaluation and a scan of the auto-release worker take a
  list that broke off for the whole one (`repository/wallet_repository.go:176-187`,
  `repository/transaction_repository.go:175-182`).  A member left out waits for the
  next month, an overdue deal for the next hour.
* A dispute resolved for the seller pays the full net amount even after
  milestones were released (`usecase/dispute_usecase.go:152-173`; BR-03.2 in
  `docs/business/BRD.md` pays the rest).
* A services contract never becomes RELEASED when all its milestones are.
* An event payout goes from DISBURSED back to PENDING_DISBURSEMENT when the
  organiser settles again (`usecase/transaction_events_usecase.go:301, 392`;
  `domain/transaction.go:38` calls it terminal), so an event with an
  outside vendor never becomes RELEASED; and a DISBURSED payout drops out of
  the 95% cap (`repository/transaction_repository.go:293`).
* Invoices paid one by one are deducted from escrow again when the event is
  settled (`usecase/transaction_events_usecase.go:321, 389`).
* A vendor's unpaid invoice and the unspent pledge behind it are both counted
  against the cap of everybody else (`:151-175`).
* The relayer does not read the receipt's status, so the hash of a reverted call
  would be stored (`relayer/relayer.go:162`).
* The reconciler takes the twenty oldest gaps; twenty that keep failing starve
  the rest, where the comment at `repository/transaction_repository.go:560` says
  the remainder is picked up by the next cycle.
* The stub relayer returns one constant hash for a column that is unique.
* On PostgreSQL a key whose request broke off answers 409 "retry shortly"
  for ever (`delivery/handlers/idempotency_middleware.go`).
* A top-up draft stays PENDING for ever after a crash before the gateway call.
* A refusal in `UpdateBalanceTx` called outside a unit of work returns without
  the rollback its deferred function intends (`repository/wallet_repository.go:91-118`).

* `RequireRole(RoleUser)` accepts exactly that role, so a member that is promoted
  can no longer withdraw, top up, confirm, review or dispute once its USER token
  has expired (`cmd/server/main.go:236-249`; `docs/general-user-guide.md:116, 399`
  says sellers and verified merchants withdraw to a bank).  An event is bought
  with a USER token and its vendors are settled with an EVENT_ORGANIZER or ADMIN
  token (`cmd/server/main.go:224-228`).
* Register grants VERIFIED_MERCHANT, VERIFIED_VENDOR and EVENT_ORGANIZER to whoever
  asks (`usecase/auth_usecase.go:97-102`); INV-06 of `docs/development/DDD.md`, and
  BR-01.2, BR-01.3 and RULE-02.2 of `docs/business/BRD.md`, ask for an approved KYC
  first.
* A member may submit again without limit, also after an approval, which puts the
  row back to PENDING and leaves the role (`repository/kyc_repository.go`);
  RULE-02.3 and RULE-02.4 limit both.  A rejection of the second submission leaves
  the role of the first.
* A batch of the monthly evaluation that a crash or the five-minute limit cuts
  short is not taken up again before the next month (`worker/crm_worker.go:44-50`);
  FR-CRM-01 (`docs/requirements/FR-CRM.md:10`) evaluates everybody on the first.
  FR-CRM-02 names four tiers by volume; the code has three, by completed work and
  rating.
* WARNING_LOW_SALES and DOWNGRADE_TO_SILVER cannot be reached by the worker
  (`usecase/finance_calculator.go:169-173`, `NobodyIsWarned`); the tests reach them
  with profiles built by hand.
* A vendor that registers again loses `is_verified`
  (`repository/vendor_repository.go:25`), which no code ever sets.

## 6. Plan

Order: the money first, then the actors that move it, then the rest.

1. **Done**: all modules of section 2 with their runs, and a theorem for every
   safety property those runs check.
2. **To come**, by value:
   * `EscrowPromise` for the services escrow, with milestones as partial payments
     out of the vault; what the code does to a contract that is disputed
     (`services_disputed`) bounds what such a promise may say.
   * For the wallet, the exact number of credits of an order whose SUCCESS was
     overwritten, as a function of the notices delivered.
   * For the audit log, `LoggedOnce` for contracts: one entry per part and one for
     the release, where every hash was stored before the release.
