-------------------------------- MODULE Wallet --------------------------------
(***************************************************************************)
(* The RekberPay wallet of core-service seen from the outside world: money *)
(* enters by a top-up paid at the gateway (wallet_usecase.go, the webhook  *)
(* handler) and leaves by a withdrawal an administrator confirms           *)
(* (withdrawal_usecase.go).  What deals move between wallets is in the     *)
(* modules that extend Escrow and is left out here.                        *)
(*                                                                         *)
(* The gateway tells the webhook what became of an order, as often and in  *)
(* whatever order it likes: a notification once sent may be delivered      *)
(* again at any time.  A top-up is a draft row committed before the order  *)
(* is created at the gateway, so the process may stop in between.          *)
(***************************************************************************)
EXTENDS Money

CONSTANTS
  Users,              \* members with a wallet
  Orders,             \* Midtrans order ids of top-ups
  Withdrawals,        \* ids of withdrawal requests
  TopUpAmounts,       \* amounts a client may ask to top up
  WithdrawAmounts,    \* amounts a client may ask to withdraw
  WithdrawFeeToUser,  \* the gross flat fee of a withdrawal
  Estimates,          \* answers of EstimateDisbursementFee
  ActualCosts,        \* costs an administrator may report
  NoCost,             \* "no actual cost reported"
  NoRow,              \* "no row"
  InitialBalance,     \* what each wallet holds at the start
  MaxCredits          \* bound on the credits of one order

WithdrawalRows ==
  [user : Users, amount : Nat \ {0}, midtransCost : Nat,
   status : {"PENDING", "PAID"}, midtransCostActual : Nat \cup {NoCost}]

ASSUME WalletAssumption ==
  /\ IsFiniteSet(Users) /\ IsFiniteSet(Orders) /\ IsFiniteSet(Withdrawals)
  /\ TopUpAmounts \subseteq Int /\ WithdrawAmounts \subseteq Int
  /\ WithdrawFeeToUser \in Nat
  /\ Estimates \subseteq Nat   \* the stub turns a negative setting into 0
  /\ ActualCosts \subseteq Int
  /\ NoCost \notin ActualCosts
  /\ NoRow \notin WithdrawalRows
  /\ InitialBalance \in [Users -> Nat]
  /\ MaxCredits \in Nat

VARIABLES
  balance,     \* rekberpay_wallets.balance
  frozen,      \* wallets with is_frozen set
  order,       \* owner and amount of each top-up draft
  draft,       \* status of the draft row, "NONE" without a row
  credits,     \* ledger rows that credit the order
  snap,        \* the order at the gateway
  notices,     \* notifications the gateway has sent
  withdrawal,  \* rows of withdrawals
  revenue, midtransFees,   \* of the platform_finances row
  reversed     \* history: orders marked FAILED when they were SUCCESS

topUpVars == <<order, draft, credits, snap, notices, reversed>>
payoutVars == <<withdrawal, revenue, midtransFees>>
vars == <<balance, frozen, topUpVars, payoutVars>>

-----------------------------------------------------------------------------
TopUps == [owner : Users, amount : Nat \ {0}]
WalletTxStatus == {"PENDING", "SUCCESS", "FAILED"}

\* "calling": the request is on its way; "lost": the gateway made the order and
\* the client never got its payment page.
SnapStates == {"none", "calling", "rejected", "lost", "open", "settled", "expired"}
Notices == {"settlement", "unsuccessful"}

\* Types; no wallet is ever overdrawn and a row exists when its status says so.
TypeOK ==
  /\ balance \in [Users -> Nat]
  /\ frozen \subseteq Users
  /\ order \in [Orders -> TopUps \cup {NoRow}]
  /\ draft \in [Orders -> WalletTxStatus \cup {"NONE"}]
  /\ \A o \in Orders : draft[o] # "NONE" => order[o] \in TopUps
  /\ credits \in [Orders -> 0 .. MaxCredits]
  /\ snap \in [Orders -> SnapStates]
  /\ notices \in [Orders -> SUBSET Notices]
  /\ withdrawal \in [Withdrawals -> WithdrawalRows \cup {NoRow}]
  /\ revenue \in Int /\ midtransFees \in Nat
  /\ reversed \subseteq Orders

Init ==
  /\ balance = InitialBalance
  /\ frozen = {}
  /\ order = [o \in Orders |-> NoRow]
  /\ draft = [o \in Orders |-> "NONE"]
  /\ credits = [o \in Orders |-> 0]
  /\ snap = [o \in Orders |-> "none"]
  /\ notices = [o \in Orders |-> {}]
  /\ withdrawal = [w \in Withdrawals |-> NoRow]
  /\ revenue = 0 /\ midtransFees = 0
  /\ reversed = {}

-----------------------------------------------------------------------------
(* The repositories.                                                       *)

\* Mutant: the fee is taken and not counted when the overdraft is checked.
UpdateBalanceFeeLate(u, modifier, adminFee) ==
  /\ u \notin frozen
  /\ modifier < 0 => balance[u] + modifier >= 0
  /\ balance' = [balance EXCEPT ![u] = @ + modifier - adminFee]

\* UpdateBalanceTx: refuse a frozen wallet and an overdraft; the fee of a
\* withdrawal goes with the amount.
UpdateBalance(u, modifier, adminFee) ==
  LET totalDeduction == modifier - adminFee IN
  /\ u \notin frozen
  /\ modifier < 0 => balance[u] + totalDeduction >= 0
  /\ balance' = [balance EXCEPT ![u] = @ + totalDeduction]

\* MarkWalletTxStatusByOrderID asks nothing of the status it overwrites.
MarkWalletTxStatus(o, s) == draft' = [draft EXCEPT ![o] = s]

UpdateFinance(revenueDelta, midtransFeeDelta) ==
  /\ revenue' = revenue + revenueDelta
  /\ midtransFees' = midtransFees + midtransFeeDelta

-----------------------------------------------------------------------------
(* TopUpWallet: the draft, committed by itself, then the gateway.          *)

InsertDraft(o, u, amount) ==
  /\ draft[o] = "NONE"
  /\ amount > 0
  /\ UpdateBalance(u, 0, 0)
  /\ order' = [order EXCEPT ![o] = [owner |-> u, amount |-> amount]]
  /\ draft' = [draft EXCEPT ![o] = "PENDING"]
  /\ snap' = [snap EXCEPT ![o] = "calling"]
  /\ UNCHANGED <<frozen, credits, notices, reversed, payoutVars>>

SnapAccepted(o) ==
  /\ snap[o] = "calling"
  /\ snap' = [snap EXCEPT ![o] = "open"]
  /\ UNCHANGED <<balance, frozen, order, draft, credits, notices, reversed, payoutVars>>

\* The call fails, with or without the order created at the gateway.  The
\* draft is marked FAILED unless that update fails as well (its error is
\* ignored) or the process dies first.
SnapFails(o, reached, marked) ==
  /\ snap[o] = "calling"
  /\ snap' = [snap EXCEPT ![o] = IF reached THEN "lost" ELSE "rejected"]
  /\ IF marked THEN MarkWalletTxStatus(o, "FAILED") ELSE UNCHANGED draft
  /\ UNCHANGED <<balance, frozen, order, credits, notices, reversed, payoutVars>>

-----------------------------------------------------------------------------
(* The gateway.  A payment may be refused or stay undecided any number of  *)
(* times before it settles, and an order nobody pays expires.              *)

Send(o, n) == notices' = [notices EXCEPT ![o] = @ \cup {n}]

Settle(o) ==
  /\ snap[o] = "open"
  /\ snap' = [snap EXCEPT ![o] = "settled"]
  /\ Send(o, "settlement")
  /\ UNCHANGED <<balance, frozen, order, draft, credits, reversed, payoutVars>>

Decline(o) ==
  /\ snap[o] = "open"
  /\ Send(o, "unsuccessful")
  /\ UNCHANGED <<balance, frozen, order, draft, credits, snap, reversed, payoutVars>>

Expire(o) ==
  /\ snap[o] \in {"open", "lost"}
  /\ snap' = [snap EXCEPT ![o] = "expired"]
  /\ Send(o, "unsuccessful")
  /\ UNCHANGED <<balance, frozen, order, draft, credits, reversed, payoutVars>>

-----------------------------------------------------------------------------
(* The webhook.                                                            *)

\* A top-up notification that is not a success marks the draft FAILED, whatever
\* its status is, and is acknowledged.
MarkTopUpFailed(o) ==
  /\ "unsuccessful" \in notices[o]
  /\ MarkWalletTxStatus(o, "FAILED")
  /\ reversed' = IF draft[o] = "SUCCESS" THEN reversed \cup {o} ELSE reversed
  /\ UNCHANGED <<balance, frozen, order, credits, snap, notices, payoutVars>>

\* Mutant: every delivery of the settlement credits the wallet.
ConfirmTopUpAlways(o) ==
  /\ "settlement" \in notices[o]
  /\ credits[o] < MaxCredits
  /\ UpdateBalance(order[o].owner, order[o].amount, 0)
  /\ credits' = [credits EXCEPT ![o] = @ + 1]
  /\ MarkWalletTxStatus(o, "SUCCESS")
  /\ UNCHANGED <<frozen, order, snap, notices, reversed, payoutVars>>

\* Mutant: any notification at all confirms the top-up.
ConfirmTopUpUnpaid(o) ==
  /\ notices[o] # {}
  /\ draft[o] # "SUCCESS"
  /\ credits[o] < MaxCredits
  /\ UpdateBalance(order[o].owner, order[o].amount, 0)
  /\ credits' = [credits EXCEPT ![o] = @ + 1]
  /\ MarkWalletTxStatus(o, "SUCCESS")
  /\ UNCHANGED <<frozen, order, snap, notices, reversed, payoutVars>>

\* Mutant: a draft that was marked FAILED cannot be confirmed any more.
ConfirmTopUpPending(o) ==
  /\ "settlement" \in notices[o]
  /\ draft[o] = "PENDING"
  /\ credits[o] < MaxCredits
  /\ UpdateBalance(order[o].owner, order[o].amount, 0)
  /\ credits' = [credits EXCEPT ![o] = @ + 1]
  /\ MarkWalletTxStatus(o, "SUCCESS")
  /\ UNCHANGED <<frozen, order, snap, notices, reversed, payoutVars>>

\* ConfirmTopUp: under the lock of the draft row, a draft that is SUCCESS is
\* left alone, any other is credited.  A frozen wallet fails the unit of work,
\* the webhook answers 500 and the gateway sends the notification again.
ConfirmTopUp(o) ==
  /\ "settlement" \in notices[o]
  /\ draft[o] # "SUCCESS"
  /\ credits[o] < MaxCredits
  /\ UpdateBalance(order[o].owner, order[o].amount, 0)
  /\ credits' = [credits EXCEPT ![o] = @ + 1]
  /\ MarkWalletTxStatus(o, "SUCCESS")
  /\ UNCHANGED <<frozen, order, snap, notices, reversed, payoutVars>>

-----------------------------------------------------------------------------
(* Withdrawals.                                                            *)

\* Mutant: the fee is booked and not taken from the wallet.
RequestWithdrawalFeeFree(w, u, amount, estimate) ==
  /\ withdrawal[w] = NoRow
  /\ amount > 0
  /\ UpdateBalance(u, -amount, 0)
  /\ withdrawal' = [withdrawal EXCEPT ![w] =
       [user |-> u, amount |-> amount, midtransCost |-> estimate,
        status |-> "PENDING", midtransCostActual |-> NoCost]]
  /\ UpdateFinance(WithdrawFeeToUser - estimate, estimate)
  /\ UNCHANGED <<frozen, topUpVars>>

\* RequestWithdrawal: debit amount and fee, insert the request and book the
\* fee, split by the estimated cost, in one unit of work.
RequestWithdrawal(w, u, amount, estimate) ==
  /\ withdrawal[w] = NoRow
  /\ amount > 0
  /\ UpdateBalance(u, -amount, WithdrawFeeToUser)
  /\ withdrawal' = [withdrawal EXCEPT ![w] =
       [user |-> u, amount |-> amount, midtransCost |-> estimate,
        status |-> "PENDING", midtransCostActual |-> NoCost]]
  /\ UpdateFinance(WithdrawFeeToUser - estimate, estimate)
  /\ UNCHANGED <<frozen, topUpVars>>

Reported(w, actual) == IF actual = NoCost THEN withdrawal[w].midtransCost ELSE actual

\* Mutant: a request that is already PAID is trued up again.
MarkWithdrawalDisbursedAgain(w, actual) ==
  /\ withdrawal[w] # NoRow
  /\ actual # NoCost => actual >= 0
  /\ withdrawal' = [withdrawal EXCEPT
       ![w] = [@ EXCEPT !.status = "PAID", !.midtransCostActual = Reported(w, actual)]]
  /\ LET delta == Reported(w, actual) - withdrawal[w].midtransCost
     IN  UpdateFinance(-delta, delta)
  /\ UNCHANGED <<balance, frozen, topUpVars>>

\* MarkWithdrawalDisbursed: under the lock of the row, a PENDING request is
\* PAID and the difference to the estimate moves from revenue to the fees.
MarkWithdrawalDisbursed(w, actual) ==
  /\ withdrawal[w] # NoRow
  /\ actual # NoCost => actual >= 0
  /\ withdrawal[w].status = "PENDING"
  /\ withdrawal' = [withdrawal EXCEPT
       ![w] = [@ EXCEPT !.status = "PAID", !.midtransCostActual = Reported(w, actual)]]
  /\ LET delta == Reported(w, actual) - withdrawal[w].midtransCost
     IN  UpdateFinance(-delta, delta)
  /\ UNCHANGED <<balance, frozen, topUpVars>>

-----------------------------------------------------------------------------
Freeze(u) ==
  /\ u \notin frozen
  /\ frozen' = frozen \cup {u}
  /\ UNCHANGED <<balance, topUpVars, payoutVars>>

Unfreeze(u) ==
  /\ u \in frozen
  /\ frozen' = frozen \ {u}
  /\ UNCHANGED <<balance, topUpVars, payoutVars>>

TopUpWallet(o) ==
  \/ \E u \in Users, amount \in TopUpAmounts : InsertDraft(o, u, amount)
  \/ SnapAccepted(o)
  \/ \E reached, marked \in BOOLEAN : SnapFails(o, reached, marked)

Webhook(o) == MarkTopUpFailed(o) \/ ConfirmTopUp(o)

Withdraw(w) ==
  \/ \E u \in Users, amount \in WithdrawAmounts, estimate \in Estimates :
       RequestWithdrawal(w, u, amount, estimate)
  \/ \E actual \in ActualCosts \cup {NoCost} : MarkWithdrawalDisbursed(w, actual)

Next ==
  \/ \E o \in Orders : TopUpWallet(o) \/ Webhook(o)
  \/ \E o \in Orders : Settle(o) \/ Decline(o) \/ Expire(o)
  \/ \E w \in Withdrawals : Withdraw(w)
  \/ \E u \in Users : Freeze(u) \/ Unfreeze(u)

Spec == Init /\ [][Next]_vars

-----------------------------------------------------------------------------
(* Safety.                                                                 *)

Requested == {w \in Withdrawals : withdrawal[w] # NoRow}
Drafted == {o \in Orders : draft[o] # "NONE"}

CreditedTo(u) == [o \in Drafted |->
  IF order[o].owner = u THEN credits[o] * order[o].amount ELSE 0]
WithdrawnBy(u) == [w \in Requested |->
  IF withdrawal[w].user = u THEN withdrawal[w].amount + WithdrawFeeToUser ELSE 0]

\* A wallet holds what it held, plus what its top-ups credited, less every
\* withdrawal with its fee: a withdrawal that is refused takes nothing, one
\* that is accepted takes amount and fee together, and confirming it at the
\* bank takes nothing more.
BalanceReconciles ==
  \A u \in Users : balance[u] + Total(WithdrawnBy(u)) = InitialBalance[u] + Total(CreditedTo(u))

\* What a withdrawal costs the platform as far as it knows: the reported cost
\* once it is PAID, the estimate until then.
KnownCost == [w \in Requested |->
  IF withdrawal[w].status = "PAID" THEN withdrawal[w].midtransCostActual
                                   ELSE withdrawal[w].midtransCost]

\* The true-up: the fee ledger is the known cost of every withdrawal and the
\* revenue is the rest of the gross fees, negative when the costs exceed them;
\* two administrators confirming the same transfer do not book it twice.
FeesTrueUp ==
  /\ midtransFees = Total(KnownCost)
  /\ revenue + midtransFees = Cardinality(Requested) * WithdrawFeeToUser

\* A wallet is only credited for an order the gateway settled, and a draft is
\* only SUCCESS when its wallet was credited, whatever the process lost
\* between the draft and the gateway and however notifications are reordered.
CreditsArePaid ==
  \A o \in Orders :
    /\ credits[o] > 0 => snap[o] = "settled"
    /\ draft[o] = "SUCCESS" => credits[o] > 0

\* A settlement that is delivered again and again credits once, as long as no
\* unsuccessful notification overwrites the SUCCESS in between.
RepeatsCreditOnce == \A o \in Orders : o \notin reversed => credits[o] <= 1

\* "Idempotent: if the draft is already SUCCESS, it does not credit twice"
\* (wallet_usecase.go): no order is ever credited twice.
CreditedOnce == \A o \in Orders : credits[o] <= 1

-----------------------------------------------------------------------------
(* Liveness.                                                               *)

(***************************************************************************)
(* The gateway sends a notification again until it is acknowledged, and    *)
(* the webhook only acknowledges a settlement it has applied: weak         *)
(* fairness of ConfirmTopUp.  Nothing is assumed of anybody else.          *)
(***************************************************************************)
FairSpec == Spec /\ \A o \in Orders : WF_vars(ConfirmTopUp(o))

Owed(o) == snap[o] = "settled" /\ credits[o] = 0

\* What was paid at the gateway reaches the wallet or the wallet is found
\* frozen, even when the draft was marked FAILED before the payment settled.
PaidTopUpsAreCredited ==
  \A o \in Orders : Owed(o) ~> (~Owed(o) \/ order[o].owner \in frozen)
=============================================================================
