----------------------------- MODULE WalletProofs -----------------------------
(***************************************************************************)
(* Proofs about Wallet, for any number of members, orders, withdrawals,    *)
(* amounts, estimates and costs.                                           *)
(***************************************************************************)
EXTENDS Wallet, MoneyProofs

-----------------------------------------------------------------------------
(* The invariant.                                                          *)

\* The types without the sign of the fee ledger, which no single step keeps:
\* a true-up only leaves it positive because it holds every estimate.
Types ==
  /\ balance \in [Users -> Nat]
  /\ frozen \subseteq Users
  /\ order \in [Orders -> TopUps \cup {NoRow}]
  /\ draft \in [Orders -> WalletTxStatus \cup {"NONE"}]
  /\ \A o \in Orders : draft[o] # "NONE" => order[o] \in TopUps
  /\ credits \in [Orders -> 0 .. MaxCredits]
  /\ snap \in [Orders -> SnapStates]
  /\ notices \in [Orders -> SUBSET Notices]
  /\ withdrawal \in [Withdrawals -> WithdrawalRows \cup {NoRow}]
  /\ revenue \in Int /\ midtransFees \in Int
  /\ reversed \subseteq Orders

\* The gateway knows of no order without a draft, and only says of a settled
\* order that it is settled.
Linked ==
  \A o \in Orders :
    /\ draft[o] = "NONE" => snap[o] = "none" /\ notices[o] = {}
    /\ "settlement" \in notices[o] => snap[o] = "settled"

\* The cost of a withdrawal that is paid is known.
PaidKnown ==
  \A w \in Withdrawals :
    withdrawal[w] # NoRow /\ withdrawal[w].status = "PAID"
      => withdrawal[w].midtransCostActual \in Nat

\* An order that never lost its SUCCESS was credited once if it has it and
\* never if it does not.
FirstCredit ==
  \A o \in Orders :
    o \notin reversed => credits[o] = IF draft[o] = "SUCCESS" THEN 1 ELSE 0

RowsInv == Types /\ Linked /\ PaidKnown
CreditInv == RowsInv /\ FirstCredit /\ CreditsArePaid

-----------------------------------------------------------------------------
(* The rows.                                                               *)

\* UpdateBalanceTx never overdraws a wallet it debits.
LEMMA UpdateBalanceType ==
  ASSUME balance \in [Users -> Nat], NEW u \in Users, NEW modifier \in Int,
         NEW fee \in Nat, modifier < 0 \/ fee = 0, UpdateBalance(u, modifier, fee)
  PROVE  /\ balance' \in [Users -> Nat]
         /\ balance'[u] = balance[u] + modifier - fee
         /\ \A x \in Users : x # u => balance'[x] = balance[x]
<1>1. balance[u] \in Nat
  OBVIOUS
<1>2. balance[u] + (modifier - fee) \in Nat
  BY <1>1 DEF UpdateBalance
<1>3. balance' = [balance EXCEPT ![u] = balance[u] + (modifier - fee)]
  BY DEF UpdateBalance
<1> QED
  BY <1>1, <1>2, <1>3

\* A withdrawal that is confirmed: its status and its cost change, nothing else.
Paid(row, cost) == [row EXCEPT !.status = "PAID", !.midtransCostActual = cost]

LEMMA PaidRow ==
  ASSUME NEW row \in WithdrawalRows, NEW cost \in Nat
  PROVE  /\ Paid(row, cost) \in WithdrawalRows
         /\ Paid(row, cost).user = row.user /\ Paid(row, cost).amount = row.amount
         /\ Paid(row, cost).status = "PAID"
         /\ Paid(row, cost).midtransCostActual = cost
BY DEF WithdrawalRows, Paid

\* The draft of a top-up and every message about it.
LEMMA DraftRows ==
  ASSUME RowsInv, NEW o \in Orders, NEW u \in Users, NEW amount \in TopUpAmounts,
         InsertDraft(o, u, amount)
  PROVE  RowsInv' /\ balance' = balance
<1>1. amount \in Nat \ {0}
  BY WalletAssumption DEF InsertDraft
<1>2. [owner |-> u, amount |-> amount] \in TopUps
  BY <1>1 DEF TopUps
<1>3. balance' = balance
  <2>1. balance' = [balance EXCEPT ![u] = balance[u] + (0 - 0)]
    BY DEF InsertDraft, UpdateBalance
  <2>2. balance[u] \in Nat /\ balance \in [Users -> Nat]
    BY DEF RowsInv, Types
  <2>3. balance[u] + (0 - 0) = balance[u]
    BY <2>2
  <2> QED
    BY <2>1, <2>2, <2>3
<1>4. Types'
  BY <1>2, <1>3 DEF InsertDraft, RowsInv, Types, WalletTxStatus, SnapStates, payoutVars
<1>5. Linked'
  BY DEF InsertDraft, RowsInv, Types, Linked
<1>6. PaidKnown'
  BY DEF InsertDraft, RowsInv, PaidKnown, payoutVars
<1> QED
  BY <1>3, <1>4, <1>5, <1>6 DEF RowsInv

\* What the gateway does with an order.
LEMMA GatewayRows ==
  ASSUME RowsInv, NEW o \in Orders,
         \/ SnapAccepted(o)
         \/ \E reached, marked \in BOOLEAN : SnapFails(o, reached, marked)
         \/ Settle(o) \/ Decline(o) \/ Expire(o)
         \/ MarkTopUpFailed(o)
  PROVE  RowsInv'
<1>1. draft[o] # "NONE"
  BY DEF SnapAccepted, SnapFails, Settle, Decline, Expire, MarkTopUpFailed, RowsInv, Linked
<1>2. /\ UNCHANGED <<balance, frozen, order, credits, payoutVars>>
      /\ \/ draft' = draft
         \/ draft' = [draft EXCEPT ![o] = "FAILED"]
      /\ \/ UNCHANGED <<snap, notices>>
         \/ \E s \in SnapStates \ {"none", "settled"} :
              snap[o] # "settled" /\ snap' = [snap EXCEPT ![o] = s] /\ UNCHANGED notices
         \/ snap' = [snap EXCEPT ![o] = "settled"]
            /\ notices' = [notices EXCEPT ![o] = @ \cup {"settlement"}]
         \/ \E s \in SnapStates \ {"none", "settled"} :
              snap[o] # "settled" /\ snap' = [snap EXCEPT ![o] = s]
              /\ notices' = [notices EXCEPT ![o] = @ \cup {"unsuccessful"}]
      /\ reversed' \in {reversed, reversed \cup {o}}
  <2>1. CASE SnapAccepted(o)
    BY <2>1 DEF SnapAccepted, SnapStates
  <2>2. CASE \E reached, marked \in BOOLEAN : SnapFails(o, reached, marked)
    BY <2>2 DEF SnapFails, MarkWalletTxStatus, SnapStates
  <2>3. CASE Settle(o)
    BY <2>3 DEF Settle, Send
  <2>4. CASE Decline(o)
    <3>1. snap' = [snap EXCEPT ![o] = "open"] /\ snap[o] = "open"
      BY <2>4 DEF Decline, RowsInv, Types
    <3> QED
      BY <2>4, <3>1 DEF Decline, Send, SnapStates
  <2>5. CASE Expire(o)
    BY <2>5 DEF Expire, Send, SnapStates
  <2>6. CASE MarkTopUpFailed(o)
    BY <2>6 DEF MarkTopUpFailed, MarkWalletTxStatus
  <2> QED
    BY <2>1, <2>2, <2>3, <2>4, <2>5, <2>6
<1>3. Types'
  <2>1. /\ draft' \in [Orders -> WalletTxStatus \cup {"NONE"}]
        /\ \A x \in Orders : draft'[x] # "NONE" => draft[x] # "NONE"
    BY <1>1, <1>2 DEF RowsInv, Types, WalletTxStatus
  <2>2. snap' \in [Orders -> SnapStates]
    BY <1>2 DEF RowsInv, Types, SnapStates
  <2>3. notices' \in [Orders -> SUBSET Notices]
    BY <1>2 DEF RowsInv, Types, Notices
  <2>4. reversed' \subseteq Orders
    BY <1>2 DEF RowsInv, Types
  <2> QED
    BY <1>2, <2>1, <2>2, <2>3, <2>4 DEF RowsInv, Types, payoutVars
<1>4. Linked'
  <2> SUFFICES ASSUME NEW x \in Orders
               PROVE  /\ draft'[x] = "NONE" => snap'[x] = "none" /\ notices'[x] = {}
                      /\ "settlement" \in notices'[x] => snap'[x] = "settled"
    BY DEF Linked
  <2>1. CASE x = o
    <3>1. draft'[o] # "NONE"
      BY <1>1, <1>2 DEF RowsInv, Types
    <3>2. "settlement" \in notices'[o] => snap'[o] = "settled"
      BY <1>2 DEF RowsInv, Types, Linked
    <3> QED BY <2>1, <3>1, <3>2
  <2>2. CASE x # o
    <3>1. draft'[x] = draft[x] /\ snap'[x] = snap[x] /\ notices'[x] = notices[x]
      BY <1>2, <2>2 DEF RowsInv, Types
    <3> QED BY <3>1 DEF RowsInv, Linked
  <2> QED BY <2>1, <2>2
<1>5. PaidKnown'
  BY <1>2 DEF RowsInv, PaidKnown, payoutVars
<1> QED
  BY <1>3, <1>4, <1>5 DEF RowsInv

\* Crediting a wallet changes its balance, the draft and the ledger.
LEMMA ConfirmRows ==
  ASSUME RowsInv, NEW o \in Orders, ConfirmTopUp(o)
  PROVE  /\ RowsInv'
         /\ draft[o] # "NONE" /\ order[o] \in TopUps
         /\ balance' = [balance EXCEPT ![order[o].owner] = @ + order[o].amount]
         /\ draft' = [draft EXCEPT ![o] = "SUCCESS"]
         /\ credits' = [credits EXCEPT ![o] = @ + 1]
         /\ UNCHANGED <<frozen, order, snap, notices, reversed, payoutVars>>
<1>1. draft[o] # "NONE" /\ order[o] \in TopUps
  BY DEF ConfirmTopUp, RowsInv, Types, Linked
<1>2. order[o].owner \in Users /\ order[o].amount \in Nat \ {0}
  BY <1>1 DEF TopUps
<1>3. /\ draft' = [draft EXCEPT ![o] = "SUCCESS"]
      /\ credits' = [credits EXCEPT ![o] = @ + 1] /\ credits[o] < MaxCredits
      /\ UNCHANGED <<frozen, order, snap, notices, reversed, payoutVars>>
      /\ UpdateBalance(order[o].owner, order[o].amount, 0)
  BY DEF ConfirmTopUp, MarkWalletTxStatus
<1>4. balance' = [balance EXCEPT ![order[o].owner] = @ + order[o].amount]
  <2>1. balance' = [balance EXCEPT ![order[o].owner] = @ + (order[o].amount - 0)]
    BY <1>3 DEF UpdateBalance
  <2>2. balance[order[o].owner] \in Nat
    BY <1>2 DEF RowsInv, Types
  <2>3. balance[order[o].owner] + (order[o].amount - 0) = balance[order[o].owner] + order[o].amount
    BY <1>2, <2>2
  <2> QED
    BY <2>1, <2>3, Zenon
<1>5. balance' \in [Users -> Nat]
  BY <1>2, <1>4 DEF RowsInv, Types
<1>6. credits' \in [Orders -> 0 .. MaxCredits]
  <2>1. credits[o] \in 0 .. MaxCredits /\ MaxCredits \in Nat
    BY WalletAssumption DEF RowsInv, Types
  <2>2. credits[o] + 1 \in 0 .. MaxCredits
    BY <1>3, <2>1
  <2> QED
    BY <1>3, <2>2 DEF RowsInv, Types
<1>7. Types'
  BY <1>1, <1>3, <1>5, <1>6 DEF RowsInv, Types, WalletTxStatus, payoutVars
<1>8. Linked' /\ PaidKnown'
  BY <1>1, <1>3 DEF RowsInv, Types, Linked, PaidKnown, payoutVars
<1> QED
  BY <1>1, <1>3, <1>4, <1>7, <1>8 DEF RowsInv

\* Requesting a withdrawal takes amount and fee and adds the row.
LEMMA RequestRows ==
  ASSUME RowsInv, NEW w \in Withdrawals, NEW u \in Users, NEW amount \in WithdrawAmounts,
         NEW estimate \in Estimates, RequestWithdrawal(w, u, amount, estimate)
  PROVE  /\ RowsInv'
         /\ amount \in Nat \ {0} /\ estimate \in Nat /\ withdrawal[w] = NoRow
         /\ balance'[u] = balance[u] - amount - WithdrawFeeToUser
         /\ \A x \in Users : x # u => balance'[x] = balance[x]
         /\ withdrawal'[w] # NoRow
         /\ withdrawal'[w].user = u /\ withdrawal'[w].amount = amount
         /\ withdrawal'[w].midtransCost = estimate /\ withdrawal'[w].status = "PENDING"
         /\ \A x \in Withdrawals : x # w => withdrawal'[x] = withdrawal[x]
<1> DEFINE row == [user |-> u, amount |-> amount, midtransCost |-> estimate,
                   status |-> "PENDING", midtransCostActual |-> NoCost]
<1>1. amount \in Nat \ {0} /\ estimate \in Nat /\ WithdrawFeeToUser \in Nat
  BY WalletAssumption DEF RequestWithdrawal
<1>2. row \in WithdrawalRows
  BY <1>1 DEF WithdrawalRows
<1>3. row # NoRow
  BY <1>2, WalletAssumption
<1>4. /\ row.user = u /\ row.amount = amount /\ row.midtransCost = estimate
      /\ row.status = "PENDING"
  OBVIOUS
<1>5. /\ withdrawal[w] = NoRow /\ withdrawal' = [withdrawal EXCEPT ![w] = row]
      /\ UpdateBalance(u, -amount, WithdrawFeeToUser)
      /\ UpdateFinance(WithdrawFeeToUser - estimate, estimate)
      /\ UNCHANGED <<frozen, topUpVars>>
  BY DEF RequestWithdrawal
<1> HIDE DEF row
<1>6. /\ balance' \in [Users -> Nat]
      /\ balance'[u] = balance[u] + (-amount) - WithdrawFeeToUser
      /\ \A x \in Users : x # u => balance'[x] = balance[x]
  <2>1. -amount \in Int /\ -amount < 0
    BY <1>1
  <2> QED
    BY <1>1, <1>5, <2>1, UpdateBalanceType DEF RowsInv, Types
<1>7. balance'[u] = balance[u] - amount - WithdrawFeeToUser
  <2>1. balance[u] \in Nat
    BY DEF RowsInv, Types
  <2> QED
    BY <1>1, <1>6, <2>1
<1>8. /\ withdrawal' \in [Withdrawals -> WithdrawalRows \cup {NoRow}]
      /\ withdrawal'[w] = row
      /\ \A x \in Withdrawals : x # w => withdrawal'[x] = withdrawal[x]
  BY <1>2, <1>5 DEF RowsInv, Types
<1>9. revenue' \in Int /\ midtransFees' \in Int
  BY <1>1, <1>5 DEF UpdateFinance, RowsInv, Types
<1>10. Types'
  BY <1>5, <1>6, <1>8, <1>9 DEF RowsInv, Types, topUpVars
<1>11. Linked'
  BY <1>5 DEF RowsInv, Linked, topUpVars
<1>12. PaidKnown'
  BY <1>4, <1>8 DEF RowsInv, PaidKnown
<1> QED
  BY <1>1, <1>3, <1>4, <1>5, <1>6, <1>7, <1>8, <1>10, <1>11, <1>12 DEF RowsInv

\* Confirming a withdrawal makes its cost known.
LEMMA DisbursedRows ==
  ASSUME RowsInv, NEW w \in Withdrawals, NEW actual \in ActualCosts \cup {NoCost},
         MarkWithdrawalDisbursed(w, actual)
  PROVE  /\ RowsInv' /\ balance' = balance
         /\ withdrawal[w] \in WithdrawalRows /\ withdrawal'[w] \in WithdrawalRows
         /\ withdrawal[w].status = "PENDING" /\ withdrawal'[w].status = "PAID"
         /\ withdrawal'[w].user = withdrawal[w].user
         /\ withdrawal'[w].amount = withdrawal[w].amount
         /\ withdrawal'[w].midtransCostActual = Reported(w, actual)
         /\ Reported(w, actual) \in Nat
         /\ \A x \in Withdrawals : x # w => withdrawal'[x] = withdrawal[x]
<1> DEFINE cost == Reported(w, actual)
           row == withdrawal[w]
           paid == Paid(row, cost)
<1>1. row \in WithdrawalRows /\ row # NoRow /\ row.status = "PENDING"
  BY DEF MarkWithdrawalDisbursed, RowsInv, Types
<1>2. row.midtransCost \in Nat
  BY <1>1 DEF WithdrawalRows
<1>3. cost \in Nat
  <2>1. actual # NoCost => actual \in Int /\ actual >= 0
    BY WalletAssumption DEF MarkWithdrawalDisbursed
  <2> QED
    BY <1>2, <2>1 DEF Reported
<1>4. /\ withdrawal' = [withdrawal EXCEPT ![w] = paid]
      /\ UpdateFinance(-(cost - row.midtransCost), cost - row.midtransCost)
      /\ UNCHANGED <<balance, frozen, topUpVars>>
  BY Zenon DEF MarkWithdrawalDisbursed, Paid
<1> HIDE DEF cost
<1>5. /\ paid \in WithdrawalRows
      /\ paid.user = row.user /\ paid.amount = row.amount
      /\ paid.status = "PAID" /\ paid.midtransCostActual = cost
  BY <1>1, <1>3, PaidRow
<1> HIDE DEF paid
<1>6. /\ withdrawal' \in [Withdrawals -> WithdrawalRows \cup {NoRow}]
      /\ withdrawal'[w] = paid
      /\ \A x \in Withdrawals : x # w => withdrawal'[x] = withdrawal[x]
  BY <1>4, <1>5 DEF RowsInv, Types
<1>7. revenue' \in Int /\ midtransFees' \in Int
  BY <1>2, <1>3, <1>4 DEF UpdateFinance, RowsInv, Types
<1>8. Types'
  BY <1>4, <1>6, <1>7 DEF RowsInv, Types, topUpVars
<1>9. Linked'
  BY <1>4 DEF RowsInv, Linked, topUpVars
<1>10. PaidKnown'
  BY <1>3, <1>5, <1>6 DEF RowsInv, PaidKnown
<1> QED
  BY <1>1, <1>3, <1>4, <1>5, <1>6, <1>8, <1>9, <1>10 DEF RowsInv, cost

\* The steps of Next.
LEMMA NextCases ==
  ASSUME Next
  PROVE  \/ \E o \in Orders, u \in Users, amount \in TopUpAmounts : InsertDraft(o, u, amount)
         \/ \E o \in Orders :
              \/ SnapAccepted(o)
              \/ \E reached, marked \in BOOLEAN : SnapFails(o, reached, marked)
              \/ Settle(o) \/ Decline(o) \/ Expire(o)
              \/ MarkTopUpFailed(o)
         \/ \E o \in Orders : ConfirmTopUp(o)
         \/ \E w \in Withdrawals, u \in Users, amount \in WithdrawAmounts,
               estimate \in Estimates : RequestWithdrawal(w, u, amount, estimate)
         \/ \E w \in Withdrawals, actual \in ActualCosts \cup {NoCost} :
              MarkWithdrawalDisbursed(w, actual)
         \/ \E u \in Users : Freeze(u) \/ Unfreeze(u)
BY DEF Next, TopUpWallet, Webhook, Withdraw

\* Freezing a wallet changes no row of another table.
LEMMA FreezeRows ==
  ASSUME RowsInv, NEW u \in Users, Freeze(u) \/ Unfreeze(u)
  PROVE  RowsInv' /\ UNCHANGED <<balance, topUpVars, payoutVars>>
BY DEF RowsInv, Types, Linked, PaidKnown, Freeze, Unfreeze, topUpVars, payoutVars

LEMMA RowsNext == RowsInv /\ [Next]_vars => RowsInv'
<1> SUFFICES ASSUME RowsInv, [Next]_vars PROVE RowsInv'
  OBVIOUS
<1>1. CASE UNCHANGED vars
  BY <1>1 DEF RowsInv, Types, Linked, PaidKnown, vars, topUpVars, payoutVars
<1>2. CASE Next
  BY <1>2, NextCases, DraftRows, GatewayRows, ConfirmRows, RequestRows, DisbursedRows,
     FreezeRows
<1> QED
  BY <1>1, <1>2

LEMMA InitRows == Init => RowsInv /\ FirstCredit /\ CreditsArePaid
BY WalletAssumption DEF Init, RowsInv, Types, Linked, PaidKnown, FirstCredit, CreditsArePaid,
   TopUps, WalletTxStatus, SnapStates, Notices

\* The rows are typed, and messages and rows go together.
THEOREM RowsCorrect == Spec => []RowsInv
BY InitRows, RowsNext, PTL DEF Spec

-----------------------------------------------------------------------------
(* Who is credited and how often.                                          *)

\* A draft that is new or that fails was credited as often as before, and an
\* order loses its SUCCESS only to the history.
LEMMA GatewayCredits ==
  ASSUME CreditInv, NEW o \in Orders,
         \/ SnapAccepted(o)
         \/ \E reached, marked \in BOOLEAN : SnapFails(o, reached, marked)
         \/ Settle(o) \/ Decline(o) \/ Expire(o)
         \/ MarkTopUpFailed(o)
  PROVE  FirstCredit' /\ CreditsArePaid'
<1>1. CASE \/ SnapAccepted(o)
           \/ \E reached, marked \in BOOLEAN : SnapFails(o, reached, marked)
  <2>1. snap[o] = "calling" /\ draft[o] # "SUCCESS" /\ credits[o] = 0
    BY <1>1 DEF SnapAccepted, SnapFails, CreditInv, CreditsArePaid, RowsInv, Types
  <2>2. /\ UNCHANGED <<credits, reversed>>
        /\ \A x \in Orders : x # o => draft'[x] = draft[x] /\ snap'[x] = snap[x]
        /\ draft'[o] # "SUCCESS"
    BY <1>1, <2>1 DEF SnapAccepted, SnapFails, MarkWalletTxStatus, CreditInv, RowsInv, Types
  <2> QED
    BY <2>1, <2>2 DEF CreditInv, FirstCredit, CreditsArePaid
<1>2. CASE Settle(o) \/ Decline(o) \/ Expire(o)
  <2>1. /\ UNCHANGED <<draft, credits, reversed>>
        /\ \A x \in Orders : x # o => snap'[x] = snap[x]
        /\ snap[o] # "settled"
    BY <1>2 DEF Settle, Decline, Expire, CreditInv, RowsInv, Types
  <2>2. credits[o] = 0
    BY <2>1 DEF CreditInv, CreditsArePaid, RowsInv, Types
  <2> QED
    BY <2>1, <2>2 DEF CreditInv, FirstCredit, CreditsArePaid
<1>3. CASE MarkTopUpFailed(o)
  BY <1>3 DEF MarkTopUpFailed, MarkWalletTxStatus, CreditInv, RowsInv, Types, FirstCredit,
     CreditsArePaid
<1> QED
  BY <1>1, <1>2, <1>3

\* A settlement that is confirmed credits an order the gateway settled.
LEMMA ConfirmCredits ==
  ASSUME CreditInv, NEW o \in Orders, ConfirmTopUp(o)
  PROVE  FirstCredit' /\ CreditsArePaid'
<1>1. /\ draft' = [draft EXCEPT ![o] = "SUCCESS"]
      /\ credits' = [credits EXCEPT ![o] = @ + 1]
      /\ UNCHANGED <<snap, reversed>>
  BY ConfirmRows DEF CreditInv
<1>2. draft[o] # "SUCCESS" /\ snap[o] = "settled"
  BY DEF ConfirmTopUp, CreditInv, RowsInv, Linked
<1>3. \A x \in Orders : credits[x] \in Nat
  BY WalletAssumption DEF CreditInv, RowsInv, Types
<1>4. credits'[o] = credits[o] + 1 /\ draft'[o] = "SUCCESS"
  BY <1>1 DEF CreditInv, RowsInv, Types
<1>5. \A x \in Orders : x # o => credits'[x] = credits[x] /\ draft'[x] = draft[x]
  BY <1>1 DEF CreditInv, RowsInv, Types
<1> QED
  BY <1>1, <1>2, <1>3, <1>4, <1>5 DEF CreditInv, FirstCredit, CreditsArePaid

LEMMA CreditNext == CreditInv /\ [Next]_vars => CreditInv'
<1> SUFFICES ASSUME CreditInv, [Next]_vars PROVE CreditInv'
  OBVIOUS
<1>1. RowsInv'
  BY RowsNext DEF CreditInv
<1>2. CASE UNCHANGED <<topUpVars>>
  BY <1>1, <1>2 DEF CreditInv, FirstCredit, CreditsArePaid, topUpVars
<1>3. ASSUME NEW o \in Orders, NEW u \in Users, NEW amount \in TopUpAmounts,
             InsertDraft(o, u, amount)
      PROVE  CreditInv'
  <2>1. draft[o] = "NONE" /\ credits[o] = 0
    BY <1>3 DEF InsertDraft, CreditInv, RowsInv, Types, Linked, CreditsArePaid
  <2>2. /\ draft' = [draft EXCEPT ![o] = "PENDING"]
        /\ snap' = [snap EXCEPT ![o] = "calling"]
        /\ UNCHANGED <<credits, reversed>>
    BY <1>3 DEF InsertDraft
  <2> QED
    BY <1>1, <2>1, <2>2 DEF CreditInv, RowsInv, Types, FirstCredit, CreditsArePaid
<1>4. CASE UNCHANGED vars
  BY <1>2, <1>4 DEF vars
<1>5. CASE Next
  <2>1. ASSUME NEW w \in Withdrawals, NEW u \in Users, NEW amount \in WithdrawAmounts,
               NEW estimate \in Estimates, RequestWithdrawal(w, u, amount, estimate)
        PROVE  CreditInv'
    BY <1>2, <2>1 DEF RequestWithdrawal
  <2>2. ASSUME NEW w \in Withdrawals, NEW actual \in ActualCosts \cup {NoCost},
               MarkWithdrawalDisbursed(w, actual)
        PROVE  CreditInv'
    BY <1>2, <2>2 DEF MarkWithdrawalDisbursed
  <2>3. ASSUME NEW u \in Users, Freeze(u) \/ Unfreeze(u)
        PROVE  CreditInv'
    BY <1>2, <2>3 DEF Freeze, Unfreeze
  <2>4. ASSUME NEW o \in Orders, ConfirmTopUp(o)
        PROVE  CreditInv'
    BY <1>1, <2>4, ConfirmCredits DEF CreditInv
  <2>5. ASSUME NEW o \in Orders,
               \/ SnapAccepted(o)
               \/ \E reached, marked \in BOOLEAN : SnapFails(o, reached, marked)
               \/ Settle(o) \/ Decline(o) \/ Expire(o)
               \/ MarkTopUpFailed(o)
        PROVE  CreditInv'
    BY <1>1, <2>5, GatewayCredits DEF CreditInv
  <2> QED
    BY <1>3, <1>5, <2>1, <2>2, <2>3, <2>4, <2>5, NextCases, Zenon
<1> QED
  BY <1>4, <1>5

LEMMA CreditCorrect == Spec => []CreditInv
<1>1. Init => CreditInv
  BY InitRows DEF CreditInv
<1> QED
  BY <1>1, CreditNext, PTL DEF Spec

\* A settlement credits once, however often it is delivered, unless an
\* unsuccessful notification took the SUCCESS away in between.
THEOREM RepeatsCorrect == Spec => []RepeatsCreditOnce
<1>1. CreditInv => RepeatsCreditOnce
  BY DEF CreditInv, FirstCredit, RepeatsCreditOnce
<1> QED
  BY <1>1, CreditCorrect, PTL

\* Only orders the gateway settled are credited, and SUCCESS means credited.
THEOREM CreditsCorrect == Spec => []CreditsArePaid
<1>1. CreditInv => CreditsArePaid
  BY DEF CreditInv
<1> QED
  BY <1>1, CreditCorrect, PTL

-----------------------------------------------------------------------------
(* Reconciling the wallets.  The rows of an id that is not used yet count   *)
(* for nothing, so that every sum runs over the same ids in every state.   *)

CreditFlow(u) == [o \in Orders |->
  IF draft[o] # "NONE" /\ order[o].owner = u THEN credits[o] * order[o].amount ELSE 0]

DebitFlow(u) == [w \in Withdrawals |->
  IF withdrawal[w] # NoRow /\ withdrawal[w].user = u
  THEN withdrawal[w].amount + WithdrawFeeToUser ELSE 0]

\* One more credit of an order adds its amount.
LEMMA OneMore ==
  ASSUME NEW n \in Nat, NEW amount \in Nat
  PROVE  n * amount \in Nat /\ (n + 1) * amount = n * amount + amount /\ 0 * amount = 0
OBVIOUS

\* Adding up the flows is adding up the rows.
FlowTotals ==
  \A u \in Users :
    /\ CreditFlow(u) \in [Orders -> Nat] /\ DebitFlow(u) \in [Withdrawals -> Nat]
    /\ Total(CreditedTo(u)) = Total(CreditFlow(u))
    /\ Total(WithdrawnBy(u)) = Total(DebitFlow(u))
    /\ Total(CreditFlow(u)) \in Nat /\ Total(DebitFlow(u)) \in Nat

LEMMA Flows == RowsInv => FlowTotals
<1> SUFFICES ASSUME RowsInv, NEW u \in Users
             PROVE  /\ CreditFlow(u) \in [Orders -> Nat] /\ DebitFlow(u) \in [Withdrawals -> Nat]
                    /\ Total(CreditedTo(u)) = Total(CreditFlow(u))
                    /\ Total(WithdrawnBy(u)) = Total(DebitFlow(u))
                    /\ Total(CreditFlow(u)) \in Nat /\ Total(DebitFlow(u)) \in Nat
  BY DEF FlowTotals
<1>1. \A o \in Drafted : credits[o] * order[o].amount \in Nat
  <2> SUFFICES ASSUME NEW o \in Drafted PROVE credits[o] * order[o].amount \in Nat
    OBVIOUS
  <2>1. credits[o] \in Nat /\ order[o].amount \in Nat
    BY WalletAssumption DEF Drafted, RowsInv, Types, TopUps
  <2> QED BY <2>1, OneMore
<1>2. \A w \in Requested : withdrawal[w].amount + WithdrawFeeToUser \in Nat
  BY WalletAssumption DEF Requested, RowsInv, Types, WithdrawalRows
<1>3. Drafted \subseteq Orders /\ Requested \subseteq Withdrawals
  BY DEF Drafted, Requested
<1>4. CreditFlow(u) \in [Orders -> Nat] /\ CreditedTo(u) \in [Drafted -> Nat]
  BY <1>1 DEF CreditFlow, CreditedTo, Drafted
<1>5. DebitFlow(u) \in [Withdrawals -> Nat] /\ WithdrawnBy(u) \in [Requested -> Nat]
  BY <1>2 DEF DebitFlow, WithdrawnBy, Requested
<1>6. /\ \A o \in Drafted : CreditFlow(u)[o] = CreditedTo(u)[o]
      /\ \A o \in Orders : o \notin Drafted => CreditFlow(u)[o] = 0
  BY DEF CreditFlow, CreditedTo, Drafted
<1>7. /\ \A w \in Requested : DebitFlow(u)[w] = WithdrawnBy(u)[w]
      /\ \A w \in Withdrawals : w \notin Requested => DebitFlow(u)[w] = 0
  BY DEF DebitFlow, WithdrawnBy, Requested
<1>8. Total(CreditedTo(u)) = Total(CreditFlow(u))
  BY <1>3, <1>4, <1>6, TotalExtend
<1>9. Total(WithdrawnBy(u)) = Total(DebitFlow(u))
  BY <1>3, <1>5, <1>7, TotalExtend
<1> QED
  BY <1>4, <1>5, <1>8, <1>9, TotalType, WalletAssumption

LEMMA FlowsNext == RowsInv' => FlowTotals'
BY Flows, PTL

\* What a wallet should hold, in terms of the flows.
Reconciled(u) == balance[u] + Total(DebitFlow(u)) = InitialBalance[u] + Total(CreditFlow(u))

LEMMA ReconciledMeans == RowsInv => (BalanceReconciles <=> \A u \in Users : Reconciled(u))
BY Flows DEF FlowTotals, BalanceReconciles, Reconciled

\* Crediting: the wallet of the owner and the flow of its credits grow alike.
LEMMA ConfirmBooks ==
  ASSUME RowsInv, NEW o \in Orders, ConfirmTopUp(o), NEW u \in Users, Reconciled(u)
  PROVE  Reconciled(u)'
<1> DEFINE amount == IF order[o].owner = u THEN order[o].amount ELSE 0
           before == CreditFlow(u)
           after == CreditFlow(u)'
<1>1. /\ RowsInv' /\ draft[o] # "NONE" /\ order[o] \in TopUps
      /\ balance' = [balance EXCEPT ![order[o].owner] = @ + order[o].amount]
      /\ draft' = [draft EXCEPT ![o] = "SUCCESS"]
      /\ credits' = [credits EXCEPT ![o] = @ + 1]
      /\ UNCHANGED <<order, withdrawal>>
  BY ConfirmRows DEF payoutVars
<1>2. order[o].owner \in Users /\ order[o].amount \in Nat /\ amount \in Nat
  BY <1>1 DEF TopUps
<1>3. balance[u] \in Nat /\ balance'[u] = balance[u] + amount
  BY <1>1, <1>2 DEF RowsInv, Types
<1>4. before \in [Orders -> Nat] /\ after \in [Orders -> Nat]
  BY <1>1, Flows, FlowsNext DEF FlowTotals
<1>5. credits[o] \in Nat /\ credits'[o] = credits[o] + 1 /\ draft'[o] # "NONE"
  BY <1>1, WalletAssumption DEF RowsInv, Types
<1>6. after[o] = before[o] + amount
  <2>1. (credits[o] + 1) * order[o].amount = credits[o] * order[o].amount + order[o].amount
    BY <1>2, <1>5, OneMore
  <2>2. credits[o] * order[o].amount \in Nat
    BY <1>2, <1>5, OneMore
  <2>3. CASE order[o].owner = u
    <3>1. before[o] = credits[o] * order[o].amount
      BY <1>1, <2>3 DEF CreditFlow
    <3>2. after[o] = (credits[o] + 1) * order[o].amount
      BY <1>1, <1>5, <2>3 DEF CreditFlow
    <3> QED BY <2>1, <2>3, <3>1, <3>2
  <2>4. CASE order[o].owner # u
    BY <1>1, <2>4 DEF CreditFlow
  <2> QED BY <2>3, <2>4
<1>7. \A x \in Orders : x # o => after[x] = before[x]
  BY <1>1 DEF CreditFlow, RowsInv, Types
<1>8. Total(DebitFlow(u))' = Total(DebitFlow(u))
  BY <1>1 DEF DebitFlow, Total, Coins, Purse
<1> HIDE DEF amount, before, after
<1>9. Total(after) = Total(before) - before[o] + after[o]
  BY <1>4, <1>7, TotalChange, WalletAssumption
<1>10. before[o] \in Nat
  BY <1>4
<1>11. /\ Total(before) \in Nat /\ Total(DebitFlow(u)) \in Nat
       /\ InitialBalance[u] \in Nat
  BY Flows, WalletAssumption DEF FlowTotals, before
<1>12. Total(after) = Total(before) + amount
  BY <1>2, <1>6, <1>9, <1>10, <1>11
<1>13. balance[u] + Total(DebitFlow(u)) = InitialBalance[u] + Total(before)
  BY DEF Reconciled, before
<1>14. balance'[u] + Total(DebitFlow(u)) = InitialBalance[u] + Total(after)
  BY <1>2, <1>3, <1>11, <1>12, <1>13
<1> QED
  BY <1>8, <1>14 DEF Reconciled, after

\* Withdrawing: amount and fee leave the wallet and enter the flow of debits.
LEMMA RequestBooks ==
  ASSUME RowsInv, NEW w \in Withdrawals, NEW v \in Users, NEW amount \in WithdrawAmounts,
         NEW estimate \in Estimates, RequestWithdrawal(w, v, amount, estimate),
         NEW u \in Users, Reconciled(u)
  PROVE  Reconciled(u)'
<1> DEFINE cost == IF v = u THEN amount + WithdrawFeeToUser ELSE 0
           before == DebitFlow(u)
           after == DebitFlow(u)'
<1>1. /\ RowsInv' /\ amount \in Nat \ {0} /\ withdrawal[w] = NoRow
      /\ balance'[v] = balance[v] - amount - WithdrawFeeToUser
      /\ \A x \in Users : x # v => balance'[x] = balance[x]
      /\ withdrawal'[w] # NoRow
      /\ withdrawal'[w].user = v /\ withdrawal'[w].amount = amount
      /\ \A x \in Withdrawals : x # w => withdrawal'[x] = withdrawal[x]
  BY RequestRows
<1>2. cost \in Nat /\ WithdrawFeeToUser \in Nat
  BY <1>1, WalletAssumption
<1>3. balance[u] \in Nat /\ balance'[u] = balance[u] - cost
  <2>1. balance[u] \in Nat
    BY DEF RowsInv, Types
  <2> QED BY <1>1, <1>2, <2>1
<1>4. before \in [Withdrawals -> Nat] /\ after \in [Withdrawals -> Nat]
  BY <1>1, Flows, FlowsNext DEF FlowTotals
<1>5. before[w] = 0 /\ after[w] = cost
  BY <1>1 DEF DebitFlow
<1>6. \A x \in Withdrawals : x # w => after[x] = before[x]
  BY <1>1 DEF DebitFlow
<1>7. CreditFlow(u)' = CreditFlow(u)
  BY DEF RequestWithdrawal, topUpVars, CreditFlow
<1>8. Total(CreditFlow(u))' = Total(CreditFlow(u))
  BY <1>7 DEF Total, Coins, Purse
<1> HIDE DEF cost, before, after
<1>9. Total(after) = Total(before) - before[w] + after[w]
  BY <1>4, <1>6, TotalChange, WalletAssumption
<1>10. /\ Total(before) \in Nat /\ Total(CreditFlow(u)) \in Nat
       /\ InitialBalance[u] \in Nat
  BY Flows, WalletAssumption DEF FlowTotals, before
<1>11. balance[u] + Total(before) = InitialBalance[u] + Total(CreditFlow(u))
  BY DEF Reconciled, before
<1>12. balance'[u] + Total(after) = InitialBalance[u] + Total(CreditFlow(u))
  BY <1>2, <1>3, <1>5, <1>9, <1>10, <1>11
<1> QED
  BY <1>8, <1>12 DEF Reconciled, after

\* Every other step leaves the balances and the flows alone.
LEMMA OtherBooks ==
  ASSUME RowsInv, UNCHANGED <<balance>>, NEW u \in Users, Reconciled(u),
         \A o \in Orders : CreditFlow(u)'[o] = CreditFlow(u)[o],
         \A w \in Withdrawals : DebitFlow(u)'[w] = DebitFlow(u)[w]
  PROVE  Reconciled(u)'
<1>1. CreditFlow(u)' = CreditFlow(u) /\ DebitFlow(u)' = DebitFlow(u)
  BY DEF CreditFlow, DebitFlow
<1>2. Total(CreditFlow(u))' = Total(CreditFlow(u)) /\ Total(DebitFlow(u))' = Total(DebitFlow(u))
  BY <1>1 DEF Total, Coins, Purse
<1> QED
  BY <1>2 DEF Reconciled

LEMMA ReconciledNext ==
  ASSUME CreditInv, [Next]_vars, NEW u \in Users, Reconciled(u)
  PROVE  Reconciled(u)'
<1>0. RowsInv
  BY DEF CreditInv
<1>1. ASSUME NEW o \in Orders, NEW v \in Users, NEW amount \in TopUpAmounts,
             InsertDraft(o, v, amount)
      PROVE  Reconciled(u)'
  <2>1. balance' = balance
    BY <1>0, <1>1, DraftRows
  <2>2. draft[o] = "NONE" /\ credits[o] = 0
    BY <1>1 DEF InsertDraft, CreditInv, RowsInv, Types, Linked, CreditsArePaid
  <2>3. /\ order' = [order EXCEPT ![o] = [owner |-> v, amount |-> amount]]
        /\ draft' = [draft EXCEPT ![o] = "PENDING"]
        /\ UNCHANGED <<credits, withdrawal>>
    BY <1>1 DEF InsertDraft, payoutVars
  <2>4. /\ draft'[o] = "PENDING" /\ order'[o].amount = amount /\ credits'[o] = 0
        /\ amount \in Nat
    BY <1>1, <2>2, <2>3, WalletAssumption DEF InsertDraft, CreditInv, RowsInv, Types
  <2>5. CreditFlow(u)[o] = 0 /\ CreditFlow(u)'[o] = 0
    BY <2>2, <2>4, OneMore DEF CreditFlow
  <2>6. \A x \in Orders : CreditFlow(u)'[x] = CreditFlow(u)[x]
    BY <2>3, <2>5 DEF CreditFlow, CreditInv, RowsInv, Types
  <2>7. \A w \in Withdrawals : DebitFlow(u)'[w] = DebitFlow(u)[w]
    BY <2>3 DEF DebitFlow
  <2> QED
    BY <1>0, <2>1, <2>6, <2>7, OtherBooks
<1>2. ASSUME NEW o \in Orders,
             \/ SnapAccepted(o)
             \/ \E reached, marked \in BOOLEAN : SnapFails(o, reached, marked)
             \/ Settle(o) \/ Decline(o) \/ Expire(o)
             \/ MarkTopUpFailed(o)
      PROVE  Reconciled(u)'
  <2>1. /\ UNCHANGED <<balance, order, credits, withdrawal>>
        /\ draft' = draft \/ draft' = [draft EXCEPT ![o] = "FAILED"]
    BY <1>2 DEF SnapAccepted, SnapFails, Settle, Decline, Expire, MarkTopUpFailed,
       MarkWalletTxStatus, payoutVars
  <2>2. draft[o] # "NONE"
    BY <1>0, <1>2 DEF SnapAccepted, SnapFails, Settle, Decline, Expire, MarkTopUpFailed,
       RowsInv, Linked
  <2>3. \A x \in Orders : CreditFlow(u)'[x] = CreditFlow(u)[x]
    BY <1>0, <2>1, <2>2 DEF CreditFlow, RowsInv, Types
  <2>4. \A w \in Withdrawals : DebitFlow(u)'[w] = DebitFlow(u)[w]
    BY <2>1 DEF DebitFlow
  <2> QED
    BY <1>0, <2>1, <2>3, <2>4, OtherBooks
<1>3. ASSUME NEW w \in Withdrawals, NEW actual \in ActualCosts \cup {NoCost},
             MarkWithdrawalDisbursed(w, actual)
      PROVE  Reconciled(u)'
  <2>1. UNCHANGED <<balance, order, draft, credits>>
    BY <1>3 DEF MarkWithdrawalDisbursed, topUpVars
  <2>2. /\ withdrawal[w] \in WithdrawalRows /\ withdrawal'[w] \in WithdrawalRows
        /\ withdrawal'[w].user = withdrawal[w].user
        /\ withdrawal'[w].amount = withdrawal[w].amount
        /\ \A x \in Withdrawals : x # w => withdrawal'[x] = withdrawal[x]
    BY <1>0, <1>3, DisbursedRows
  <2>3. \A x \in Orders : CreditFlow(u)'[x] = CreditFlow(u)[x]
    BY <2>1 DEF CreditFlow
  <2>4. \A x \in Withdrawals : DebitFlow(u)'[x] = DebitFlow(u)[x]
    BY <2>2, WalletAssumption DEF DebitFlow
  <2> QED
    BY <1>0, <2>1, <2>3, <2>4, OtherBooks
<1>4. CASE UNCHANGED <<balance, order, draft, credits, withdrawal>>
  <2>1. \A x \in Orders : CreditFlow(u)'[x] = CreditFlow(u)[x]
    BY <1>4 DEF CreditFlow
  <2>2. \A x \in Withdrawals : DebitFlow(u)'[x] = DebitFlow(u)[x]
    BY <1>4 DEF DebitFlow
  <2> QED
    BY <1>0, <1>4, <2>1, <2>2, OtherBooks
<1>5. ASSUME NEW v \in Users, Freeze(v) \/ Unfreeze(v)
      PROVE  Reconciled(u)'
  BY <1>4, <1>5 DEF Freeze, Unfreeze, topUpVars, payoutVars
<1>6. CASE UNCHANGED vars
  BY <1>4, <1>6 DEF vars, topUpVars, payoutVars
<1>7. CASE Next
  BY <1>0, <1>1, <1>2, <1>3, <1>5, <1>7, NextCases, ConfirmBooks, RequestBooks
<1> QED
  BY <1>6, <1>7

Books == CreditInv /\ \A u \in Users : Reconciled(u)

\* Every wallet reconciles with its top-ups and its withdrawals.
THEOREM BalanceCorrect == Spec => []BalanceReconciles
<1>1. Init => Books
  <2>1. Init => CreditInv
    BY InitRows DEF CreditInv
  <2> SUFFICES ASSUME Init, NEW u \in Users PROVE Reconciled(u)
    BY <2>1 DEF Books
  <2>2. /\ \A o \in Orders : CreditFlow(u)[o] = 0
        /\ \A w \in Withdrawals : DebitFlow(u)[w] = 0
    BY DEF Init, CreditFlow, DebitFlow
  <2>3. Total(CreditFlow(u)) = 0 /\ Total(DebitFlow(u)) = 0
    BY <2>1, <2>2, Flows, TotalZero DEF CreditInv, FlowTotals
  <2>4. balance[u] = InitialBalance[u] /\ InitialBalance[u] \in Nat
    BY WalletAssumption DEF Init
  <2> QED
    BY <2>1, <2>3, <2>4 DEF Reconciled
<1>2. Books /\ [Next]_vars => Books'
  BY CreditNext, ReconciledNext DEF Books
<1>3. Books => BalanceReconciles
  BY ReconciledMeans DEF Books, CreditInv
<1> QED
  BY <1>1, <1>2, <1>3, PTL DEF Spec

-----------------------------------------------------------------------------
(* The fee ledger.                                                         *)

\* The known cost of every withdrawal, nothing for an id that is not used.
CostFlow == [w \in Withdrawals |->
  IF withdrawal[w] = NoRow THEN 0
  ELSE IF withdrawal[w].status = "PAID" THEN withdrawal[w].midtransCostActual
                                        ELSE withdrawal[w].midtransCost]

CostTotals ==
  /\ CostFlow \in [Withdrawals -> Nat]
  /\ Total(KnownCost) = Total(CostFlow) /\ Total(CostFlow) \in Nat
  /\ IsFiniteSet(Requested) /\ Cardinality(Requested) \in Nat

LEMMA Costs == RowsInv => CostTotals
<1> SUFFICES ASSUME RowsInv PROVE CostTotals
  OBVIOUS
<1>1. \A w \in Withdrawals :
        withdrawal[w] # NoRow => /\ withdrawal[w].midtransCost \in Nat
                                 /\ withdrawal[w].status = "PAID"
                                      => withdrawal[w].midtransCostActual \in Nat
  BY DEF RowsInv, Types, PaidKnown, WithdrawalRows
<1>2. CostFlow \in [Withdrawals -> Nat] /\ KnownCost \in [Requested -> Nat]
  BY <1>1 DEF CostFlow, KnownCost, Requested
<1>3. /\ \A w \in Requested : CostFlow[w] = KnownCost[w]
      /\ \A w \in Withdrawals : w \notin Requested => CostFlow[w] = 0
      /\ Requested \subseteq Withdrawals
  BY DEF CostFlow, KnownCost, Requested
<1>4. Total(KnownCost) = Total(CostFlow)
  BY <1>2, <1>3, TotalExtend
<1>5. IsFiniteSet(Requested)
  BY <1>3, FS_Subset, WalletAssumption
<1> QED
  BY <1>2, <1>4, <1>5, TotalType, FS_CardinalityType, WalletAssumption DEF CostTotals

LEMMA CostsNext == RowsInv' => CostTotals'
BY Costs, PTL

FeesInv == RowsInv /\ FeesTrueUp

\* A request adds its estimate to the ledger and its gross fee to both.
LEMMA RequestFees ==
  ASSUME FeesInv, NEW w \in Withdrawals, NEW u \in Users, NEW amount \in WithdrawAmounts,
         NEW estimate \in Estimates, RequestWithdrawal(w, u, amount, estimate)
  PROVE  FeesTrueUp'
<1> DEFINE before == CostFlow
           after == CostFlow'
           n == Cardinality(Requested)
<1>1. /\ RowsInv' /\ estimate \in Nat /\ withdrawal[w] = NoRow
      /\ withdrawal'[w] # NoRow
      /\ withdrawal'[w].midtransCost = estimate /\ withdrawal'[w].status = "PENDING"
      /\ \A x \in Withdrawals : x # w => withdrawal'[x] = withdrawal[x]
  BY RequestRows DEF FeesInv
<1>2. /\ revenue' = revenue + (WithdrawFeeToUser - estimate)
      /\ midtransFees' = midtransFees + estimate
  BY DEF RequestWithdrawal, UpdateFinance
<1>3. /\ before \in [Withdrawals -> Nat] /\ Total(before) \in Nat
      /\ after \in [Withdrawals -> Nat]
      /\ Total(KnownCost)' = Total(after)
      /\ IsFiniteSet(Requested) /\ n \in Nat
  BY <1>1, Costs, CostsNext DEF CostTotals, FeesInv
<1>4. before[w] = 0 /\ after[w] = estimate
  BY <1>1 DEF CostFlow
<1>5. \A x \in Withdrawals : x # w => after[x] = before[x]
  BY <1>1 DEF CostFlow
<1>6. w \notin Requested /\ Requested' = Requested \cup {w}
  BY <1>1 DEF Requested
<1>7. Cardinality(Requested') = n + 1
  BY <1>3, <1>6, FS_AddElement
<1>8. midtransFees = Total(before) /\ revenue + midtransFees = n * WithdrawFeeToUser
  BY Costs DEF FeesInv, FeesTrueUp, CostTotals
<1>9. revenue \in Int /\ WithdrawFeeToUser \in Nat
  BY WalletAssumption DEF FeesInv, RowsInv, Types
<1> HIDE DEF before, after, n
<1>10. Total(after) = Total(before) + estimate
  BY <1>1, <1>3, <1>4, <1>5, TotalChange, WalletAssumption
<1>11. (n + 1) * WithdrawFeeToUser = n * WithdrawFeeToUser + WithdrawFeeToUser
       /\ n * WithdrawFeeToUser \in Nat
  BY <1>3, <1>9, OneMore
<1>12. midtransFees' = Total(after)
  BY <1>1, <1>2, <1>3, <1>8, <1>10
<1>13. revenue' + midtransFees' = (n + 1) * WithdrawFeeToUser
  <2>1. revenue' + midtransFees' = revenue + midtransFees + WithdrawFeeToUser
    BY <1>1, <1>2, <1>3, <1>8, <1>9
  <2> QED BY <1>8, <1>11, <2>1
<1> QED
  BY <1>3, <1>7, <1>12, <1>13 DEF FeesTrueUp

\* The true-up moves the difference from the revenue to the ledger, once.
LEMMA DisbursedFees ==
  ASSUME FeesInv, NEW w \in Withdrawals, NEW actual \in ActualCosts \cup {NoCost},
         MarkWithdrawalDisbursed(w, actual)
  PROVE  FeesTrueUp'
<1> DEFINE before == CostFlow
           after == CostFlow'
           cost == Reported(w, actual)
           estimate == withdrawal[w].midtransCost
<1>1. /\ RowsInv'
      /\ withdrawal[w] \in WithdrawalRows /\ withdrawal'[w] \in WithdrawalRows
      /\ withdrawal[w].status = "PENDING" /\ withdrawal'[w].status = "PAID"
      /\ withdrawal'[w].midtransCostActual = cost /\ cost \in Nat
      /\ \A x \in Withdrawals : x # w => withdrawal'[x] = withdrawal[x]
  BY DisbursedRows DEF FeesInv
<1>2. estimate \in Nat /\ withdrawal[w] # NoRow /\ withdrawal'[w] # NoRow
  BY <1>1, WalletAssumption DEF WithdrawalRows
<1>3. /\ revenue' = revenue + (-(cost - estimate))
      /\ midtransFees' = midtransFees + (cost - estimate)
  BY DEF MarkWithdrawalDisbursed, UpdateFinance
<1>4. /\ before \in [Withdrawals -> Nat] /\ Total(before) \in Nat
      /\ after \in [Withdrawals -> Nat] /\ Total(after) \in Nat
      /\ Total(KnownCost)' = Total(after)
  BY <1>1, Costs, CostsNext DEF CostTotals, FeesInv
<1>5. before[w] = estimate
  BY <1>1, <1>2 DEF CostFlow
<1>6. after[w] = cost
  BY <1>1, <1>2 DEF CostFlow
<1>7. \A x \in Withdrawals : x # w => after[x] = before[x]
  BY <1>1 DEF CostFlow
<1>8. Requested' = Requested
  BY <1>1, <1>2 DEF Requested
<1>9. midtransFees = Total(before) /\ revenue \in Int
  BY Costs DEF FeesInv, FeesTrueUp, CostTotals, RowsInv, Types
<1> HIDE DEF before, after, cost, estimate
<1>10. Total(after) = Total(before) - estimate + cost
  BY <1>4, <1>5, <1>6, <1>7, TotalChange, WalletAssumption
<1>11. midtransFees' = Total(after)
  BY <1>1, <1>2, <1>3, <1>4, <1>9, <1>10
<1>12. revenue' + midtransFees' = revenue + midtransFees
  BY <1>1, <1>2, <1>3, <1>4, <1>9
<1> QED
  BY <1>4, <1>8, <1>11, <1>12 DEF FeesInv, FeesTrueUp

LEMMA FeesNext == FeesInv /\ [Next]_vars => FeesInv'
<1> SUFFICES ASSUME FeesInv, [Next]_vars PROVE FeesTrueUp'
  BY RowsNext DEF FeesInv
<1>1. CASE UNCHANGED payoutVars
  BY <1>1 DEF FeesInv, FeesTrueUp, KnownCost, Requested, Total, Coins, Purse, payoutVars
<1>2. CASE UNCHANGED vars
  BY <1>1, <1>2 DEF vars
<1>3. CASE Next
  <2>1. ASSUME NEW o \in Orders, NEW u \in Users, NEW amount \in TopUpAmounts,
               InsertDraft(o, u, amount)
        PROVE  FeesTrueUp'
    BY <1>1, <2>1 DEF InsertDraft
  <2>2. ASSUME NEW o \in Orders,
               \/ SnapAccepted(o)
               \/ \E reached, marked \in BOOLEAN : SnapFails(o, reached, marked)
               \/ Settle(o) \/ Decline(o) \/ Expire(o)
               \/ MarkTopUpFailed(o)
        PROVE  FeesTrueUp'
    BY <1>1, <2>2 DEF SnapAccepted, SnapFails, Settle, Decline, Expire, MarkTopUpFailed
  <2>3. ASSUME NEW o \in Orders, ConfirmTopUp(o)
        PROVE  FeesTrueUp'
    BY <1>1, <2>3 DEF ConfirmTopUp
  <2>4. ASSUME NEW u \in Users, Freeze(u) \/ Unfreeze(u)
        PROVE  FeesTrueUp'
    BY <1>1, <2>4 DEF Freeze, Unfreeze
  <2> QED
    BY <1>3, <2>1, <2>2, <2>3, <2>4, NextCases, RequestFees, DisbursedFees
<1> QED
  BY <1>2, <1>3

LEMMA FeesInductive == Spec => []FeesInv
<1>1. Init => FeesInv
  <2> SUFFICES ASSUME Init PROVE FeesTrueUp
    BY InitRows DEF FeesInv
  <2>1. RowsInv
    BY InitRows
  <2>2. Requested = {} /\ \A w \in Withdrawals : CostFlow[w] = 0
    BY DEF Init, Requested, CostFlow
  <2>3. Cardinality(Requested) = 0
    BY <2>2, FS_EmptySet
  <2>4. Total(KnownCost) = 0
    BY <2>1, <2>2, Costs, TotalZero DEF CostTotals
  <2>5. 0 * WithdrawFeeToUser = 0
    BY OneMore, WalletAssumption
  <2> QED
    BY <2>3, <2>4, <2>5 DEF Init, FeesTrueUp
<1> QED
  BY <1>1, FeesNext, PTL DEF Spec

\* The fee ledger is the known cost of every withdrawal and the revenue is
\* what is left of the gross fees.
THEOREM FeesCorrect == Spec => []FeesTrueUp
<1>1. FeesInv => FeesTrueUp
  BY DEF FeesInv
<1> QED
  BY <1>1, FeesInductive, PTL

\* Type correctness; the fee ledger is never negative because it is the sum of
\* the known costs.
THEOREM TypeCorrect == Spec => []TypeOK
<1>1. FeesInv => TypeOK
  BY Costs DEF FeesInv, FeesTrueUp, CostTotals, RowsInv, Types, TypeOK
<1> QED
  BY <1>1, FeesInductive, PTL
=============================================================================
