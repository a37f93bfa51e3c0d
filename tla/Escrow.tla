------------------------------- MODULE Escrow -------------------------------
(***************************************************************************)
(* What the three kinds of escrow of core-service share: the transactions  *)
(* table with its status, the disputes table, the wallets, the ledger and  *)
(* the one row of platform cash, and the steps all three kinds take on     *)
(* them.  GoodsEscrow, ServicesEscrow and EventsEscrow extend this module, *)
(* each with the state and the steps of its own kind; a step here leaves   *)
(* that state to them.                                                     *)
(*                                                                         *)
(* Every UnitOfWork of the code is one Serializable database transaction   *)
(* that commits whole or not at all, so it is one step here; a unit of     *)
(* work that fails leaves the database as it was.                          *)
(***************************************************************************)
EXTENDS Money, FinanceCalculator

CONSTANTS
  Users,            \* members with a wallet
  VerifiedSellers,  \* the members whose role is not a plain USER
  Txs,              \* identities of the transactions that may be created
  NoTerms,          \* "no row"
  InitialBalance,   \* what each wallet holds before the first deal
  Freezable         \* bound on the wallets an operator may freeze

ASSUME PartiesAssumption ==
  /\ IsFiniteSet(Users)
  /\ IsFiniteSet(Txs)
  /\ VerifiedSellers \subseteq Users /\ Freezable \subseteq Users
  /\ InitialBalance \in [Users -> Nat]

VARIABLES
  status,     \* transactions.status of each transaction, "NONE" without a row
  terms,      \* the columns fixed when the row is created
  dispute,    \* the dispute row of each transaction
  balance,    \* rekberpay_wallets.balance
  frozen,     \* wallets with is_frozen set
  rows,       \* ledger rows (rekberpay_transactions) per transaction and type
  finance     \* the single platform_finances row

database == <<status, terms, dispute, balance, rows, finance>>

-----------------------------------------------------------------------------
(* Types.                                                                  *)

\* DRAFT exists in the code and no code creates it: every LockFunds starts at
\* WAITING_PAYMENT, which leaves PublishTransaction without a row to act on.
TxStatus == {"NONE", "WAITING_PAYMENT", "FUNDS_LOCKED", "DISPUTED",
             "RELEASED", "REFUNDED", "CANCELLED"}

Terms == [buyer : Users, seller : Users, gross : Nat, net : Nat, midtransFee : {0}]

DisputeStatus == {"NONE", "OPEN", "UNDER_REVIEW", "RESOLVED"}
Outcomes == {"REFUND_BUYER", "RELEASE_TO_SELLER"}
Disputes == [status : DisputeStatus, outcome : Outcomes \cup {"NONE"}]

LedgerTypes == {"PAYMENT", "RECEIVE_FUNDS", "REFUND"}

EscrowTypeOK ==
  /\ status \in [Txs -> TxStatus]
  /\ terms \in [Txs -> Terms \cup {NoTerms}]
  /\ \A t \in Txs : status[t] # "NONE" => terms[t] \in Terms /\ terms[t].net <= terms[t].gross
  /\ dispute \in [Txs -> Disputes]
  /\ balance \in [Users -> Nat]
  /\ frozen \subseteq Users
  /\ rows \in [Txs -> [LedgerTypes -> Nat]]
  /\ finance \in [escrow : Int, revenue : Int, midtransFees : Int]

EscrowInit ==
  /\ status = [t \in Txs |-> "NONE"]
  /\ terms = [t \in Txs |-> NoTerms]
  /\ dispute = [t \in Txs |-> [status |-> "NONE", outcome |-> "NONE"]]
  /\ balance = InitialBalance
  /\ frozen = {}
  /\ rows = [t \in Txs |-> [k \in LedgerTypes |-> 0]]
  /\ finance = [escrow |-> 0, revenue |-> 0, midtransFees |-> 0]

-----------------------------------------------------------------------------
(* The repositories a unit of work uses.                                   *)

\* Mutant: no overdraft check.
UpdateBalanceUnchecked(t, type, u, modifier) ==
  /\ u \notin frozen
  /\ balance' = [balance EXCEPT ![u] = @ + modifier]
  /\ rows' = [rows EXCEPT ![t][type] = @ + 1]

\* UpdateBalanceTx: lock the wallet row, refuse a frozen wallet and an
\* overdraft, move the balance and insert the ledger row.
UpdateBalance(t, type, u, modifier) ==
  /\ u \notin frozen
  /\ modifier < 0 => balance[u] + modifier >= 0
  /\ balance' = [balance EXCEPT ![u] = @ + modifier]
  /\ rows' = [rows EXCEPT ![t][type] = @ + 1]

\* UpdatePlatformFinance: an upsert that adds deltas to the one global row.
UpdateFinance(escrowDelta, revenueDelta, midtransFeeDelta) ==
  finance' = [escrow |-> finance.escrow + escrowDelta,
              revenue |-> finance.revenue + revenueDelta,
              midtransFees |-> finance.midtransFees + midtransFeeDelta]

SetStatus(t, s) == status' = [status EXCEPT ![t] = s]

SetDispute(t, s, outcome) ==
  dispute' = [dispute EXCEPT ![t] = [status |-> s, outcome |-> outcome]]

-----------------------------------------------------------------------------
(* Creating, paying and cancelling a transaction.                          *)

\* enforceSellerLimit: a plain member may sell up to a cap in one deal.
EnforceSellerLimit(s, base) == base <= MaxMemberEventLimit \/ s \in VerifiedSellers

\* CreateTransaction, in the unit of work of every LockFunds: a new row, with
\* the fees settled for good.
CreateTransaction(t, b, s, gross, net) ==
  /\ status[t] = "NONE"
  /\ SetStatus(t, "WAITING_PAYMENT")
  /\ terms' = [terms EXCEPT ![t] =
       [buyer |-> b, seller |-> s, midtransFee |-> 0, gross |-> gross, net |-> net]]
  /\ UNCHANGED <<dispute, balance, frozen, rows, finance>>

\* The payment webhook, as often and as late as the gateway likes.  A webhook
\* for a row that is not WAITING_PAYMENT is acknowledged and changes nothing;
\* one that fails is sent again.
ConfirmPayment(t) ==
  /\ status[t] = "WAITING_PAYMENT"
  /\ UpdateBalance(t, "PAYMENT", terms[t].buyer, -terms[t].gross)
  /\ SetStatus(t, "FUNDS_LOCKED")
  /\ UpdateFinance(terms[t].gross, 0, 0)
  /\ UNCHANGED <<terms, dispute, frozen>>

\* Mutant: a deal that is already paid can be cancelled.
CancelPaidTransaction(t) ==
  /\ status[t] \in {"WAITING_PAYMENT", "FUNDS_LOCKED"}
  /\ SetStatus(t, "CANCELLED")
  /\ UNCHANGED <<terms, dispute, balance, frozen, rows, finance>>

CancelTransaction(t) ==
  /\ status[t] = "WAITING_PAYMENT"
  /\ SetStatus(t, "CANCELLED")
  /\ UNCHANGED <<terms, dispute, balance, frozen, rows, finance>>

-----------------------------------------------------------------------------
(* Disputes.  transaction_id is unique in the disputes table.              *)

\* Mutant: a dispute can still be opened after the release.
OpenDisputeLate(t, raisedBy) ==
  /\ status[t] \in {"FUNDS_LOCKED", "RELEASED"}
  /\ raisedBy \in {terms[t].buyer, terms[t].seller}
  /\ dispute[t].status = "NONE"
  /\ SetDispute(t, "OPEN", "NONE")
  /\ SetStatus(t, "DISPUTED")
  /\ UNCHANGED <<terms, balance, frozen, rows, finance>>

OpenDispute(t, raisedBy) ==
  /\ status[t] = "FUNDS_LOCKED"
  /\ raisedBy \in {terms[t].buyer, terms[t].seller}
  /\ dispute[t].status = "NONE"
  /\ SetDispute(t, "OPEN", "NONE")
  /\ SetStatus(t, "DISPUTED")
  /\ UNCHANGED <<terms, balance, frozen, rows, finance>>

\* Mutant: a resolved dispute can be taken up again.
AcknowledgeAgain(t) ==
  /\ dispute[t].status # "NONE"
  /\ SetDispute(t, "UNDER_REVIEW", "NONE")
  /\ UNCHANGED <<status, terms, balance, frozen, rows, finance>>

AcknowledgeDispute(t) ==
  /\ dispute[t].status = "OPEN"
  /\ SetDispute(t, "UNDER_REVIEW", "NONE")
  /\ UNCHANGED <<status, terms, balance, frozen, rows, finance>>

\* What is left of the gross amount after the milestones released so far.
RefundAmount(t, released) ==
  IF terms[t].gross >= released THEN terms[t].gross - released ELSE 0

\* Mutant: the platform keeps its fee on a refund.
RefundBuyerLessFee(t, released) ==
  /\ UpdateBalance(t, "REFUND", terms[t].buyer, terms[t].net)
  /\ SetStatus(t, "REFUNDED")
  /\ UpdateFinance(-terms[t].gross, terms[t].gross - terms[t].net, 0)

\* Mutant: the refund goes to the wrong party.
RefundSeller(t, released) ==
  /\ UpdateBalance(t, "REFUND", terms[t].seller, RefundAmount(t, released))
  /\ SetStatus(t, "REFUNDED")
  /\ UpdateFinance(-RefundAmount(t, released), 0, 0)

\* Mutant: the net amount is refunded and the gross amount leaves escrow.
RefundNet(t, released) ==
  /\ UpdateBalance(t, "REFUND", terms[t].buyer, terms[t].net)
  /\ SetStatus(t, "REFUNDED")
  /\ UpdateFinance(-terms[t].gross, 0, 0)

\* Mutant: the released milestones are refunded once more.
RefundGross(t, released) ==
  /\ UpdateBalance(t, "REFUND", terms[t].buyer, terms[t].gross)
  /\ SetStatus(t, "REFUNDED")
  /\ UpdateFinance(-terms[t].gross, 0, 0)

\* The buyer gets back what the milestones have left in escrow; goods and
\* events have no milestones, and a refund gives back all of it.
RefundBuyer(t, released) ==
  /\ UpdateBalance(t, "REFUND", terms[t].buyer, RefundAmount(t, released))
  /\ SetStatus(t, "REFUNDED")
  /\ UpdateFinance(-RefundAmount(t, released), 0, 0)

\* Mutant: the seller is paid the gross amount.
PaySellerGross(t) ==
  /\ UpdateBalance(t, "RECEIVE_FUNDS", terms[t].seller, terms[t].gross)
  /\ SetStatus(t, "RELEASED")
  /\ UpdateFinance(-terms[t].gross, terms[t].gross - terms[t].net, terms[t].midtransFee)

\* What a release does to the money, the same in ReleaseFundsGoods and in a
\* dispute resolved for the seller: the seller gets the net amount, the rest
\* of the gross amount becomes revenue.
PaySeller(t) ==
  /\ UpdateBalance(t, "RECEIVE_FUNDS", terms[t].seller, terms[t].net)
  /\ SetStatus(t, "RELEASED")
  /\ UpdateFinance(-terms[t].gross, terms[t].gross - terms[t].net, terms[t].midtransFee)

\* The unit of work of ReleaseFundsGoods reads the status under the row lock
\* and never the type of the transaction: it settles a services contract or an
\* event as it does a goods deal.
ReleaseFundsGoods(t) ==
  /\ status[t] = "FUNDS_LOCKED"
  /\ PaySeller(t)
  /\ UNCHANGED <<terms, dispute, frozen>>

\* released is what GetReleasedMilestonesTotalByTxID adds up.
ResolveDispute(t, outcome, released) ==
  /\ dispute[t].status = "UNDER_REVIEW"
  /\ status[t] = "DISPUTED"
  /\ \/ outcome = "REFUND_BUYER" /\ RefundBuyer(t, released)
     \/ outcome = "RELEASE_TO_SELLER" /\ PaySeller(t)
  /\ SetDispute(t, "RESOLVED", outcome)
  /\ UNCHANGED <<terms, frozen>>

\* A dispute is opened, taken up or resolved.
DisputeStep(t, released) ==
  \/ \E u \in Users : OpenDispute(t, u)
  \/ AcknowledgeDispute(t)
  \/ \E outcome \in Outcomes : ResolveDispute(t, outcome, released)

-----------------------------------------------------------------------------
(* is_frozen is read by every balance mutation and set by nobody in the    *)
(* code: an operator sets and clears it.                                   *)

Freeze(u) ==
  /\ u \in Freezable \ frozen
  /\ frozen' = frozen \cup {u}
  /\ UNCHANGED database

Unfreeze(u) ==
  /\ u \in frozen
  /\ frozen' = frozen \ {u}
  /\ UNCHANGED database

-----------------------------------------------------------------------------
(* What status, dispute and ledger say of each other.                      *)

Held(t) == status[t] \in {"FUNDS_LOCKED", "DISPUTED"}
Settled(t) == status[t] \in {"RELEASED", "REFUNDED"}
Paid(t) == Held(t) \/ Settled(t)

\* A transaction is frozen as DISPUTED exactly while its dispute is open, and
\* a resolved dispute and its transaction tell the same outcome
\* (dispute_usecase.go changes both rows in one unit of work).
DisputeMatchesStatus ==
  \A t \in Txs :
    /\ status[t] = "DISPUTED" <=> dispute[t].status \in {"OPEN", "UNDER_REVIEW"}
    /\ dispute[t].status = "RESOLVED" =>
         \/ dispute[t].outcome = "REFUND_BUYER" /\ status[t] = "REFUNDED"
         \/ dispute[t].outcome = "RELEASE_TO_SELLER" /\ status[t] = "RELEASED"
    /\ status[t] = "REFUNDED" => dispute[t].status = "RESOLVED"
=============================================================================
