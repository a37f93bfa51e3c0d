--------------------------- MODULE GoodsRefinement ---------------------------
(***************************************************************************)
(* Goods escrow keeps the promise of EscrowPromise.  Where a deal stands   *)
(* is read off the dispute as long as one is open and off the status       *)
(* otherwise, so that the two tables must agree at every step; the money   *)
(* is the wallets and the platform_finances row.  Release calls in flight, *)
(* screening, the worker, the audit goroutines, ledger rows, deadlines,    *)
(* frozen wallets and crashes are invisible.                               *)
(***************************************************************************)
EXTENDS GoodsEscrow

PhaseOfStatus(s) ==
  CASE s = "NONE" -> "none"
    [] s = "WAITING_PAYMENT" -> "agreed"
    [] s = "CANCELLED" -> "dropped"
    [] s = "FUNDS_LOCKED" -> "held"
    [] s = "DISPUTED" -> "contested"
    [] s = "RELEASED" -> "released"
    [] s = "REFUNDED" -> "refunded"

PhaseOf(t) ==
  IF dispute[t].status \in {"OPEN", "UNDER_REVIEW"} THEN "contested"
                                                   ELSE PhaseOfStatus(status[t])

AgreementOf(t) ==
  IF status[t] = "NONE" THEN NoTerms
  ELSE [buyer |-> terms[t].buyer, seller |-> terms[t].seller,
        gross |-> terms[t].gross, net |-> terms[t].net]

DealPhases == [t \in Txs |-> PhaseOf(t)]
DealAgreements == [t \in Txs |-> AgreementOf(t)]

Promise == INSTANCE EscrowPromise WITH
  Deals <- Txs, Members <- Users, NoAgreement <- NoTerms,
  phase <- DealPhases, agreement <- DealAgreements,
  wallet <- balance, vault <- finance.escrow, earned <- finance.revenue

\* Every behaviour of goods escrow, whatever its requests, workers and crashes
\* do, is one the promise allows: each step of the code is a step of the deal,
\* with exactly its movement of money, or invisible.
KeepsPromise == Promise!Spec
=============================================================================
