------------------------------- MODULE MCWallet -------------------------------
(***************************************************************************)
(* Small instances of Wallet for TLC.  The fee is smaller than one of the  *)
(* estimates, so that a withdrawal may lose the platform money, and a      *)
(* wallet pays for one withdrawal before its first top-up, not for two.    *)
(***************************************************************************)
EXTENDS Wallet

CONSTANT InitialAmount   \* every wallet starts with as much

MCInitialBalance == [u \in Users |-> InitialAmount]

\* Costs an administrator may type: one below, one above the estimates, and one
\* that is refused.
MCActualCosts == {-1, 0, 4}
=============================================================================
