---------------------------- MODULE EscrowPromise ----------------------------
(***************************************************************************)
(* What an escrow promises the two parties of a deal, with nothing of how  *)
(* the platform keeps the promise: no requests, no screening, no worker,   *)
(* no dispute desk, no ledger, no crashes.                                 *)
(*                                                                         *)
(* Two members agree on a deal.  Once the buyer has paid, the price is in  *)
(* the vault.  It leaves the vault once and whole: to the seller, less the *)
(* platform's share, or back to the buyer, without one.  A deal either     *)
(* party contests is closed by a decision and by nothing else.             *)
(***************************************************************************)
EXTENDS Integers

CONSTANTS
  Deals,           \* deals that may be agreed on
  Members,         \* who may be buyer or seller
  NoAgreement,     \* "not agreed yet"
  InitialBalance   \* what each member brings along

VARIABLES
  phase,       \* where each deal stands
  agreement,   \* what its parties agreed on
  wallet,      \* what each member holds
  vault,       \* what the escrow holds
  earned       \* what the platform has earned

vars == <<phase, agreement, wallet, vault, earned>>

Phases == {"none", "agreed", "dropped", "held", "contested", "released", "refunded"}
Agreements == [buyer : Members, seller : Members, gross : Nat, net : Nat]

Init ==
  /\ phase = [d \in Deals |-> "none"]
  /\ agreement = [d \in Deals |-> NoAgreement]
  /\ wallet = InitialBalance
  /\ vault = 0
  /\ earned = 0

-----------------------------------------------------------------------------
Move(d, from, to) ==
  /\ phase[d] = from
  /\ phase' = [phase EXCEPT ![d] = to]

Keep == UNCHANGED <<agreement, wallet, vault, earned>>

\* The terms are settled when the deal is agreed on and never afterwards.
Agree(d) ==
  /\ Move(d, "none", "agreed")
  /\ agreement'[d] \in Agreements
  /\ agreement'[d].net <= agreement'[d].gross
  /\ agreement' = [agreement EXCEPT ![d] = agreement'[d]]
  /\ UNCHANGED <<wallet, vault, earned>>

Drop(d) == Move(d, "agreed", "dropped") /\ Keep

\* Nobody pays with money they do not have.
Fund(d) ==
  LET a == agreement[d] IN
  /\ Move(d, "agreed", "held")
  /\ wallet[a.buyer] >= a.gross
  /\ wallet' = [wallet EXCEPT ![a.buyer] = @ - a.gross]
  /\ vault' = vault + a.gross
  /\ UNCHANGED <<agreement, earned>>

Contest(d) == Move(d, "held", "contested") /\ Keep

\* By agreement of the parties, or by decision.
Release(d, from) ==
  LET a == agreement[d] IN
  /\ Move(d, from, "released")
  /\ wallet' = [wallet EXCEPT ![a.seller] = @ + a.net]
  /\ vault' = vault - a.gross
  /\ earned' = earned + (a.gross - a.net)
  /\ UNCHANGED agreement

\* Only by decision.
Refund(d) ==
  LET a == agreement[d] IN
  /\ Move(d, "contested", "refunded")
  /\ wallet' = [wallet EXCEPT ![a.buyer] = @ + a.gross]
  /\ vault' = vault - a.gross
  /\ UNCHANGED <<agreement, earned>>

Next ==
  \E d \in Deals :
    \/ Agree(d)
    \/ Drop(d)
    \/ Fund(d)
    \/ Contest(d)
    \/ \E from \in {"held", "contested"} : Release(d, from)
    \/ Refund(d)

Spec == Init /\ [][Next]_vars
=============================================================================
