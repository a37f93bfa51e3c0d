-------------------------- MODULE MCServicesEscrow --------------------------
(***************************************************************************)
(* Small instances of ServicesEscrow for TLC.  20 rupiah is the smallest   *)
(* amount whose 5% is not nothing, and 39 one whose commission is rounded. *)
(***************************************************************************)
EXTENDS ServicesEscrow, TLC

CONSTANTS
  InitialAmount,   \* what a verified seller's wallet starts with
  BuyingPower      \* what anybody else has on top of it

MCInitialBalance ==
  [u \in Users |-> InitialAmount + (IF u \in VerifiedSellers THEN 0 ELSE BuyingPower)]

\* The clients are interchangeable, and so are the contracts.
Symmetry == Permutations(Callers) \cup Permutations(Txs)
=============================================================================
