---------------------------- MODULE MCGoodsEscrow ----------------------------
(***************************************************************************)
(* Small instances of GoodsEscrow for TLC.  Amounts are a few rupiah, big  *)
(* enough for the percentages not to round to nothing and for a wallet to  *)
(* pay for one deal and not for two.                                       *)
(***************************************************************************)
EXTENDS GoodsRefinement, TLC

CONSTANTS
  InitialAmount,   \* what a verified seller's wallet starts with
  BuyingPower      \* what anybody else has on top of it

MCInitialBalance ==
  [u \in Users |-> InitialAmount + (IF u \in VerifiedSellers THEN 0 ELSE BuyingPower)]

\* The clients are interchangeable.
Symmetry == Permutations(Callers)
=============================================================================
