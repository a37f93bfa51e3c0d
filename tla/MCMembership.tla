---------------------------- MODULE MCMembership ----------------------------
(***************************************************************************)
(* A small instance of Membership for TLC.                                 *)
(***************************************************************************)
EXTENDS Membership, TLC

\* The members are interchangeable.
Symmetry == Permutations(Members)
=============================================================================
