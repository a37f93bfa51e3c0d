---------------------------- MODULE MCIdempotency -----------------------------
(***************************************************************************)
(* Small instances of Idempotency for TLC.  Requests are interchangeable,  *)
(* and so are keys.                                                        *)
(***************************************************************************)
EXTENDS Idempotency, TLC

Symmetry == Permutations(Requests) \cup Permutations(Keys)
=============================================================================
