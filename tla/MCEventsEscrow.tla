--------------------------- MODULE MCEventsEscrow ---------------------------
(***************************************************************************)
(* Small instances of EventsEscrow for TLC.  The platform fee on a budget  *)
(* of 100 is 5, on one of 39 it is rounded down to 1.                      *)
(***************************************************************************)
EXTENDS EventsEscrow, TLC

CONSTANT InitialAmount   \* every wallet starts with as much

MCInitialBalance == [u \in Users |-> InitialAmount]

\* The clients and the invoices are interchangeable.
Symmetry == Permutations(Callers) \cup Permutations(Payouts)
=============================================================================
