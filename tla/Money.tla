-------------------------------- MODULE Money --------------------------------
(***************************************************************************)
(* Adding money up.  The platform keeps balances as whole rupiah in one    *)
(* row per wallet and never stores a total; the test suite adds the rows   *)
(* up (money_conservation_test.go).  Total(f) is that sum for a function f *)
(* that gives a natural number of coins to each element of its domain.     *)
(*                                                                         *)
(* The sum is the number of coins, each coin named by its owner and its    *)
(* place in the owner's purse, so that facts about sums are facts about    *)
(* the cardinality of finite sets and need no induction (MoneyProofs).     *)
(***************************************************************************)
EXTENDS Integers, FiniteSets

\* The coins of one owner.
Purse(f, x) == {x} \X (1 .. f[x])

\* Every coin there is.
Coins(f) == UNION {Purse(f, x) : x \in DOMAIN f}

\* The sum of f[x] over the domain of f.
Total(f) == Cardinality(Coins(f))
=============================================================================
