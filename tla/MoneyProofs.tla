----------------------------- MODULE MoneyProofs -----------------------------
(***************************************************************************)
(* Facts about Money!Total, cited by the proofs about the components that  *)
(* hold money.                                                             *)
(***************************************************************************)
EXTENDS Money, FiniteSetTheorems, TLAPS

\* A purse with n coins in it: the coins of one wallet row are finite and
\* there are as many as its balance says.
LEMMA PurseSize ==
  ASSUME NEW S, NEW f \in [S -> Nat], NEW x \in S
  PROVE  /\ IsFiniteSet(Purse(f, x))
         /\ Cardinality(Purse(f, x)) = f[x]
<1>1. IsFiniteSet({x}) /\ Cardinality({x}) = 1
  BY FS_Singleton
<1>2. f[x] \in Nat
  OBVIOUS
<1>3. IsFiniteSet(1 .. f[x]) /\ Cardinality(1 .. f[x]) = f[x]
  BY <1>2, FS_Interval
<1>4. /\ IsFiniteSet({x} \X (1 .. f[x]))
      /\ Cardinality({x} \X (1 .. f[x])) = 1 * f[x]
  BY <1>1, <1>3, FS_Product
<1> QED
  BY <1>2, <1>4 DEF Purse

\* Finitely many wallets hold finitely many coins.
LEMMA CoinsFinite ==
  ASSUME NEW S, IsFiniteSet(S), NEW f \in [S -> Nat]
  PROVE  IsFiniteSet(Coins(f))
<1> DEFINE purse == [x \in S |-> Purse(f, x)]
           Purses == {Purse(f, x) : x \in S}
<1>1. purse \in Surjection(S, Purses)
  BY Zenon DEF Surjection
<1>2. IsFiniteSet(Purses)
  <2> HIDE DEF purse, Purses
  <2> QED BY <1>1, FS_Surjection
<1>3. \A P \in Purses : IsFiniteSet(P)
  BY PurseSize
<1>4. IsFiniteSet(UNION Purses)
  <2> HIDE DEF Purses
  <2> QED BY <1>2, <1>3, FS_UNION
<1>5. DOMAIN f = S
  OBVIOUS
<1> QED
  BY <1>4, <1>5, Zenon DEF Coins

\* The sum of finitely many natural numbers is a natural number.
LEMMA TotalType ==
  ASSUME NEW S, IsFiniteSet(S), NEW f \in [S -> Nat]
  PROVE  Total(f) \in Nat
BY CoinsFinite, FS_CardinalityType DEF Total

\* A total splits into the part of one element and the part of the others.
LEMMA TotalSplit ==
  ASSUME NEW S, IsFiniteSet(S), NEW f \in [S -> Nat], NEW u \in S
  PROVE  LET Rest == UNION {Purse(f, x) : x \in S \ {u}}
         IN  /\ IsFiniteSet(Rest)
             /\ Total(f) = f[u] + Cardinality(Rest)
<1> DEFINE Rest == UNION {Purse(f, x) : x \in S \ {u}}
<1>1. Coins(f) = Purse(f, u) \cup Rest
  <2>1. DOMAIN f = S
    OBVIOUS
  <2> QED BY <2>1, Zenon DEF Coins
<1>2. Purse(f, u) \cap Rest = {}
  BY DEF Purse
<1>3. IsFiniteSet(Rest)
  <2>1. Rest \in SUBSET Coins(f)
    BY <1>1, Zenon
  <2> HIDE DEF Rest
  <2> QED BY <2>1, CoinsFinite, FS_Subset
<1>4. IsFiniteSet(Purse(f, u)) /\ Cardinality(Purse(f, u)) = f[u]
  BY PurseSize
<1>5. Cardinality(Rest) \in Nat
  BY <1>3, FS_CardinalityType
<1>6. Cardinality(Purse(f, u) \cup Rest) = f[u] + Cardinality(Rest)
  <2> HIDE DEF Rest
  <2>1. Cardinality(Purse(f, u) \cup Rest)
          = Cardinality(Purse(f, u)) + Cardinality(Rest) - Cardinality(Purse(f, u) \cap Rest)
    BY <1>3, <1>4, FS_Union, Zenon
  <2>2. Cardinality(Purse(f, u) \cap Rest) = 0
    BY <1>2, FS_EmptySet, Zenon
  <2>3. f[u] \in Nat
    OBVIOUS
  <2> QED BY <1>4, <1>5, <2>1, <2>2, <2>3
<1> QED
  BY <1>1, <1>3, <1>6, Zenon DEF Total

\* Two functions that differ in one element differ in their totals by as much.
LEMMA TotalChange ==
  ASSUME NEW S, IsFiniteSet(S), NEW f \in [S -> Nat], NEW g \in [S -> Nat], NEW u \in S,
         \A x \in S : x # u => g[x] = f[x]
  PROVE  Total(g) = Total(f) - f[u] + g[u]
<1> DEFINE RestF == UNION {Purse(f, x) : x \in S \ {u}}
           RestG == UNION {Purse(g, x) : x \in S \ {u}}
<1>1. RestF = RestG
  <2>1. \A x \in S \ {u} : Purse(f, x) = Purse(g, x)
    BY DEF Purse
  <2> QED BY <2>1, Zenon
<1>2. Total(f) = f[u] + Cardinality(RestF) /\ IsFiniteSet(RestF)
  BY TotalSplit, Zenon
<1>3. Total(g) = g[u] + Cardinality(RestG)
  BY TotalSplit, Zenon
<1>4. Cardinality(RestF) \in Nat
  <2> HIDE DEF RestF
  <2> QED BY <1>2, FS_CardinalityType
<1>5. f[u] \in Nat /\ g[u] \in Nat
  OBVIOUS
<1> HIDE DEF RestF, RestG
<1> QED
  BY <1>1, <1>2, <1>3, <1>4, <1>5

\* Changing the amount of one element changes the total by as much: the
\* arithmetic of one UpdateBalanceTx on one wallet row.
THEOREM TotalUpdate ==
  ASSUME NEW S, IsFiniteSet(S), NEW f \in [S -> Nat], NEW u \in S, NEW v \in Nat,
         NEW g, g = [f EXCEPT ![u] = v]
  PROVE  Total(g) = Total(f) - f[u] + v
<1>1. g \in [S -> Nat] /\ g[u] = v /\ \A x \in S : x # u => g[x] = f[x]
  OBVIOUS
<1>2. \A h \in [S -> Nat] :
        (\A x \in S : x # u => h[x] = f[x]) => Total(h) = Total(f) - f[u] + h[u]
  BY TotalChange
<1> QED
  BY <1>1, <1>2

\* No element has more than there is.
LEMMA TotalBounds ==
  ASSUME NEW S, IsFiniteSet(S), NEW f \in [S -> Nat], NEW u \in S
  PROVE  f[u] <= Total(f)
<1> DEFINE Rest == UNION {Purse(f, x) : x \in S \ {u}}
<1>1. Total(f) = f[u] + Cardinality(Rest) /\ IsFiniteSet(Rest)
  BY TotalSplit, Zenon
<1>2. Cardinality(Rest) \in Nat
  <2> HIDE DEF Rest
  <2> QED BY <1>1, FS_CardinalityType
<1>3. f[u] \in Nat
  OBVIOUS
<1> HIDE DEF Rest
<1> QED
  BY <1>1, <1>2, <1>3

\* Nobody has anything: the escrow of a platform with no transaction yet.
LEMMA TotalZero ==
  ASSUME NEW S, NEW f \in [S -> Nat], \A x \in S : f[x] = 0
  PROVE  Total(f) = 0
<1>1. \A x \in S : Purse(f, x) = {}
  BY DEF Purse
<1>2. Coins(f) = {}
  BY <1>1 DEF Coins
<1> QED
  BY <1>2, FS_EmptySet DEF Total

\* Who has no less in any place has no less in all: milestones that are
\* released add up to no more than the milestones that were planned.
LEMMA TotalMonotone ==
  ASSUME NEW S, IsFiniteSet(S), NEW f \in [S -> Nat], NEW g \in [S -> Nat],
         \A x \in S : f[x] <= g[x]
  PROVE  Total(f) <= Total(g)
<1>1. Coins(f) \subseteq Coins(g)
  <2>1. \A x \in S : f[x] \in Nat /\ g[x] \in Nat
    OBVIOUS
  <2>2. \A x \in S : Purse(f, x) \subseteq Purse(g, x)
    BY <2>1 DEF Purse
  <2>3. DOMAIN f = S /\ DOMAIN g = S
    OBVIOUS
  <2> QED BY <2>2, <2>3, Zenon DEF Coins
<1>2. IsFiniteSet(Coins(g))
  BY CoinsFinite
<1> QED
  BY <1>1, <1>2, FS_Subset DEF Total

\* Amounts that go to different places add up: what two disjoint sets of
\* invoices claim is what both claim together.
LEMMA TotalDisjoint ==
  ASSUME NEW S, IsFiniteSet(S), NEW f \in [S -> Nat], NEW g \in [S -> Nat],
         NEW h \in [S -> Nat],
         \A x \in S : (f[x] = 0 /\ h[x] = g[x]) \/ (g[x] = 0 /\ h[x] = f[x])
  PROVE  Total(h) = Total(f) + Total(g)
<1>1. Coins(h) = Coins(f) \cup Coins(g)
  <2>1. \A x \in S : Purse(h, x) = Purse(f, x) \cup Purse(g, x)
    BY DEF Purse
  <2>2. \A k \in {f, g, h} : \A c : c \in Coins(k) <=> \E x \in S : c \in Purse(k, x)
    BY DEF Coins
  <2> QED BY <2>1, <2>2, Zenon
<1>2. Coins(f) \cap Coins(g) = {}
  <2> SUFFICES ASSUME NEW x \in S, NEW y \in S, NEW c \in Purse(f, x), c \in Purse(g, y)
               PROVE  FALSE
    BY Zenon DEF Coins
  <2>1. x = y
    BY DEF Purse
  <2>2. c[2] \in 1 .. f[x] /\ c[2] \in 1 .. g[x]
    BY <2>1 DEF Purse
  <2> QED
    BY <2>2
<1>3. IsFiniteSet(Coins(f)) /\ IsFiniteSet(Coins(g))
  BY CoinsFinite
<1>4. Cardinality(Coins(f)) \in Nat /\ Cardinality(Coins(g)) \in Nat
  BY <1>3, FS_CardinalityType
<1>5. Cardinality(Coins(f) \cup Coins(g)) = Cardinality(Coins(f)) + Cardinality(Coins(g))
  <2>1. Cardinality(Coins(f) \cap Coins(g)) = 0
    BY <1>2, FS_EmptySet
  <2>2. Cardinality(Coins(f) \cup Coins(g))
          = Cardinality(Coins(f)) + Cardinality(Coins(g)) - Cardinality(Coins(f) \cap Coins(g))
    BY <1>3, FS_Union, Zenon
  <2> QED
    BY <1>4, <2>1, <2>2
<1> QED
  BY <1>1, <1>5 DEF Total

\* A total does not depend on how the amounts are named: a milestone breakdown
\* adds up to the same in the request and in the rows of its transaction.
LEMMA TotalRename ==
  ASSUME NEW R, NEW S, IsFiniteSet(S), NEW f \in [R -> Nat], NEW g \in [S -> Nat],
         NEW name \in Injection(R, S),
         \A x \in R : g[name[x]] = f[x],
         \A y \in S : (\A x \in R : name[x] # y) => g[y] = 0
  PROVE  Total(g) = Total(f)
<1> DEFINE rename == [c \in Coins(f) |-> <<name[c[1]], c[2]>>]
<1>1. name \in [R -> S] /\ \A x, y \in R : name[x] = name[y] => x = y
  BY DEF Injection, IsInjective
<1>2. \A c \in Coins(f) : c[1] \in R /\ c[2] \in 1 .. f[c[1]] /\ c = <<c[1], c[2]>>
  BY DEF Coins, Purse
<1>3. \A y \in S : \A i \in 1 .. g[y] : <<y, i>> \in Coins(g)
  BY DEF Coins, Purse
<1>4. \A x \in R : \A i \in 1 .. f[x] : <<x, i>> \in Coins(f)
  BY DEF Coins, Purse
<1>5. \A c \in Coins(f) : rename[c] \in Coins(g)
  BY <1>1, <1>2, <1>3
<1>6. \A c, d \in Coins(f) : rename[c] = rename[d] => c = d
  <2> SUFFICES ASSUME NEW c \in Coins(f), NEW d \in Coins(f), rename[c] = rename[d]
               PROVE  c = d
    OBVIOUS
  <2>1. name[c[1]] = name[d[1]] /\ c[2] = d[2]
    OBVIOUS
  <2>2. c[1] = d[1]
    BY <1>1, <1>2, <2>1
  <2> QED
    BY <1>2, <2>1, <2>2
<1>7. \A e \in Coins(g) : \E c \in Coins(f) : rename[c] = e
  <2> SUFFICES ASSUME NEW e \in Coins(g)
               PROVE  \E c \in Coins(f) : rename[c] = e
    OBVIOUS
  <2>1. e[1] \in S /\ e[2] \in 1 .. g[e[1]] /\ e = <<e[1], e[2]>>
    BY DEF Coins, Purse
  <2>2. g[e[1]] # 0
    BY <2>1
  <2>3. PICK x \in R : name[x] = e[1]
    BY <2>1, <2>2
  <2>4. <<x, e[2]>> \in Coins(f)
    BY <1>4, <2>1, <2>3
  <2>5. rename[<<x, e[2]>>] = <<name[x], e[2]>>
    BY <2>4
  <2> QED
    BY <2>1, <2>3, <2>4, <2>5
<1> HIDE DEF rename
<1>8. rename \in [Coins(f) -> Coins(g)]
  BY <1>5 DEF rename
<1>9. rename \in Injection(Coins(f), Coins(g)) /\ rename \in Surjection(Coins(f), Coins(g))
  BY <1>6, <1>7, <1>8, Zenon DEF IsInjective, Injection, Surjection
<1>10. Cardinality(Coins(f)) = Cardinality(Coins(g))
  BY <1>9, CoinsFinite, FS_Injection
<1> QED
  BY <1>10 DEF Total

\* Places where nothing is do not count: adding up the rows there are is adding
\* up all ids, the unused ones counted as nothing.
LEMMA TotalExtend ==
  ASSUME NEW S, NEW R, R \subseteq S, NEW f \in [R -> Nat], NEW g \in [S -> Nat],
         \A x \in R : g[x] = f[x],
         \A x \in S : x \notin R => g[x] = 0
  PROVE  Total(g) = Total(f)
<1>1. \A x \in R : Purse(g, x) = Purse(f, x)
  BY DEF Purse
<1>2. \A x \in S : x \notin R => Purse(g, x) = {}
  BY DEF Purse
<1>3. DOMAIN f = R /\ DOMAIN g = S
  OBVIOUS
<1>4. UNION {Purse(g, x) : x \in S} = UNION {Purse(f, x) : x \in R}
  BY <1>1, <1>2, Zenon
<1> QED
  BY <1>3, <1>4, Zenon DEF Coins, Total
=============================================================================
