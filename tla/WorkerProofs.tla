---------------------------- MODULE WorkerProofs ----------------------------
(***************************************************************************)
(* Proofs about the background workers: the monthly tier evaluation        *)
(* (Loyalty), for any number of members, deals, months and crashes, any    *)
(* ratings and any completed work; and the audit log with its reconciler   *)
(* (AuditLog), for any number of transactions, goroutines, broadcasts,     *)
(* cycles and restarts.  The two share no state.                           *)
(***************************************************************************)
EXTENDS Loyalty, AuditLog, FiniteSetTheorems, SequenceTheorems, TLAPS

-----------------------------------------------------------------------------
(* Loyalty: verdicts.                                                      *)

\* Whatever the work and the rating, the verdict names one of the three tiers.
LEMMA VerdictTier ==
  ASSUME NEW r, NEW row, NEW rating
  PROVE  EvaluateMonthlyMerchantTier(r, row, rating).tier \in LoyaltyTiers
BY DEF EvaluateMonthlyMerchantTier, EvaluateEventLoyalty, EvaluateServiceLoyalty,
       Verdict, LoyaltyTiers

\* A row without a failed month gets no warning.
LEMMA VerdictSpares ==
  ASSUME NEW r, NEW row \in CRMRows, row.failed = 0, NEW rating
  PROVE  EvaluateMonthlyMerchantTier(r, row, rating).action # "WARNING_LOW_SALES"
BY DEF EvaluateMonthlyMerchantTier, EvaluateEventLoyalty, EvaluateServiceLoyalty, Verdict

\* The row that is stored.
LEMMA EvaluatedRow ==
  ASSUME NEW row \in CRMRows, NEW verdict, verdict.tier \in LoyaltyTiers
  PROVE  /\ Evaluated(row, verdict) \in CRMRows
         /\ row.failed = 0 /\ verdict.action # "WARNING_LOW_SALES" =>
              Evaluated(row, verdict).failed = 0
BY DEF Evaluated, CRMRows

-----------------------------------------------------------------------------
(* Loyalty: type correctness.                                              *)

\* Every step keeps every variable in its type, and reviews with released deals.
LEMMA TypeStep == TypeOK /\ [Next]_vars => TypeOK'
<1> SUFFICES ASSUME TypeOK, [Next]_vars
             PROVE  TypeOK'
  OBVIOUS
<1> USE LoyaltyAssumption DEF TypeOK, market, worker
<1>1. ASSUME NEW u \in Members, NEW r \in Roles, Promote(u, r)
      PROVE  TypeOK'
  BY <1>1 DEF Promote
<1>2. ASSUME NEW u \in Members, NEW done \in Records, EnterRecord(u, done)
      PROVE  TypeOK'
  <2> DEFINE row == IF crm[u] = NoRow THEN [tier |-> "BRONZE", failed |-> 0, done |-> done]
                                      ELSE [crm[u] EXCEPT !.done = done]
  <2>1. row \in CRMRows
    BY DEF CRMRows, LoyaltyTiers
  <2>2. crm' = [crm EXCEPT ![u] = row]
    BY <1>2 DEF EnterRecord
  <2> HIDE DEF row
  <2> QED
    BY <1>2, <2>1, <2>2 DEF EnterRecord
<1>3. ASSUME NEW d \in Deals, ReleaseDeal(d)
      PROVE  TypeOK'
  BY <1>3 DEF ReleaseDeal
<1>4. ASSUME NEW d \in Deals, NEW rating \in Ratings, CreateReview(d, rating)
      PROVE  TypeOK'
  BY <1>4 DEF CreateReview
<1>5. CASE StartBatch
  <2>1. /\ listed' \subseteq Members
        /\ batch' = {[member |-> u, role |-> role[u]] : u \in listed'}
        /\ month' \in 0 .. MaxMonths
        /\ evaluations' \in [Members -> Nat]
    BY <1>5 DEF StartBatch, NewMonth
  <2>2. batch' \subseteq [member : listed', role : Roles]
    BY <2>1
  <2> QED
    BY <1>5, <2>1, <2>2 DEF StartBatch, NewMonth
<1>6. CASE MissMonth
  BY <1>6 DEF MissMonth, NewMonth
<1>7. ASSUME NEW entry \in batch, NEW rating, EvaluateMember(entry, rating)
      PROVE  TypeOK'
  <2> DEFINE u == entry.member
             row == Evaluated(crm[u], EvaluateMonthlyMerchantTier(entry.role, crm[u], rating))
  <2>1. u \in Members /\ crm[u] \in CRMRows
    BY <1>7 DEF EvaluateMember
  <2>2. row \in CRMRows
    BY <2>1, VerdictTier, EvaluatedRow
  <2>3. crm' = [crm EXCEPT ![u] = row]
    BY <1>7 DEF EvaluateMember
  <2>4. evaluations' \in [Members -> Nat]
    BY <1>7, <2>1 DEF EvaluateMember
  <2> HIDE DEF u, row
  <2> QED
    BY <1>7, <2>1, <2>2, <2>3, <2>4 DEF EvaluateMember
<1>8. ASSUME NEW entry \in batch, SpareMember(entry)
      PROVE  TypeOK'
  BY <1>8 DEF SpareMember
<1>9. CASE TimeOut
  BY <1>9 DEF TimeOut
<1>10. CASE Crash
  BY <1>10 DEF Crash
<1>11. CASE UNCHANGED vars
  BY <1>11 DEF vars
<1> QED
  BY <1>1, <1>2, <1>3, <1>4, <1>5, <1>6, <1>7, <1>8, <1>9, <1>10, <1>11 DEF Next, Outside

\* The tables hold what their columns allow, and a review belongs to a deal
\* that has been released.
THEOREM TypeCorrect == Spec => []TypeOK
<1>1. Init => TypeOK
  <2> SUFFICES ASSUME Init PROVE TypeOK
    OBVIOUS
  <2>1. 0 \in 0 .. MaxMonths /\ 0 \in 0 .. MaxCrashes
    BY LoyaltyAssumption
  <2> QED
    BY <2>1 DEF Init, TypeOK
<1> QED
  BY <1>1, TypeStep, PTL DEF Spec

-----------------------------------------------------------------------------
(* Loyalty: everybody on the list once a month.                            *)

\* The batch lists a member at most once and none that was evaluated already.
BatchIsFresh ==
  \A entry \in batch :
    /\ evaluations[entry.member] = 0
    /\ \A other \in batch : other.member = entry.member => other = entry

\* As long as the batch runs, whoever was on its list and is not in it any more
\* has had its turn.
EverybodyHasATurn ==
  ~lost =>
    \A u \in listed : \/ \E entry \in batch : entry.member = u
                      \/ u \in spared
                      \/ evaluations[u] = 1

OnceInv ==
  /\ \A u \in Members : evaluations[u] <= 1
  /\ BatchIsFresh
  /\ EverybodyHasATurn

LEMMA OnceStep == TypeOK /\ OnceInv /\ [Next]_vars => OnceInv'
<1> SUFFICES ASSUME TypeOK, OnceInv, [Next]_vars
             PROVE  OnceInv'
  OBVIOUS
<1> USE DEF OnceInv, BatchIsFresh, EverybodyHasATurn
<1>1. CASE StartBatch
  <2>1. /\ evaluations' = [u \in Members |-> 0]
        /\ batch' = {[member |-> u, role |-> role[u]] : u \in listed'}
        /\ listed' \subseteq Members
    BY <1>1 DEF StartBatch, NewMonth
  <2>2. BatchIsFresh'
    BY <2>1
  <2>3. ASSUME NEW u \in listed'
        PROVE  \E entry \in batch' : entry.member = u
    <3>1. [member |-> u, role |-> role[u]] \in batch'
      BY <2>1
    <3> QED
      BY <3>1
  <2> QED
    BY <2>1, <2>2, <2>3
<1>2. CASE MissMonth
  BY <1>2 DEF MissMonth, NewMonth
<1>3. ASSUME NEW entry \in batch, NEW rating, EvaluateMember(entry, rating)
      PROVE  OnceInv'
  <2>1. entry.member \in Members /\ evaluations[entry.member] = 0
    BY DEF TypeOK
  <2>2. evaluations' = [evaluations EXCEPT ![entry.member] = 1]
    BY <1>3, <2>1 DEF EvaluateMember, TypeOK
  <2>3. batch' = batch \ {entry} /\ UNCHANGED <<listed, spared, lost>>
    BY <1>3 DEF EvaluateMember
  <2>4. (\A u \in Members : evaluations[u] <= 1)'
    BY <2>2 DEF TypeOK
  <2>5. BatchIsFresh'
    BY <2>1, <2>2, <2>3 DEF TypeOK
  <2>6. EverybodyHasATurn'
    BY <2>1, <2>2, <2>3 DEF TypeOK
  <2> QED
    BY <2>4, <2>5, <2>6
<1>4. ASSUME NEW entry \in batch, SpareMember(entry)
      PROVE  OnceInv'
  BY <1>4 DEF SpareMember, TypeOK
<1>5. CASE TimeOut \/ Crash
  BY <1>5 DEF TimeOut, Crash
<1>6. CASE UNCHANGED <<listed, batch, evaluations, spared, lost>>
  BY <1>6
<1> QED
  BY <1>1, <1>2, <1>3, <1>4, <1>5, <1>6
     DEF Next, Outside, Promote, EnterRecord, ReleaseDeal, CreateReview, worker, vars

\* No member is evaluated twice in a month, and in a month whose batch ran to
\* its end nobody on its list, however much of it was cut off, is left out by
\* the failure of another.
THEOREM EvaluationCorrect == Spec => []EvaluatedOnce
<1>1. Init => OnceInv
  BY DEF Init, OnceInv, BatchIsFresh, EverybodyHasATurn
<1>2. OnceInv => EvaluatedOnce
  BY DEF OnceInv, EverybodyHasATurn, EvaluatedOnce
<1> QED
  BY <1>1, <1>2, TypeCorrect, OnceStep, PTL DEF Spec

-----------------------------------------------------------------------------
(* Loyalty: no warnings.                                                   *)

LEMMA WarningStep == TypeOK /\ NobodyIsWarned /\ [Next]_vars => NobodyIsWarned'
<1> SUFFICES ASSUME TypeOK, NobodyIsWarned, [Next]_vars
             PROVE  NobodyIsWarned'
  OBVIOUS
<1> USE DEF NobodyIsWarned
<1>1. ASSUME NEW u \in Members, NEW done \in Records, EnterRecord(u, done)
      PROVE  NobodyIsWarned'
  BY <1>1 DEF EnterRecord, TypeOK, CRMRows
<1>2. ASSUME NEW entry \in batch, NEW rating, EvaluateMember(entry, rating)
      PROVE  NobodyIsWarned'
  <2> DEFINE u == entry.member
             verdict == EvaluateMonthlyMerchantTier(entry.role, crm[u], rating)
  <2>1. u \in Members /\ crm[u] \in CRMRows /\ crm[u].failed = 0
    BY <1>2 DEF EvaluateMember, TypeOK
  <2>2. Evaluated(crm[u], verdict).failed = 0
    BY <2>1, VerdictTier, VerdictSpares, EvaluatedRow
  <2>3. crm' = [crm EXCEPT ![u] = Evaluated(crm[u], verdict)]
    BY <1>2 DEF EvaluateMember
  <2> HIDE DEF u, verdict
  <2> QED
    BY <2>1, <2>2, <2>3 DEF TypeOK
<1>3. CASE UNCHANGED crm
  BY <1>3
<1> QED
  BY <1>1, <1>2, <1>3
     DEF Next, Outside, Promote, ReleaseDeal, CreateReview, StartBatch, MissMonth,
         NewMonth, SpareMember, TimeOut, Crash, vars

\* No sequence of evaluations, whatever the work and the reviews, ever counts a
\* failed month: the branches of evaluateServiceLoyalty that warn a GOLD
\* provider and take its tier away are never taken.
THEOREM WarningsUnreachable == Spec => []NobodyIsWarned
<1>1. Init => NobodyIsWarned
  BY DEF Init, NobodyIsWarned
<1> QED
  BY <1>1, TypeCorrect, WarningStep, PTL DEF Spec

-----------------------------------------------------------------------------
(* Audit log: sequences and initial segments.                              *)

\* Appending an element adds it to the elements.
LEMMA AppendElements ==
  ASSUME NEW S, NEW s \in Seq(S), NEW x \in S
  PROVE  /\ Append(s, x) \in Seq(S)
         /\ ToSet(Append(s, x)) = ToSet(s) \cup {x}
         /\ IsInjective(s) /\ x \notin ToSet(s) => IsInjective(Append(s, x))
<1>1. /\ Append(s, x) \in Seq(S) /\ Len(Append(s, x)) = Len(s) + 1
      /\ \A i \in 1 .. Len(s) : Append(s, x)[i] = s[i]
      /\ Append(s, x)[Len(s) + 1] = x
      /\ Len(s) \in Nat
  BY AppendProperties, LenProperties
<1>2. DOMAIN Append(s, x) = 1 .. Len(s) + 1 /\ DOMAIN s = 1 .. Len(s)
  BY <1>1, LenProperties
<1>3. ToSet(Append(s, x)) = ToSet(s) \cup {x}
  BY <1>1, <1>2 DEF ToSet
<1>4. ASSUME IsInjective(s), x \notin ToSet(s)
      PROVE  IsInjective(Append(s, x))
  BY <1>1, <1>2, <1>4 DEF ToSet, IsInjective
<1> QED
  BY <1>1, <1>3, <1>4

\* Taking the head off a sequence without repetitions takes one element away.
LEMMA TailElements ==
  ASSUME NEW S, NEW s \in Seq(S), s # << >>
  PROVE  /\ Head(s) \in S /\ Head(s) \in ToSet(s)
         /\ Tail(s) \in Seq(S) /\ Len(Tail(s)) = Len(s) - 1
         /\ ToSet(Tail(s)) \subseteq ToSet(s)
         /\ IsInjective(s) => IsInjective(Tail(s)) /\ Head(s) \notin ToSet(Tail(s))
<1>1. /\ Head(s) \in S /\ Tail(s) \in Seq(S) /\ Len(Tail(s)) = Len(s) - 1
      /\ \A i \in 1 .. Len(Tail(s)) : Tail(s)[i] = s[i + 1]
      /\ Len(s) \in Nat \ {0} /\ Head(s) = s[1]
  BY HeadTailProperties, LenProperties, EmptySeq
<1>2. DOMAIN Tail(s) = 1 .. Len(s) - 1 /\ DOMAIN s = 1 .. Len(s)
  BY <1>1, LenProperties
<1>3. Head(s) \in ToSet(s) /\ ToSet(Tail(s)) \subseteq ToSet(s)
  BY <1>1, <1>2 DEF ToSet
<1>4. ASSUME IsInjective(s)
      PROVE  IsInjective(Tail(s)) /\ Head(s) \notin ToSet(Tail(s))
  BY <1>1, <1>2, <1>4 DEF ToSet, IsInjective
<1> QED
  BY <1>1, <1>3, <1>4

\* A set of numbers that holds with each number all smaller ones is an initial
\* segment, as long as its cardinality.
LEMMA InitialSegment ==
  ASSUME NEW N \in Nat, NEW S \in SUBSET (1 .. N),
         \A n \in S : \A m \in 1 .. n : m \in S
  PROVE  Cardinality(S) \in Nat /\ S = 1 .. Cardinality(S)
<1>0. IsFiniteSet(1 .. N)
  <2>1. 1 \in Int /\ N \in Int
    OBVIOUS
  <2> QED
    BY <2>1, FS_Interval
<1>1. IsFiniteSet(S) /\ Cardinality(S) \in Nat
  BY <1>0, FS_Subset, FS_CardinalityType
<1>2. ASSUME NEW n \in S
      PROVE  n <= Cardinality(S)
  <2>1. n \in Nat /\ 1 .. n \subseteq S
    OBVIOUS
  <2>2. Cardinality(1 .. n) = n
    BY <2>1, FS_Interval
  <2> QED
    BY <1>1, <2>1, <2>2, FS_Subset
<1>3. ASSUME NEW m \in 1 .. Cardinality(S), m \notin S
      PROVE  FALSE
  <2>1. S \subseteq 1 .. m - 1
    BY <1>1, <1>3
  <2>0. m - 1 \in Nat /\ m - 1 < Cardinality(S)
    BY <1>1
  <2>2. IsFiniteSet(1 .. m - 1) /\ Cardinality(1 .. m - 1) = m - 1
    <3> DEFINE k == m - 1
    <3>1. 1 \in Int /\ k \in Int /\ k >= 0
      BY <2>0
    <3> HIDE DEF k
    <3>2. IsFiniteSet(1 .. k) /\ Cardinality(1 .. k) = IF 1 > k THEN 0 ELSE k - 1 + 1
      BY <3>1, FS_Interval
    <3>3. IsFiniteSet(1 .. k) /\ Cardinality(1 .. k) = k
      BY <3>1, <3>2
    <3> QED
      BY <3>3 DEF k
  <2>3. Cardinality(S) <= m - 1
    BY <2>1, <2>2, FS_Subset
  <2> QED
    BY <1>1, <2>0, <2>2, <2>3
<1>4. S = 1 .. Cardinality(S)
  <2>1. \A n \in S : n \in 1 .. Cardinality(S)
    BY <1>1, <1>2
  <2> QED
    BY <1>3, <2>1
<1> QED
  BY <1>1, <1>4

-----------------------------------------------------------------------------
(* Audit log: types.                                                       *)

\* A goroutine or the reconciler is at work exactly as long as it is on a
\* transaction.
Busy ==
  \A a \in Threads : IF thread[a].stage = "idle" THEN thread[a].tx = NoTx
                                                  ELSE thread[a].tx \in Txs

AuditTypes == AuditTypeOK /\ Busy

\* The threads after one of them has moved on.
LEMMA SetThreadTypes ==
  ASSUME AuditTypes, NEW a \in Threads, NEW stage \in Stages \ {"idle"}, NEW t \in Txs,
         NEW n \in 0 .. MaxBroadcasts, SetThread(a, stage, t, n)
  PROVE  /\ thread' \in [Threads -> [stage : Stages, tx : Txs \cup {NoTx}, number : 0 .. MaxBroadcasts]]
         /\ Busy'
         /\ thread' = [thread EXCEPT ![a] = [stage |-> stage, tx |-> t, number |-> n]]
BY DEF AuditTypes, AuditTypeOK, Busy, SetThread

LEMMA EndThreadTypes ==
  ASSUME AuditTypes, NEW a \in Threads, EndThread(a)
  PROVE  /\ thread' \in [Threads -> [stage : Stages, tx : Txs \cup {NoTx}, number : 0 .. MaxBroadcasts]]
         /\ Busy'
         /\ thread' = [thread EXCEPT ![a] = [stage |-> "idle", tx |-> NoTx, number |-> 0]]
<1>1. 0 \in 0 .. MaxBroadcasts
  BY AuditAssumption
<1> QED
  BY <1>1 DEF AuditTypes, AuditTypeOK, Busy, EndThread, Idle, Stages

\* The number the next broadcast of a transaction gets.
LEMMA NextNumber ==
  ASSUME AuditTypes, NEW t \in Txs, Cardinality(Sent(t)) + 1 <= MaxBroadcasts
  PROVE  Cardinality(Sent(t)) + 1 \in Numbers
<1>1. IsFiniteSet(Numbers)
  <2>1. 1 \in Int /\ MaxBroadcasts \in Int
    BY AuditAssumption
  <2> QED
    BY <2>1, FS_Interval DEF Numbers
<1>2. Cardinality(Sent(t)) \in Nat
  BY <1>1, FS_Subset, FS_CardinalityType DEF Sent
<1> QED
  BY <1>2, AuditAssumption DEF Numbers

\* The oldest of a set of released transactions are a sequence of them, each
\* once.
LEMMA OldestOnce ==
  ASSUME AuditTypeOK, NEW S \in SUBSET Released, NEW n \in Nat, NEW q \in Oldest(S, n)
  PROVE  q \in Seq(S) /\ Len(q) = n /\ IsInjective(q) /\ ToSet(q) \subseteq S
<1>1. /\ q \in [1 .. n -> S]
      /\ \A i, j \in 1 .. n : i < j => ReleasedBefore(q[i], q[j])
  BY DEF Oldest
<1>2. q \in Seq(S) /\ Len(q) = n /\ DOMAIN q = 1 .. n
  BY <1>1
<1>3. ASSUME NEW t, ReleasedBefore(t, t)
      PROVE  FALSE
  <2>1. PICK i, j \in DOMAIN releases : i < j /\ releases[i] = releases[j]
    BY <1>3 DEF ReleasedBefore
  <2>2. i = j /\ i \in Int
    BY <2>1 DEF AuditTypeOK, IsInjective
  <2> QED
    BY <2>1, <2>2
<1>4. IsInjective(q)
  <2> SUFFICES ASSUME NEW i \in 1 .. n, NEW j \in 1 .. n, q[i] = q[j], i # j
               PROVE  FALSE
    BY <1>2 DEF IsInjective
  <2>1. i < j \/ j < i
    OBVIOUS
  <2> QED
    BY <1>1, <1>3, <2>1
<1>5. ToSet(q) \subseteq S
  BY <1>1, <1>2 DEF ToSet
<1> QED
  BY <1>2, <1>4, <1>5

\* How many gaps a cycle takes.
LEMMA CycleSize ==
  ASSUME AuditTypeOK
  PROVE  /\ Min({BatchSize, Cardinality(Gaps)}) \in Nat
         /\ Min({BatchSize, Cardinality(Gaps)}) <= BatchSize
<1>1. Cardinality(Gaps) \in Nat
  <2>1. Released \subseteq Txs
    BY DEF Released, AuditTypeOK, ToSet
  <2> QED
    BY <2>1, AuditAssumption, FS_Subset, FS_CardinalityType DEF Gaps
<1>2. BatchSize \in Nat
  BY AuditAssumption
<1> DEFINE both == {BatchSize, Cardinality(Gaps)}
<1>3. \E x \in both : \A y \in both : x <= y
  BY <1>1, <1>2
<1>4. Min(both) \in both /\ \A y \in both : Min(both) <= y
  BY <1>3 DEF Min
<1> QED
  BY <1>1, <1>2, <1>4

LEMMA ReleaseTypes ==
  ASSUME AuditTypes, NEW t \in Txs, NEW g \in Goroutines, NEW late \in BOOLEAN,
         Release(t, g, late)
  PROVE  AuditTypes'
<1> USE DEF AuditTypes
<1>1. /\ releases' \in Seq(Txs) /\ IsInjective(releases')
      /\ Released' = Released \cup {t}
  BY AppendElements DEF Release, AuditTypeOK, Released
<1>2. fresh' \subseteq Released'
  BY <1>1 DEF Release, AuditTypeOK
<1>3. early' \in [Txs -> SUBSET Numbers]
  BY DEF Release, AuditTypeOK, Mined, Broadcasts
<1>4. queue' \in Seq(Released') /\ Len(queue') <= BatchSize
  <2>1. queue' = queue /\ Released \subseteq Released'
    BY <1>1 DEF Release
  <2> QED
    BY <2>1, SeqMonotonic DEF AuditTypeOK
<1>5. /\ thread' \in [Threads -> [stage : Stages, tx : Txs \cup {NoTx}, number : 0 .. MaxBroadcasts]]
      /\ Busy'
  <2>1. CASE UNCHANGED thread
    BY <2>1 DEF AuditTypeOK, Busy
  <2>2. CASE SetThread(g, "sending", t, 0)
    <3>1. g \in Threads /\ 0 \in 0 .. MaxBroadcasts /\ "sending" \in Stages \ {"idle"}
      BY AuditAssumption DEF Threads, Stages
    <3> QED
      BY <2>2, <3>1, SetThreadTypes
  <2> QED
    BY <2>1, <2>2 DEF Release
<1>6. UNCHANGED <<milestones, hash, chain, restarts>>
  BY DEF Release
<1> QED
  BY <1>1, <1>2, <1>3, <1>4, <1>5, <1>6 DEF AuditTypeOK

LEMMA ReleaseMilestoneTypes ==
  ASSUME AuditTypes, NEW t \in Txs, NEW g \in Goroutines, ReleaseMilestone(t, g)
  PROVE  AuditTypes'
<1> USE DEF AuditTypes
<1>1. /\ thread' \in [Threads -> [stage : Stages, tx : Txs \cup {NoTx}, number : 0 .. MaxBroadcasts]]
      /\ Busy'
  <2>1. g \in Threads /\ 0 \in 0 .. MaxBroadcasts /\ "sending" \in Stages \ {"idle"}
    BY AuditAssumption DEF Threads, Stages
  <2> QED
    BY <2>1, SetThreadTypes DEF ReleaseMilestone
<1>2. milestones' \in [Txs -> 0 .. MaxMilestones]
  BY AuditAssumption DEF ReleaseMilestone, AuditTypeOK
<1>3. UNCHANGED <<releases, fresh, hash, chain, early, queue, restarts>>
  BY DEF ReleaseMilestone
<1> QED
  BY <1>1, <1>2, <1>3 DEF AuditTypeOK, Released

LEMMA SendTypes ==
  ASSUME AuditTypes, NEW a \in Threads, NEW answered \in BOOLEAN, Send(a, answered)
  PROVE  AuditTypes'
<1> USE DEF AuditTypes
<1> DEFINE t == thread[a].tx
           n == Cardinality(Sent(t)) + 1
<1>1. t \in Txs /\ n \in Numbers
  <2>1. t \in Txs
    BY DEF Send, Busy
  <2> QED
    BY <2>1, NextNumber DEF Send
<1>2. chain' \in [Txs -> [Numbers -> Outcomes]]
  <2>1. chain' = [chain EXCEPT ![t][n] = "pending"]
    BY DEF Send
  <2> HIDE DEF t, n
  <2> QED
    BY <1>1, <2>1 DEF AuditTypeOK, Outcomes
<1>3. /\ thread' \in [Threads -> [stage : Stages, tx : Txs \cup {NoTx}, number : 0 .. MaxBroadcasts]]
      /\ Busy'
  <2>1. n \in 0 .. MaxBroadcasts /\ "waiting" \in Stages \ {"idle"}
    BY <1>1 DEF Numbers, Stages
  <2>2. SetThread(a, "waiting", t, n) \/ EndThread(a)
    BY DEF Send
  <2> HIDE DEF n
  <2> QED
    BY <1>1, <2>1, <2>2, SetThreadTypes, EndThreadTypes
<1>4. UNCHANGED <<milestones, releases, fresh, hash, early, queue, restarts>>
  BY DEF Send, database
<1> QED
  BY <1>2, <1>3, <1>4 DEF AuditTypeOK, Released

\* A thread moves on and nothing else changes but, at most, a stored hash.
LEMMA MoveTypes ==
  ASSUME AuditTypes, NEW a \in Threads,
         \/ EndThread(a)
         \/ \E stage \in Stages \ {"idle"}, t \in Txs, n \in 0 .. MaxBroadcasts :
              SetThread(a, stage, t, n),
         hash' \in [Txs -> 0 .. MaxBroadcasts],
         UNCHANGED <<milestones, releases, fresh, chain, early, queue, restarts>>
  PROVE  AuditTypes'
<1>1. /\ thread' \in [Threads -> [stage : Stages, tx : Txs \cup {NoTx}, number : 0 .. MaxBroadcasts]]
      /\ Busy'
  BY SetThreadTypes, EndThreadTypes
<1> QED
  BY <1>1 DEF AuditTypes, AuditTypeOK, Released

LEMMA AttemptTypes ==
  ASSUME AuditTypes, NEW a \in Threads, Receipt(a) \/ Persist(a) \/ Fail(a)
  PROVE  AuditTypes'
<1>1. CASE Receipt(a)
  <2>1. /\ thread[a].tx \in Txs /\ thread[a].number \in 0 .. MaxBroadcasts
        /\ "persisting" \in Stages \ {"idle"}
    BY <1>1 DEF AuditTypes, AuditTypeOK, Busy, Receipt, Stages
  <2>2. /\ hash' \in [Txs -> 0 .. MaxBroadcasts]
        /\ UNCHANGED <<milestones, releases, fresh, chain, early, queue, restarts>>
    BY <1>1 DEF AuditTypes, AuditTypeOK, Receipt, database
  <2> QED
    BY <1>1, <2>1, <2>2, MoveTypes DEF Receipt
<1>2. CASE Persist(a)
  <2>1. hash' \in [Txs -> 0 .. MaxBroadcasts]
    BY <1>2 DEF AuditTypes, AuditTypeOK, Persist
  <2> QED
    BY <1>2, <2>1, MoveTypes DEF Persist
<1>3. CASE Fail(a)
  <2>1. hash' \in [Txs -> 0 .. MaxBroadcasts]
    BY <1>3 DEF AuditTypes, AuditTypeOK, Fail, database
  <2> QED
    BY <1>3, <2>1, MoveTypes DEF Fail, database
<1> QED
  BY <1>1, <1>2, <1>3

LEMMA ChainTypes ==
  ASSUME AuditTypes, NEW t \in Txs, NEW n \in Numbers,
         Drop(t, n) \/ \E outcome \in {"logged", "reverted"} : Mine(t, n, outcome)
  PROVE  AuditTypes'
<1>1. chain' \in [Txs -> [Numbers -> Outcomes]]
  <2>1. PICK outcome \in Outcomes : chain' = [chain EXCEPT ![t][n] = outcome]
    BY DEF Drop, Mine, Outcomes
  <2> QED
    BY <2>1 DEF AuditTypes, AuditTypeOK
<1>2. UNCHANGED <<milestones, releases, fresh, hash, early, thread, queue, restarts>>
  BY DEF Drop, Mine, database
<1> QED
  BY <1>1, <1>2 DEF AuditTypes, AuditTypeOK, Busy, Released

LEMMA ReconcileTypes ==
  ASSUME AuditTypes, Reconcile
  PROVE  AuditTypes'
<1> USE DEF AuditTypes
<1>0. Reconciler \in Threads /\ 0 \in 0 .. MaxBroadcasts
  BY AuditAssumption DEF Threads
<1>1. CASE ReconcileOnce
  <2>1. queue' \in Seq(Released) /\ Len(queue') <= BatchSize
    <3>1. Gaps \in SUBSET Released
      BY DEF Gaps
    <3>2. queue' \in Oldest(Gaps, Min({BatchSize, Cardinality(Gaps)}))
      BY <1>1 DEF ReconcileOnce
    <3>3. queue' \in Seq(Gaps) /\ Len(queue') <= BatchSize
      BY <3>1, <3>2, OldestOnce, CycleSize
    <3> QED
      BY <3>1, <3>3, SeqMonotonic
  <2>2. UNCHANGED <<milestones, releases, fresh, hash, chain, early, thread, restarts>>
    BY <1>1 DEF ReconcileOnce, database
  <2> QED
    BY <2>1, <2>2 DEF AuditTypeOK, Busy, Released
<1>2. CASE ReconcileNext
  <2>1. queue \in Seq(Released) /\ queue # << >> /\ Released \subseteq Txs
    BY <1>2 DEF ReconcileNext, AuditTypeOK, Released, ToSet
  <2>2. /\ Head(queue) \in Txs /\ Tail(queue) \in Seq(Released)
        /\ Len(Tail(queue)) = Len(queue) - 1 /\ Len(queue) \in Nat
    BY <2>1, TailElements, LenProperties
  <2>3. /\ thread' \in [Threads -> [stage : Stages, tx : Txs \cup {NoTx}, number : 0 .. MaxBroadcasts]]
        /\ Busy'
    <3>1. "finding" \in Stages \ {"idle"} /\ SetThread(Reconciler, "finding", Head(queue), 0)
      BY <1>2 DEF ReconcileNext, Stages
    <3> QED
      BY <1>0, <2>2, <3>1, SetThreadTypes
  <2>4. /\ queue' = Tail(queue)
        /\ UNCHANGED <<milestones, releases, fresh, hash, chain, early, restarts>>
    BY <1>2 DEF ReconcileNext, database
  <2>5. queue' \in Seq(Released) /\ Len(queue') <= BatchSize
    BY <2>2, <2>4, AuditAssumption DEF AuditTypeOK
  <2> QED
    BY <2>3, <2>4, <2>5 DEF AuditTypeOK, Released
<1>3. CASE FindLoggedTransaction
  <2>1. thread[Reconciler].tx \in Txs
    BY <1>0, <1>3 DEF FindLoggedTransaction, Busy
  <2>2. Broadcasts(thread[Reconciler].tx, "logged") \subseteq 0 .. MaxBroadcasts
    BY DEF Broadcasts, Numbers
  <2>3. \E stage \in Stages \ {"idle"}, t \in Txs, n \in 0 .. MaxBroadcasts :
          SetThread(Reconciler, stage, t, n)
    BY <1>0, <1>3, <2>1, <2>2 DEF FindLoggedTransaction, Stages
  <2>4. /\ hash' \in [Txs -> 0 .. MaxBroadcasts]
        /\ UNCHANGED <<milestones, releases, fresh, chain, early, queue, restarts>>
    BY <1>3 DEF FindLoggedTransaction, database, AuditTypeOK
  <2> QED
    BY <1>0, <2>3, <2>4, MoveTypes
<1> QED
  BY <1>1, <1>2, <1>3 DEF Reconcile

LEMMA RestartTypes ==
  ASSUME AuditTypes, Restart
  PROVE  AuditTypes'
<1>1. 0 \in 0 .. MaxBroadcasts
  BY AuditAssumption
<1>2. /\ thread' \in [Threads -> [stage : Stages, tx : Txs \cup {NoTx}, number : 0 .. MaxBroadcasts]]
      /\ Busy'
  BY <1>1 DEF Restart, Idle, Stages, Busy
<1>3. queue' \in Seq(Released) /\ Len(queue') <= BatchSize
  BY AuditAssumption, EmptySeq DEF Restart
<1>4. /\ restarts' \in 0 .. MaxRestarts
      /\ UNCHANGED <<milestones, releases, fresh, hash, chain, early>>
  BY AuditAssumption DEF Restart, AuditTypes, AuditTypeOK, database
<1> QED
  BY <1>2, <1>3, <1>4 DEF AuditTypes, AuditTypeOK, Released

LEMMA AuditTypesStep == AuditTypes /\ [AuditNext]_auditVars => AuditTypes'
<1> SUFFICES ASSUME AuditTypes, [AuditNext]_auditVars
             PROVE  AuditTypes'
  OBVIOUS
<1>1. CASE UNCHANGED auditVars
  BY <1>1 DEF auditVars, database, AuditTypes, AuditTypeOK, Busy, Released
<1>2. ASSUME NEW t \in Txs, HourPasses(t)
      PROVE  AuditTypes'
  BY <1>2 DEF HourPasses, AuditTypes, AuditTypeOK, Busy, Released
<1> QED
  BY <1>1, <1>2, ReleaseTypes, ReleaseMilestoneTypes, SendTypes, AttemptTypes, ChainTypes,
     ReconcileTypes, RestartTypes
     DEF AuditNext, Attempt

LEMMA AuditTypesInit == AuditInit => AuditTypes
<1> SUFFICES ASSUME AuditInit PROVE AuditTypes
  OBVIOUS
<1>1. /\ 0 \in 0 .. MaxMilestones /\ 0 \in 0 .. MaxBroadcasts /\ 0 \in 0 .. MaxRestarts
      /\ 0 <= BatchSize
  BY AuditAssumption
<1>2. releases \in Seq(Txs) /\ IsInjective(releases) /\ queue \in Seq(Released) /\ Len(queue) = 0
  BY EmptySeq DEF AuditInit, IsInjective
<1> QED
  BY <1>1, <1>2 DEF AuditInit, AuditTypes, AuditTypeOK, Busy, Idle, Stages, Outcomes

\* A transaction is released once, a reconciler cycle holds released ones only
\* and no more than it may, and every column and thread keeps to its values.
THEOREM AuditTypeCorrect == AuditSpec => []AuditTypeOK
<1>1. AuditTypes => AuditTypeOK
  BY DEF AuditTypes
<1> QED
  BY <1>1, AuditTypesInit, AuditTypesStep, PTL DEF AuditSpec

-----------------------------------------------------------------------------
(* Audit log: stored hashes.                                               *)

\* The broadcasts of a transaction are numbered without a gap.
Gapless ==
  \A t \in Txs : \A n \in Sent(t) : \A m \in 1 .. n : m \in Sent(t)

\* What a thread is about to store has been mined, and so has what is stored.
ReceiptsMined ==
  \A a \in Threads : thread[a].stage = "persisting" => thread[a].number \in Mined(thread[a].tx)

HashIsMined == \A t \in Txs : hash[t] # 0 => hash[t] \in Mined(t)

NothingReverts == RelayerWorks => \A t \in Txs : Broadcasts(t, "reverted") = {}

HashInv == AuditTypes /\ Gapless /\ ReceiptsMined /\ HashIsMined /\ NothingReverts

\* The next number is that of a broadcast not sent before.
LEMMA NumberIsFree ==
  ASSUME AuditTypes, Gapless, NEW t \in Txs
  PROVE  /\ Cardinality(Sent(t)) \in Nat
         /\ Cardinality(Sent(t)) + 1 \notin Sent(t)
         /\ \A m \in 1 .. Cardinality(Sent(t)) : m \in Sent(t)
<1>1. Sent(t) \in SUBSET (1 .. MaxBroadcasts) /\ MaxBroadcasts \in Nat
  BY AuditAssumption DEF Sent, Numbers
<1>2. \A n \in Sent(t) : \A m \in 1 .. n : m \in Sent(t)
  BY DEF Gapless
<1>3. Cardinality(Sent(t)) \in Nat /\ Sent(t) = 1 .. Cardinality(Sent(t))
  BY <1>1, <1>2, InitialSegment
<1> QED
  BY <1>3

\* As long as no broadcast that was mined is overwritten, everything mined stays
\* mined, and what was stored remains good.
LEMMA MinedStays ==
  ASSUME NEW t \in Txs,
         \A n \in Mined(t) : chain'[t][n] = chain[t][n]
  PROVE  Mined(t) \subseteq Mined(t)'
BY DEF Mined, Broadcasts

\* Steps that leave the chain and the hashes alone and send no thread to store
\* anything.
LEMMA HashUnmoved ==
  ASSUME HashInv, UNCHANGED <<chain, hash>>,
         \A a \in Threads : \/ thread'[a] = thread[a]
                            \/ thread'[a].stage # "persisting"
  PROVE  Gapless' /\ ReceiptsMined' /\ HashIsMined' /\ NothingReverts'
BY DEF HashInv, Gapless, ReceiptsMined, HashIsMined, NothingReverts, Sent, Mined, Broadcasts

\* Who moves on moves alone.
LEMMA ThreadMoves ==
  ASSUME AuditTypes, NEW a \in Threads
  PROVE  /\ \A stage, t, n : SetThread(a, stage, t, n) =>
              /\ thread'[a] = [stage |-> stage, tx |-> t, number |-> n]
              /\ \A b \in Threads : b # a => thread'[b] = thread[b]
         /\ EndThread(a) =>
              /\ thread'[a] = Idle
              /\ \A b \in Threads : b # a => thread'[b] = thread[b]
BY DEF AuditTypes, AuditTypeOK, SetThread, EndThread

LEMMA NothingToStore ==
  ASSUME AuditTypes, NEW a \in Threads, NEW stage \in Stages \ {"persisting"}, NEW t, NEW n,
         SetThread(a, stage, t, n) \/ EndThread(a)
  PROVE  \A b \in Threads : thread'[b] = thread[b] \/ thread'[b].stage # "persisting"
<1>1. CASE SetThread(a, stage, t, n)
  <2>1. /\ thread'[a] = [stage |-> stage, tx |-> t, number |-> n]
        /\ \A b \in Threads : b # a => thread'[b] = thread[b]
    BY <1>1, ThreadMoves
  <2> QED
    BY <2>1
<1>2. CASE EndThread(a)
  BY <1>2, ThreadMoves DEF Idle
<1> QED
  BY <1>1, <1>2

LEMMA HashSend ==
  ASSUME HashInv, NEW a \in Threads, NEW answered \in BOOLEAN, Send(a, answered)
  PROVE  Gapless' /\ ReceiptsMined' /\ HashIsMined' /\ NothingReverts'
<1> USE DEF HashInv
<1>1. PICK t \in Txs : t = thread[a].tx
  BY DEF Send, AuditTypes, Busy
<1>c. PICK c \in Nat : c = Cardinality(Sent(t))
  BY <1>1, NumberIsFree
<1> DEFINE n == c + 1
<1>2. /\ n \in Numbers /\ n \notin Sent(t)
      /\ \A m \in 1 .. n - 1 : m \in Sent(t)
  <2>1. n \in Numbers
    BY <1>1, <1>c, NextNumber DEF Send
  <2>2. n \notin Sent(t) /\ \A m \in 1 .. c : m \in Sent(t)
    BY <1>c, NumberIsFree
  <2> QED
    BY <2>1, <2>2
<1>3. /\ chain' = [chain EXCEPT ![t][n] = "pending"]
      /\ hash' = hash
      /\ SetThread(a, "waiting", t, n) \/ EndThread(a)
  BY <1>1, <1>c DEF Send, database
<1> HIDE DEF n
<1>4. /\ chain[t][n] = "none" /\ chain'[t][n] = "pending"
      /\ \A k \in Numbers \ {n} : chain'[t][k] = chain[t][k]
      /\ \A u \in Txs \ {t} : chain'[u] = chain[u]
  BY <1>1, <1>2, <1>3 DEF AuditTypes, AuditTypeOK, Sent, Broadcasts
<1>5. \A u \in Txs : Mined(u) \subseteq Mined(u)'
  BY <1>4, MinedStays DEF Mined, Broadcasts
<1>6. Gapless'
  <2>1. Sent(t)' = Sent(t) \cup {n}
    BY <1>2, <1>4 DEF Sent, Broadcasts
  <2>2. \A u \in Txs \ {t} : Sent(u)' = Sent(u)
    BY <1>4 DEF Sent, Broadcasts
  <2>3. \A m \in 1 .. n : m \in Sent(t) \cup {n}
    BY <1>2 DEF Numbers
  <2> QED
    BY <2>1, <2>2, <2>3 DEF Gapless
<1>7. ReceiptsMined'
  <2>1. \A b \in Threads : thread'[b] = thread[b] \/ thread'[b].stage # "persisting"
    <3>1. "waiting" \in Stages \ {"persisting"}
      BY DEF Stages
    <3> QED
      BY <1>3, <3>1, NothingToStore
  <2>2. \A b \in Threads : thread[b].stage = "persisting" => thread[b].tx \in Txs
    BY DEF AuditTypes, Busy
  <2> QED
    BY <2>1, <2>2, <1>5 DEF ReceiptsMined
<1>8. HashIsMined'
  BY <1>3, <1>5 DEF HashIsMined
<1>9. NothingReverts'
  BY <1>4 DEF NothingReverts, Broadcasts
<1> QED
  BY <1>6, <1>7, <1>8, <1>9

LEMMA HashChain ==
  ASSUME HashInv, NEW t \in Txs, NEW n \in Numbers,
         Drop(t, n) \/ \E outcome \in {"logged", "reverted"} : Mine(t, n, outcome)
  PROVE  Gapless' /\ ReceiptsMined' /\ HashIsMined' /\ NothingReverts'
<1> USE DEF HashInv
<1>1. PICK outcome \in {"logged", "reverted", "dropped"} :
        /\ chain' = [chain EXCEPT ![t][n] = outcome]
        /\ outcome = "reverted" => ~RelayerWorks
  BY DEF Drop, Mine
<1>2. chain[t][n] = "pending" /\ UNCHANGED <<hash, thread>>
  BY DEF Drop, Mine, database
<1>3. /\ chain'[t][n] = outcome
      /\ \A k \in Numbers \ {n} : chain'[t][k] = chain[t][k]
      /\ \A u \in Txs \ {t} : chain'[u] = chain[u]
  BY <1>1 DEF AuditTypes, AuditTypeOK
<1>4. \A u \in Txs : Mined(u) \subseteq Mined(u)'
  BY <1>2, <1>3, MinedStays DEF Mined, Broadcasts
<1>5. \A u \in Txs : Sent(u)' = Sent(u)
  BY <1>2, <1>3 DEF Sent, Broadcasts
<1>6. Gapless'
  BY <1>5 DEF Gapless
<1>7. ReceiptsMined'
  <2>1. \A b \in Threads : thread[b].stage = "persisting" => thread[b].tx \in Txs
    BY DEF AuditTypes, Busy
  <2> QED
    BY <1>2, <1>4, <2>1 DEF ReceiptsMined
<1>8. HashIsMined'
  BY <1>2, <1>4 DEF HashIsMined
<1>9. NothingReverts'
  BY <1>1, <1>3 DEF NothingReverts, Broadcasts
<1> QED
  BY <1>6, <1>7, <1>8, <1>9

\* A thread goes to store a broadcast that was mined.
LEMMA HashFound ==
  ASSUME HashInv, UNCHANGED <<chain, hash>>, NEW a \in Threads, NEW t \in Txs,
         NEW n \in Mined(t), SetThread(a, "persisting", t, n)
  PROVE  Gapless' /\ ReceiptsMined' /\ HashIsMined' /\ NothingReverts'
<1>1. /\ thread'[a] = [stage |-> "persisting", tx |-> t, number |-> n]
      /\ \A b \in Threads : b # a => thread'[b] = thread[b]
  BY ThreadMoves DEF HashInv
<1>2. ReceiptsMined'
  BY <1>1 DEF HashInv, ReceiptsMined, Mined, Broadcasts
<1> QED
  BY <1>2 DEF HashInv, Gapless, HashIsMined, NothingReverts, Sent, Mined, Broadcasts

LEMMA HashPersist ==
  ASSUME HashInv, NEW a \in Threads, Persist(a)
  PROVE  Gapless' /\ ReceiptsMined' /\ HashIsMined' /\ NothingReverts'
<1>1. /\ hash' = [hash EXCEPT ![thread[a].tx] = thread[a].number]
      /\ chain' = chain
      /\ thread'[a] = Idle
      /\ \A b \in Threads : b # a => thread'[b] = thread[b]
  BY ThreadMoves DEF Persist, HashInv
<1>2. thread[a].tx \in Txs /\ thread[a].number \in Mined(thread[a].tx)
  BY DEF HashInv, AuditTypes, Busy, Persist, ReceiptsMined
<1>3. HashIsMined'
  BY <1>1, <1>2 DEF HashInv, AuditTypes, AuditTypeOK, HashIsMined, Mined, Broadcasts
<1>4. ReceiptsMined'
  BY <1>1 DEF HashInv, ReceiptsMined, Mined, Broadcasts, Idle
<1> QED
  BY <1>1, <1>3, <1>4 DEF HashInv, Gapless, NothingReverts, Sent, Broadcasts

LEMMA HashStep == HashInv /\ [AuditNext]_auditVars => HashInv'
<1> SUFFICES ASSUME HashInv, [AuditNext]_auditVars
             PROVE  HashInv'
  OBVIOUS
<1>0. AuditTypes /\ AuditTypes'
  BY AuditTypesStep DEF HashInv
<1>r. Reconciler \in Threads /\ Goroutines \subseteq Threads
  BY DEF Threads
<1>s. {"finding", "sending"} \subseteq Stages \ {"persisting"}
  BY DEF Stages
<1> SUFFICES Gapless' /\ ReceiptsMined' /\ HashIsMined' /\ NothingReverts'
  BY <1>0 DEF HashInv
<1>1. CASE UNCHANGED auditVars
  BY <1>1, HashUnmoved DEF auditVars, database
<1>2. ASSUME NEW t \in Txs, NEW g \in Goroutines,
             ReleaseMilestone(t, g) \/ \E late \in BOOLEAN : Release(t, g, late)
      PROVE  Gapless' /\ ReceiptsMined' /\ HashIsMined' /\ NothingReverts'
  <2>1. /\ UNCHANGED <<chain, hash>>
        /\ thread' = thread \/ SetThread(g, "sending", t, 0)
    BY <1>2 DEF Release, ReleaseMilestone
  <2>2. \A a \in Threads : thread'[a] = thread[a] \/ thread'[a].stage # "persisting"
    BY <1>0, <1>r, <1>s, <2>1, NothingToStore
  <2> QED
    BY <2>1, <2>2, HashUnmoved
<1>3. ASSUME NEW a \in Threads, Receipt(a)
      PROVE  Gapless' /\ ReceiptsMined' /\ HashIsMined' /\ NothingReverts'
  <2>1. thread[a].tx \in Txs
    BY <1>0, <1>3 DEF AuditTypes, Busy, Receipt
  <2> QED
    BY <1>3, <2>1, HashFound DEF Receipt, database
<1>4. ASSUME NEW a \in Threads, Fail(a)
      PROVE  Gapless' /\ ReceiptsMined' /\ HashIsMined' /\ NothingReverts'
  <2>1. \A b \in Threads : thread'[b] = thread[b] \/ thread'[b].stage # "persisting"
    BY <1>0, <1>4, ThreadMoves DEF Fail, Idle
  <2> QED
    BY <1>4, <2>1, HashUnmoved DEF Fail, database
<1>5. ASSUME NEW t \in Txs, HourPasses(t)
      PROVE  Gapless' /\ ReceiptsMined' /\ HashIsMined' /\ NothingReverts'
  BY <1>5, HashUnmoved DEF HourPasses
<1>6. CASE ReconcileOnce
  BY <1>6, HashUnmoved DEF ReconcileOnce, database
<1>7. CASE ReconcileNext
  <2>1. \A b \in Threads : thread'[b] = thread[b] \/ thread'[b].stage # "persisting"
    BY <1>0, <1>r, <1>s, <1>7, NothingToStore DEF ReconcileNext
  <2> QED
    BY <1>7, <2>1, HashUnmoved DEF ReconcileNext, database
<1>8. CASE FindLoggedTransaction
  <2> DEFINE t == thread[Reconciler].tx
  <2>1. t \in Txs /\ UNCHANGED <<chain, hash>>
    BY <1>0, <1>r, <1>8 DEF AuditTypes, Busy, FindLoggedTransaction, database
  <2>2. CASE SetThread(Reconciler, "sending", t, 0)
    <3>1. \A b \in Threads : thread'[b] = thread[b] \/ thread'[b].stage # "persisting"
      BY <1>0, <1>r, <1>s, <2>2, NothingToStore
    <3> QED
      BY <2>1, <3>1, HashUnmoved
  <2>3. ASSUME NEW n \in Broadcasts(t, "logged"), SetThread(Reconciler, "persisting", t, n)
        PROVE  Gapless' /\ ReceiptsMined' /\ HashIsMined' /\ NothingReverts'
    <3>1. n \in Mined(t)
      BY DEF Mined
    <3> QED
      BY <1>r, <2>1, <2>3, <3>1, HashFound
  <2> QED
    BY <1>8, <2>2, <2>3 DEF FindLoggedTransaction
<1>9. CASE Restart
  <2>1. \A b \in Threads : thread'[b].stage # "persisting"
    BY <1>9 DEF Restart, Idle
  <2> QED
    BY <1>9, <2>1, HashUnmoved DEF Restart, database
<1> QED
  BY <1>1, <1>2, <1>3, <1>4, <1>5, <1>6, <1>7, <1>8, <1>9, HashSend, HashChain, HashPersist
     DEF AuditNext, Attempt, Reconcile

LEMMA HashInit == AuditInit => HashInv
<1> SUFFICES ASSUME AuditInit PROVE HashInv
  OBVIOUS
<1>1. \A t \in Txs : Sent(t) = {} /\ Broadcasts(t, "reverted") = {}
  BY DEF AuditInit, Sent, Broadcasts
<1>2. Gapless /\ ReceiptsMined /\ HashIsMined /\ NothingReverts
  BY <1>1 DEF AuditInit, Gapless, ReceiptsMined, HashIsMined, NothingReverts, Idle
<1> QED
  BY <1>2, AuditTypesInit DEF HashInv

\* Whatever is lost between the relayer and the database, the hash that is
\* stored with a transaction is that of a broadcast of this very transaction
\* that was mined, never of one that was dropped or is still under way.
THEOREM HashMinedCorrect == AuditSpec => []HashIsMined
<1>1. HashInv => HashIsMined
  BY DEF HashInv
<1> QED
  BY <1>1, HashInit, HashStep, PTL DEF AuditSpec

\* If the contract accepts the relayer's calls, the stored hash is that of an
\* entry in the log.
THEOREM HashCorrect ==
  ASSUME RelayerWorks
  PROVE  AuditSpec => []HashIsLogged
<1>1. HashInv => HashIsLogged
  <2> SUFFICES ASSUME HashInv, NEW t \in Txs, hash[t] # 0
               PROVE  chain[t][hash[t]] = "logged"
    BY DEF HashIsLogged
  <2> QED
    BY DEF HashInv, HashIsMined, NothingReverts, Mined, Broadcasts
<1> QED
  BY <1>1, HashInit, HashStep, PTL DEF AuditSpec

-----------------------------------------------------------------------------
(* Audit log: one entry per deal.                                          *)

\* The broadcasts of t that are in the log or may still get there.
Live(t) == Broadcasts(t, "pending") \cup Broadcasts(t, "logged")

\* A deal that has not been released is unknown to the chain and to everybody.
UntouchedUntilReleased(t) ==
  /\ early[t] = {}
  /\ t \notin Released =>
       /\ \A n \in Numbers : chain[t][n] = "none"
       /\ \A a \in Threads : thread[a].tx # t

\* At most one thread is on a deal: its goroutine while the deal is fresh, and
\* the reconciler later, which takes a deal from its queue for good.
AloneOn(t) ==
  /\ \A a, b \in Threads : thread[a].tx = t /\ thread[b].tx = t => a = b
  /\ \A g \in Goroutines : thread[g].tx = t => t \in fresh
  /\ thread[Reconciler].tx = t => t \in Released \ fresh /\ t \notin ToSet(queue)

\* Whoever may still send for a deal knows that nothing is under way, and
\* whoever is about to send knows that nothing is in the log either.
SendsSafely(t) ==
  /\ t \in ToSet(queue) => t \notin fresh /\ Broadcasts(t, "pending") = {}
  /\ \A a \in Threads : thread[a].tx = t =>
       /\ thread[a].stage = "finding" => Broadcasts(t, "pending") = {}
       /\ thread[a].stage = "sending" => Live(t) = {}

OneLive(t) == \A m, n \in Live(t) : m = n

Careful(t) == UntouchedUntilReleased(t) /\ AloneOn(t) /\ SendsSafely(t) /\ OneLive(t)

CarefulInv ==
  /\ IsInjective(queue)
  /\ \A t \in Txs \ Contracts : Careful(t)

\* What makes a deal careful is the deal's own state.
LEMMA CarefulUnmoved ==
  ASSUME NEW t \in Txs, Careful(t),
         chain'[t] = chain[t], early'[t] = early[t],
         t \in Released' <=> t \in Released,
         t \in fresh' <=> t \in fresh,
         t \in ToSet(queue') => t \in ToSet(queue),
         \A a \in Threads : thread'[a].tx = t => thread'[a] = thread[a]
  PROVE  Careful(t)'
<1>1. /\ Broadcasts(t, "pending")' = Broadcasts(t, "pending")
      /\ Live(t)' = Live(t)
  BY DEF Live, Broadcasts
<1>2. UntouchedUntilReleased(t)'
  BY DEF Careful, UntouchedUntilReleased
<1>3. AloneOn(t)'
  BY DEF Careful, AloneOn, Threads
<1>4. SendsSafely(t)'
  BY <1>1 DEF Careful, SendsSafely, ToSet
<1>5. OneLive(t)'
  BY <1>1 DEF Careful, OneLive
<1> QED
  BY <1>2, <1>3, <1>4, <1>5 DEF Careful

LEMMA CarefulRelease ==
  ASSUME AuditTypes, NEW t \in Txs \ Contracts, Careful(t),
         NEW u \in Txs, NEW g \in Goroutines, NEW late \in BOOLEAN, Release(u, g, late)
  PROVE  Careful(t)'
<1>0. /\ Released' = Released \cup {u} /\ fresh' = fresh \cup {u} /\ u \notin Released
      /\ early' = [early EXCEPT ![u] = IF late THEN Mined(u) ELSE {}]
      /\ UNCHANGED <<chain, queue>>
  BY AppendElements DEF Release, AuditTypes, AuditTypeOK, Released
<1>g. g \in Threads /\ Reconciler \in Threads /\ Reconciler \notin Goroutines
  BY AuditAssumption DEF Threads
<1>1. /\ \A a \in Threads : thread'[a].tx \in {thread[a].tx, u}
      /\ \A a \in Threads : thread'[a].tx # u \/ a # g => thread'[a] = thread[a]
      /\ thread'[g] \in {thread[g], [stage |-> "sending", tx |-> u, number |-> 0]}
  <2>1. CASE UNCHANGED thread
    BY <2>1
  <2>2. CASE SetThread(g, "sending", u, 0)
    <3>1. /\ thread'[g] = [stage |-> "sending", tx |-> u, number |-> 0]
          /\ \A b \in Threads : b # g => thread'[b] = thread[b]
      BY <1>g, <2>2, ThreadMoves
    <3> QED
      BY <1>g, <3>1
  <2> QED
    BY <2>1, <2>2 DEF Release
<1>2. CASE u # t
  <2>1. chain'[t] = chain[t] /\ early'[t] = early[t]
    BY <1>0, <1>2 DEF AuditTypes, AuditTypeOK
  <2>2. \A a \in Threads : thread'[a].tx = t => thread'[a] = thread[a]
    BY <1>1, <1>2
  <2> QED
    BY <1>0, <1>2, <2>1, <2>2, CarefulUnmoved
<1>3. CASE u = t
  <2>1. /\ Live(t) = {} /\ Mined(t) = {} /\ Broadcasts(t, "pending") = {}
        /\ \A a \in Threads : thread[a].tx # t
    BY <1>0, <1>3 DEF Careful, UntouchedUntilReleased, Live, Mined, Broadcasts
  <2>2. Live(t)' = {} /\ Broadcasts(t, "pending")' = {}
    BY <1>0, <2>1 DEF Live, Broadcasts
  <2>3. t \notin ToSet(queue')
    BY <1>0, <1>3 DEF AuditTypes, AuditTypeOK, ToSet
  <2>4. \A a \in Threads : thread'[a].tx = t => a = g /\ thread'[a].stage = "sending"
    BY <1>1, <1>3, <2>1
  <2>5. UntouchedUntilReleased(t)'
    BY <1>0, <1>3, <2>1 DEF UntouchedUntilReleased, AuditTypes, AuditTypeOK
  <2>6. AloneOn(t)'
    BY <1>0, <1>3, <1>g, <2>4 DEF AloneOn
  <2>7. SendsSafely(t)' /\ OneLive(t)'
    BY <2>2, <2>3, <2>4 DEF SendsSafely, OneLive
  <2> QED
    BY <2>5, <2>6, <2>7 DEF Careful
<1> QED
  BY <1>2, <1>3

LEMMA CarefulReleaseMilestone ==
  ASSUME AuditTypes, NEW t \in Txs \ Contracts, Careful(t),
         NEW u \in Txs, NEW g \in Goroutines, ReleaseMilestone(u, g)
  PROVE  Careful(t)'
<1>1. /\ u # t
      /\ SetThread(g, "sending", u, 0)
      /\ UNCHANGED <<releases, fresh, chain, early, queue>>
  BY DEF ReleaseMilestone
<1>2. g \in Threads
  BY DEF Threads
<1>3. \A a \in Threads : thread'[a].tx = t => thread'[a] = thread[a]
  <2>1. /\ thread'[g] = [stage |-> "sending", tx |-> u, number |-> 0]
        /\ \A b \in Threads : b # g => thread'[b] = thread[b]
    BY <1>1, <1>2, ThreadMoves
  <2> QED
    BY <1>1, <2>1
<1> QED
  BY <1>1, <1>3, CarefulUnmoved DEF Released

LEMMA CarefulSend ==
  ASSUME AuditTypes, NEW t \in Txs \ Contracts, Careful(t),
         NEW a \in Threads, NEW answered \in BOOLEAN, Send(a, answered)
  PROVE  Careful(t)'
<1>1. PICK u \in Txs : u = thread[a].tx
  BY DEF Send, AuditTypes, Busy
<1>2. PICK n \in Numbers : n = Cardinality(Sent(u)) + 1
  BY <1>1, NextNumber DEF Send
<1>3. /\ chain' = [chain EXCEPT ![u][n] = "pending"]
      /\ thread[a].stage = "sending"
      /\ UNCHANGED <<releases, fresh, early, queue>>
      /\ SetThread(a, "waiting", u, n) \/ EndThread(a)
  BY <1>1, <1>2 DEF Send, database
<1>4. /\ \/ thread'[a].tx = NoTx
         \/ thread'[a].tx = u /\ thread'[a].stage = "waiting"
      /\ \A b \in Threads : b # a => thread'[b] = thread[b]
  <2>1. CASE SetThread(a, "waiting", u, n)
    <3>1. /\ thread'[a] = [stage |-> "waiting", tx |-> u, number |-> n]
          /\ \A b \in Threads : b # a => thread'[b] = thread[b]
      BY <2>1, ThreadMoves
    <3> QED
      BY <3>1
  <2>2. CASE EndThread(a)
    BY <2>2, ThreadMoves DEF Idle
  <2> QED
    BY <1>3, <2>1, <2>2
<1>t. t # NoTx
  BY AuditAssumption
<1>5. CASE u # t
  <2>1. chain'[t] = chain[t]
    BY <1>3, <1>5 DEF AuditTypes, AuditTypeOK
  <2>2. \A b \in Threads : thread'[b].tx = t => thread'[b] = thread[b]
    BY <1>4, <1>5, <1>t
  <2> QED
    BY <1>3, <2>1, <2>2, CarefulUnmoved DEF Released
<1>6. CASE u = t
  <2>1. /\ Live(t) = {}
        /\ \A b \in Threads : thread[b].tx = t => b = a
    BY <1>1, <1>3, <1>6 DEF Careful, SendsSafely, AloneOn
  <2>2. /\ chain'[t][n] = "pending"
        /\ \A k \in Numbers \ {n} : chain'[t][k] = chain[t][k]
    BY <1>3, <1>6 DEF AuditTypes, AuditTypeOK
  <2>3. Live(t)' = {n}
    BY <2>1, <2>2 DEF Live, Broadcasts
  <2>4. /\ t \in Released /\ t \in Released'
        /\ t \notin ToSet(queue')
    <3>1. t \in Released
      BY <1>1, <1>6 DEF Careful, UntouchedUntilReleased
    <3>2. CASE a = Reconciler
      BY <1>1, <1>3, <1>6, <3>1, <3>2 DEF Careful, AloneOn, Released
    <3>3. CASE a \in Goroutines
      BY <1>1, <1>3, <1>6, <3>1, <3>3 DEF Careful, AloneOn, SendsSafely, Released
    <3> QED
      BY <3>2, <3>3 DEF Threads
  <2>5. \A b \in Threads : thread'[b].tx = t =>
          b = a /\ thread[b].tx = t /\ thread'[b].stage = "waiting"
    BY <1>1, <1>4, <1>6, <1>t, <2>1
  <2>6. UntouchedUntilReleased(t)'
    BY <1>3, <2>4 DEF Careful, UntouchedUntilReleased
  <2>7. AloneOn(t)'
    <3>1. Reconciler \in Threads /\ Goroutines \subseteq Threads
      BY DEF Threads
    <3> QED
      BY <1>3, <2>4, <2>5, <3>1 DEF Careful, AloneOn, Released
  <2>8. SendsSafely(t)' /\ OneLive(t)'
    BY <2>3, <2>4, <2>5 DEF SendsSafely, OneLive
  <2> QED
    BY <2>6, <2>7, <2>8 DEF Careful
<1> QED
  BY <1>5, <1>6

\* A thread moves on with its transaction, or ends.
LEMMA CarefulMove ==
  ASSUME AuditTypes, NEW t \in Txs \ Contracts, Careful(t), NEW a \in Threads,
         \/ EndThread(a)
         \/ \E n : SetThread(a, "persisting", thread[a].tx, n),
         UNCHANGED <<releases, fresh, chain, early, queue>>
  PROVE  Careful(t)'
<1>1. /\ \/ thread'[a] = Idle
         \/ thread'[a].stage = "persisting" /\ thread'[a].tx = thread[a].tx
      /\ \A b \in Threads : b # a => thread'[b] = thread[b]
  <2>1. CASE EndThread(a)
    BY <2>1, ThreadMoves
  <2>2. ASSUME NEW n, SetThread(a, "persisting", thread[a].tx, n)
        PROVE  /\ thread'[a].stage = "persisting" /\ thread'[a].tx = thread[a].tx
               /\ \A b \in Threads : b # a => thread'[b] = thread[b]
    <3>1. /\ thread'[a] = [stage |-> "persisting", tx |-> thread[a].tx, number |-> n]
          /\ \A b \in Threads : b # a => thread'[b] = thread[b]
      BY <2>2, ThreadMoves
    <3> QED
      BY <3>1
  <2> QED
    BY <2>1, <2>2
<1>2. \A b \in Threads : thread'[b].tx = t =>
        /\ thread[b].tx = t
        /\ thread'[b] = thread[b] \/ thread'[b].stage = "persisting"
  BY <1>1, AuditAssumption DEF Idle
<1>3. /\ Live(t)' = Live(t) /\ Broadcasts(t, "pending")' = Broadcasts(t, "pending")
      /\ Released' = Released
  BY DEF Live, Broadcasts, Released
<1>4. UntouchedUntilReleased(t)'
  BY <1>2, <1>3 DEF Careful, UntouchedUntilReleased
<1>5. AloneOn(t)'
  BY <1>2, <1>3 DEF Careful, AloneOn, Threads
<1>6. SendsSafely(t)'
  BY <1>2, <1>3 DEF Careful, SendsSafely
<1>7. OneLive(t)'
  BY <1>3 DEF Careful, OneLive
<1> QED
  BY <1>4, <1>5, <1>6, <1>7 DEF Careful

LEMMA CarefulChain ==
  ASSUME AuditTypes, NEW t \in Txs \ Contracts, Careful(t), NEW u \in Txs, NEW n \in Numbers,
         Drop(u, n) \/ \E outcome \in {"logged", "reverted"} : Mine(u, n, outcome)
  PROVE  Careful(t)'
<1>1. PICK outcome \in {"logged", "reverted", "dropped"} :
        chain' = [chain EXCEPT ![u][n] = outcome]
  BY DEF Drop, Mine
<1>2. chain[u][n] = "pending" /\ UNCHANGED <<releases, fresh, early, thread, queue>>
  BY DEF Drop, Mine, database
<1>3. CASE u # t
  <2>1. chain'[t] = chain[t]
    BY <1>1, <1>3 DEF AuditTypes, AuditTypeOK
  <2> QED
    BY <1>2, <2>1, CarefulUnmoved DEF Released
<1>4. CASE u = t
  <2>1. /\ chain'[t][n] = outcome
        /\ \A k \in Numbers \ {n} : chain'[t][k] = chain[t][k]
    BY <1>1, <1>4 DEF AuditTypes, AuditTypeOK
  <2>2. /\ Live(t)' \subseteq Live(t)
        /\ Broadcasts(t, "pending")' \subseteq Broadcasts(t, "pending")
    BY <1>2, <1>4, <2>1 DEF Live, Broadcasts
  <2>3. t \in Released /\ Released' = Released
    BY <1>2, <1>4 DEF Careful, UntouchedUntilReleased, Released
  <2>4. UntouchedUntilReleased(t)' /\ AloneOn(t)'
    BY <1>2, <2>3 DEF Careful, UntouchedUntilReleased, AloneOn
  <2>5. SendsSafely(t)'
    BY <1>2, <2>2 DEF Careful, SendsSafely
  <2>6. OneLive(t)'
    BY <2>2 DEF Careful, OneLive
  <2> QED
    BY <2>4, <2>5, <2>6 DEF Careful
<1> QED
  BY <1>3, <1>4

LEMMA CarefulHour ==
  ASSUME AuditTypes, NEW t \in Txs \ Contracts, Careful(t), NEW u \in Txs, HourPasses(u)
  PROVE  Careful(t)'
<1>1. /\ fresh' = fresh \ {u}
      /\ \A g \in Goroutines : thread[g].tx # u
      /\ UNCHANGED <<releases, chain, early, thread, queue>>
  BY DEF HourPasses, Settled
<1>2. CASE u # t
  BY <1>1, <1>2, CarefulUnmoved DEF Released
<1>3. CASE u = t
  <2>1. /\ Live(t)' = Live(t) /\ Broadcasts(t, "pending")' = Broadcasts(t, "pending")
        /\ Released' = Released
    BY <1>1 DEF Live, Broadcasts, Released
  <2>2. UntouchedUntilReleased(t)' /\ OneLive(t)'
    BY <1>1, <2>1 DEF Careful, UntouchedUntilReleased, OneLive
  <2>3. AloneOn(t)' /\ SendsSafely(t)'
    BY <1>1, <1>3, <2>1 DEF Careful, AloneOn, SendsSafely
  <2> QED
    BY <2>2, <2>3 DEF Careful
<1> QED
  BY <1>2, <1>3

\* A cycle begins: no thread of the reconciler is on a deal, and the deals it
\* takes up are past the grace hour with nothing under way.
LEMMA CarefulCycle ==
  ASSUME AuditTypes, NEW t \in Txs \ Contracts, Careful(t), ReconcileOnce
  PROVE  Careful(t)'
<1>1. /\ ToSet(queue') \subseteq Gaps
      /\ thread[Reconciler] = Idle
      /\ \A u \in Gaps \ fresh : Broadcasts(u, "pending") = {}
      /\ UNCHANGED <<releases, fresh, chain, early, thread>>
  <2>1. Gaps \in SUBSET Released
    BY DEF Gaps
  <2>2. queue' \in Oldest(Gaps, Min({BatchSize, Cardinality(Gaps)}))
    BY DEF ReconcileOnce
  <2>3. ToSet(queue') \subseteq Gaps
    BY <2>1, <2>2, OldestOnce, CycleSize DEF AuditTypes
  <2> QED
    BY <2>3 DEF ReconcileOnce, database
<1>2. /\ Live(t)' = Live(t) /\ Broadcasts(t, "pending")' = Broadcasts(t, "pending")
      /\ Released' = Released
  BY <1>1 DEF Live, Broadcasts, Released
<1>3. UntouchedUntilReleased(t)' /\ OneLive(t)'
  BY <1>1, <1>2 DEF Careful, UntouchedUntilReleased, OneLive
<1>4. AloneOn(t)'
  BY <1>1, AuditAssumption DEF Careful, AloneOn, Idle
<1>5. SendsSafely(t)'
  <2>1. t \in Gaps => t \notin fresh
    BY DEF Gaps
  <2> QED
    BY <1>1, <1>2, <2>1 DEF Careful, SendsSafely
<1> QED
  BY <1>3, <1>4, <1>5 DEF Careful

LEMMA CarefulNext ==
  ASSUME AuditTypes, IsInjective(queue), NEW t \in Txs \ Contracts, Careful(t), ReconcileNext
  PROVE  Careful(t)'
<1>0. Reconciler \in Threads /\ Reconciler \notin Goroutines
  BY AuditAssumption DEF Threads
<1>1. /\ queue \in Seq(Released) /\ queue # << >>
      /\ queue' = Tail(queue)
      /\ thread[Reconciler] = Idle
      /\ SetThread(Reconciler, "finding", Head(queue), 0)
      /\ UNCHANGED <<releases, fresh, chain, early>>
  BY DEF ReconcileNext, AuditTypes, AuditTypeOK, database
<1>2. /\ Head(queue) \in ToSet(queue) /\ Head(queue) \in Released
      /\ ToSet(queue') \subseteq ToSet(queue)
      /\ Head(queue) \notin ToSet(queue')
  BY <1>1, TailElements
<1>3. /\ thread'[Reconciler] = [stage |-> "finding", tx |-> Head(queue), number |-> 0]
      /\ \A b \in Threads : b # Reconciler => thread'[b] = thread[b]
  BY <1>0, <1>1, ThreadMoves
<1>4. thread'[Reconciler].stage = "finding" /\ thread'[Reconciler].tx = Head(queue)
  BY <1>3
<1>5. CASE Head(queue) # t
  <2>1. \A b \in Threads : thread'[b].tx = t => thread'[b] = thread[b]
    BY <1>3, <1>4, <1>5
  <2> QED
    BY <1>1, <1>2, <2>1, CarefulUnmoved DEF Released
<1>6. CASE Head(queue) = t
  <2>1. /\ t \in Released /\ t \notin fresh /\ t \notin ToSet(queue')
        /\ Broadcasts(t, "pending") = {}
    BY <1>2, <1>6 DEF Careful, SendsSafely
  <2>2. /\ Live(t)' = Live(t) /\ Broadcasts(t, "pending")' = {}
        /\ Released' = Released
    BY <1>1, <2>1 DEF Live, Broadcasts, Released
  <2>3. \A b \in Threads : thread'[b].tx = t => b = Reconciler
    BY <1>3, <2>1 DEF Careful, AloneOn, Threads
  <2>4. UntouchedUntilReleased(t)' /\ OneLive(t)'
    BY <1>1, <2>1, <2>2 DEF Careful, UntouchedUntilReleased, OneLive
  <2>5. AloneOn(t)'
    BY <1>0, <1>1, <2>1, <2>2, <2>3 DEF AloneOn, Threads
  <2>6. SendsSafely(t)'
    BY <1>4, <2>1, <2>2, <2>3 DEF SendsSafely
  <2> QED
    BY <2>4, <2>5, <2>6 DEF Careful
<1> QED
  BY <1>5, <1>6

\* The scan of a deal misses no entry, so what it does not find is not there.
LEMMA CarefulFind ==
  ASSUME AuditTypes, NEW t \in Txs \ Contracts, Careful(t), FindLoggedTransaction
  PROVE  Careful(t)'
<1>0. Reconciler \in Threads
  BY DEF Threads
<1>1. PICK u \in Txs : u = thread[Reconciler].tx
  BY <1>0 DEF FindLoggedTransaction, AuditTypes, Busy
<1>2. /\ thread[Reconciler].stage = "finding"
      /\ UNCHANGED <<releases, fresh, hash, chain, early, queue>>
  BY DEF FindLoggedTransaction, database
<1>3. CASE \E n : SetThread(Reconciler, "persisting", u, n)
  BY <1>0, <1>1, <1>2, <1>3, CarefulMove
<1>4. CASE /\ Broadcasts(u, "logged") \ early[u] = {}
           /\ SetThread(Reconciler, "sending", u, 0)
  <2>1. /\ thread'[Reconciler] = [stage |-> "sending", tx |-> u, number |-> 0]
        /\ \A b \in Threads : b # Reconciler => thread'[b] = thread[b]
    BY <1>0, <1>4, ThreadMoves
  <2>2. thread'[Reconciler].stage = "sending" /\ thread'[Reconciler].tx = u
    BY <2>1
  <2>3. CASE u # t
    <3>1. \A b \in Threads : thread'[b].tx = t => thread'[b] = thread[b]
      BY <2>1, <2>2, <2>3
    <3> QED
      BY <1>2, <3>1, CarefulUnmoved DEF Released
  <2>4. CASE u = t
    <3>1. Broadcasts(t, "pending") = {} /\ Broadcasts(t, "logged") = {}
      BY <1>0, <1>1, <1>2, <1>4, <2>4 DEF Careful, SendsSafely, UntouchedUntilReleased
    <3>2. /\ Live(t)' = {} /\ Broadcasts(t, "pending")' = {}
          /\ Released' = Released
      BY <1>2, <3>1 DEF Live, Broadcasts, Released
    <3>3. \A b \in Threads : thread'[b].tx = t <=> thread[b].tx = t
      BY <1>1, <2>1, <2>2
    <3>4. UntouchedUntilReleased(t)' /\ OneLive(t)'
      BY <1>2, <3>2, <3>3 DEF Careful, UntouchedUntilReleased, OneLive
    <3>5. AloneOn(t)'
      BY <1>2, <3>2, <3>3 DEF Careful, AloneOn, Threads
    <3>6. SendsSafely(t)'
      BY <1>2, <3>2 DEF Careful, SendsSafely
    <3> QED
      BY <3>4, <3>5, <3>6 DEF Careful
  <2> QED
    BY <2>3, <2>4
<1> QED
  BY <1>1, <1>3, <1>4 DEF FindLoggedTransaction

LEMMA CarefulRestart ==
  ASSUME AuditTypes, NEW t \in Txs \ Contracts, Careful(t), Restart
  PROVE  Careful(t)'
<1>1. /\ \A a \in Threads : thread'[a].tx # t
      /\ t \notin ToSet(queue')
      /\ UNCHANGED <<releases, fresh, chain, early>>
  BY AuditAssumption DEF Restart, Idle, ToSet, database
<1> QED
  BY <1>1, CarefulUnmoved DEF Released

LEMMA QueueStep ==
  ASSUME AuditTypes, IsInjective(queue), [AuditNext]_auditVars
  PROVE  IsInjective(queue')
<1>1. CASE UNCHANGED queue
  BY <1>1
<1>2. CASE ReconcileOnce
  <2>1. Gaps \in SUBSET Released
    BY DEF Gaps
  <2>2. queue' \in Oldest(Gaps, Min({BatchSize, Cardinality(Gaps)}))
    BY <1>2 DEF ReconcileOnce
  <2> QED
    BY <2>1, <2>2, OldestOnce, CycleSize DEF AuditTypes
<1>3. CASE ReconcileNext
  BY <1>3, TailElements DEF ReconcileNext, AuditTypes, AuditTypeOK
<1>4. CASE Restart
  BY <1>4 DEF Restart, IsInjective
<1> QED
  BY <1>1, <1>2, <1>3, <1>4
     DEF AuditNext, ReleaseMilestone, Release, Attempt, Send, Receipt, Persist, Fail, Drop, Mine,
         HourPasses, Reconcile, FindLoggedTransaction, auditVars

LEMMA CarefulStep == AuditTypes /\ CarefulInv /\ [AuditNext]_auditVars => CarefulInv'
<1> SUFFICES ASSUME AuditTypes, CarefulInv, [AuditNext]_auditVars,
                    NEW t \in Txs \ Contracts
             PROVE  Careful(t)'
  BY QueueStep DEF CarefulInv
<1>0. Careful(t) /\ IsInjective(queue)
  BY DEF CarefulInv
<1>1. CASE UNCHANGED auditVars
  BY <1>0, <1>1, CarefulUnmoved DEF auditVars, database, Released
<1>2. ASSUME NEW a \in Threads, Receipt(a) \/ Persist(a) \/ Fail(a)
      PROVE  Careful(t)'
  <2>1. /\ EndThread(a) \/ \E n : SetThread(a, "persisting", thread[a].tx, n)
        /\ UNCHANGED <<releases, fresh, chain, early, queue>>
    BY <1>2 DEF Receipt, Persist, Fail, database
  <2> QED
    BY <1>0, <2>1, CarefulMove
<1> QED
  BY <1>0, <1>1, <1>2, CarefulRelease, CarefulReleaseMilestone, CarefulSend, CarefulChain,
     CarefulHour, CarefulCycle, CarefulNext, CarefulFind, CarefulRestart
     DEF AuditNext, Attempt, Reconcile

LEMMA CarefulInit == AuditInit => CarefulInv
<1> SUFFICES ASSUME AuditInit PROVE CarefulInv
  OBVIOUS
<1>1. IsInjective(queue) /\ ToSet(queue) = {}
  BY DEF AuditInit, IsInjective, ToSet
<1>2. ASSUME NEW t \in Txs \ Contracts
      PROVE  Careful(t)
  <2>1. \A a \in Threads : thread[a].tx # t
    BY AuditAssumption DEF AuditInit, Idle
  <2>2. Live(t) = {}
    BY DEF AuditInit, Live, Broadcasts
  <2>3. UntouchedUntilReleased(t)
    BY <2>1 DEF AuditInit, UntouchedUntilReleased
  <2> QED
    BY <1>1, <2>1, <2>2, <2>3 DEF Careful, AloneOn, SendsSafely, OneLive, Threads
<1> QED
  BY <1>1, <1>2 DEF CarefulInv

\* A deal that is released in one go has at most one entry in the log, whatever
\* is lost between the relayer, the chain and the database, and however often
\* the process dies and the reconciler tries again: for any number of deals,
\* threads, broadcasts and cycles.
THEOREM LoggedOnceCorrect == AuditSpec => []LoggedOnce
<1>1. CarefulInv => LoggedOnce
  <2> SUFFICES ASSUME CarefulInv, NEW t \in Txs \ Contracts
               PROVE  Cardinality(Broadcasts(t, "logged")) <= 1
    BY DEF LoggedOnce
  <2>1. \A m, n \in Broadcasts(t, "logged") : m = n
    BY DEF CarefulInv, Careful, OneLive, Live
  <2>2. CASE Broadcasts(t, "logged") = {}
    BY <2>2, FS_EmptySet
  <2>3. ASSUME NEW n \in Broadcasts(t, "logged")
        PROVE  Cardinality(Broadcasts(t, "logged")) <= 1
    <3>1. Broadcasts(t, "logged") = {n}
      BY <2>1
    <3>2. Cardinality({n}) = 1
      BY FS_Singleton
    <3> QED
      BY <3>1, <3>2
  <2> QED
    BY <2>2, <2>3
<1> QED
  BY <1>1, CarefulInit, AuditTypesInit, CarefulStep, AuditTypesStep, PTL DEF AuditSpec

\* Only the answer of the lookup sends the reconciler off to log a deal again.
LEMMA ReconcilerSends ==
  ASSUME AuditTypes, AuditNext,
         thread[Reconciler].stage = "finding", thread'[Reconciler].stage = "sending"
  PROVE  /\ FindLoggedTransaction
         /\ Broadcasts(thread[Reconciler].tx, "logged") \subseteq early[thread[Reconciler].tx]
<1>r. Reconciler \in Threads /\ Reconciler \notin Goroutines
  BY AuditAssumption DEF Threads
<1>1. ASSUME NEW a \in Threads,
             \/ EndThread(a)
             \/ \E stage \in {"waiting", "persisting"} : \E t, n : SetThread(a, stage, t, n)
      PROVE  FALSE
  <2>1. CASE a # Reconciler
    BY <1>r, <1>1, <2>1, ThreadMoves
  <2>2. CASE a = Reconciler
    <3>1. CASE EndThread(a)
      BY <2>2, <3>1, ThreadMoves DEF Idle
    <3>2. ASSUME NEW stage \in {"waiting", "persisting"}, NEW t, NEW n, SetThread(a, stage, t, n)
          PROVE  FALSE
      <4>1. thread'[a] = [stage |-> stage, tx |-> t, number |-> n]
        BY <3>2, ThreadMoves
      <4> QED
        BY <2>2, <4>1
    <3> QED
      BY <1>1, <3>1, <3>2
  <2> QED
    BY <2>1, <2>2
<1>2. ASSUME NEW g \in Goroutines, NEW t, SetThread(g, "sending", t, 0)
      PROVE  FALSE
  BY <1>r, <1>2, ThreadMoves DEF Threads
<1>3. CASE FindLoggedTransaction
  <2> DEFINE u == thread[Reconciler].tx
  <2>1. ~ \E n : SetThread(Reconciler, "persisting", u, n)
    BY <1>r, <1>1
  <2>2. Broadcasts(u, "logged") \ early[u] = {}
    BY <1>3, <2>1 DEF FindLoggedTransaction
  <2> QED
    BY <1>3, <2>2
<1>4. ASSUME NEW t \in Txs, NEW g \in Goroutines,
             ReleaseMilestone(t, g) \/ \E late \in BOOLEAN : Release(t, g, late)
      PROVE  FALSE
  BY <1>2, <1>4 DEF Release, ReleaseMilestone
<1>5. ASSUME NEW a \in Threads, Attempt(a)
      PROVE  FALSE
  BY <1>1, <1>5 DEF Attempt, Send, Receipt, Persist, Fail
<1>6. CASE ReconcileOnce \/ ReconcileNext \/ Restart
  BY <1>r, <1>6 DEF ReconcileOnce, ReconcileNext, Restart, Idle
<1>7. CASE thread' = thread
  BY <1>7
<1> QED
  BY <1>3, <1>4, <1>5, <1>6, <1>7 DEF AuditNext, Reconcile, Mine, Drop, HourPasses

\* For every deal that is released in one go, the bound the relayer puts on its
\* scan is right: a deal the reconciler does not find there is not in the log
\* ("`since` bounds the scan without missing anything", relayer.go).  The same
\* of contracts, ScanMissesNothing, is false.
ScanMissesNoDeal ==
  [][\A t \in Txs \ Contracts :
       (thread[Reconciler] = [stage |-> "finding", tx |-> t, number |-> 0]
          /\ thread'[Reconciler].stage = "sending")
         => Broadcasts(t, "logged") = {}]_auditVars

\* The reconciler never logs a deal again that is already in the log.
THEOREM ScanCorrect == AuditSpec => ScanMissesNoDeal
<1>1. AuditTypes /\ CarefulInv /\ [AuditNext]_auditVars =>
        [\A t \in Txs \ Contracts :
           (thread[Reconciler] = [stage |-> "finding", tx |-> t, number |-> 0]
              /\ thread'[Reconciler].stage = "sending")
             => Broadcasts(t, "logged") = {}]_auditVars
  <2> SUFFICES ASSUME AuditTypes, CarefulInv, AuditNext, NEW t \in Txs \ Contracts,
                      thread[Reconciler] = [stage |-> "finding", tx |-> t, number |-> 0],
                      thread'[Reconciler].stage = "sending"
               PROVE  Broadcasts(t, "logged") = {}
    OBVIOUS
  <2>1. thread[Reconciler].stage = "finding" /\ thread[Reconciler].tx = t
    OBVIOUS
  <2>2. Broadcasts(t, "logged") \subseteq early[t]
    BY <2>1, ReconcilerSends
  <2>3. early[t] = {}
    BY DEF CarefulInv, Careful, UntouchedUntilReleased
  <2> QED
    BY <2>2, <2>3
<1> QED
  BY <1>1, CarefulInit, AuditTypesInit, CarefulStep, AuditTypesStep, PTL DEF AuditSpec, ScanMissesNoDeal
=============================================================================
