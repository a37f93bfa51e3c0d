------------------------ MODULE ServicesEscrowProofs ------------------------
(***************************************************************************)
(* Proofs about ServicesEscrow, for any number of members, contracts,      *)
(* milestones and clients and any amounts.                                 *)
(***************************************************************************)
EXTENDS ServicesEscrow, EscrowProofs

-----------------------------------------------------------------------------
(* Milestones.                                                             *)

\* What a contract has planned for each milestone, nothing for those of others.
PlanOf(t) == [m \in Milestones |-> IF m[1] = t THEN plan[m] ELSE 0]

\* A contract has finitely many milestones, so that sums over them make sense.
LEMMA MilestonesFinite == IsFiniteSet(Milestones)
<1>1. IsFiniteSet(Indexes)
  BY MilestonesAssumption, FS_Interval DEF Indexes
<1> QED
  BY <1>1, PartiesAssumption, FS_Product DEF Milestones

\* The commission on a milestone is a part of it.
LEMMA CommissionBounds ==
  ASSUME NEW amount \in Nat
  PROVE  ServicesCommission(amount) \in Nat /\ ServicesCommission(amount) <= amount
BY PercentBounds DEF ServicesCommission

\* A breakdown that passes validation gives a positive amount to the first n
\* milestones.
LEMMA BreakdownType ==
  ASSUME NEW breakdown \in Breakdowns, \A i \in DOMAIN breakdown : breakdown[i] > 0
  PROVE  /\ DOMAIN breakdown \subseteq Indexes
         /\ breakdown \in [DOMAIN breakdown -> Nat]
<1> PICK n \in 0 .. MaxMilestones : breakdown \in [1 .. n -> MilestoneAmounts]
  BY DEF Breakdowns
<1>1. DOMAIN breakdown = 1 .. n
  OBVIOUS
<1>2. 1 .. n \subseteq Indexes
  BY MilestonesAssumption DEF Indexes
<1>3. \A i \in 1 .. n : breakdown[i] \in Nat
  <2> SUFFICES ASSUME NEW i \in 1 .. n PROVE breakdown[i] \in Nat
    OBVIOUS
  <2>1. breakdown[i] \in Int
    BY MilestonesAssumption
  <2>2. breakdown[i] > 0
    BY <1>1
  <2> QED BY <2>1, <2>2
<1> QED
  BY <1>1, <1>2, <1>3

\* What is planned and what is released are whole numbers of rupiah.
LEMMA MilestoneAmountsType ==
  ASSUME TypeOK, NEW t
  PROVE  /\ PlanOf(t) \in [Milestones -> Nat]
         /\ ReleasedAmounts \in [Milestones -> Nat]
         /\ ReleasedOf(t) \in [Milestones -> Nat]
         /\ GetReleasedMilestonesTotal(t) \in Nat
<1>1. ReleasedAmounts \in [Milestones -> Nat]
  BY DEF TypeOK, ReleasedAmounts
<1>2. ReleasedOf(t) \in [Milestones -> Nat]
  BY <1>1 DEF ReleasedOf
<1>3. PlanOf(t) \in [Milestones -> Nat]
  BY DEF TypeOK, PlanOf
<1> QED
  BY <1>1, <1>2, <1>3, MilestonesFinite, TotalType DEF GetReleasedMilestonesTotal

-----------------------------------------------------------------------------
(* Type correctness.  Paying a milestone reads the seller of its contract, *)
(* so the types rest on the contract being there.                          *)

PlanOnRows == \A m \in Milestones : plan[m] > 0 => status[m[1]] # "NONE"

TypeInv == TypeOK /\ PlanOnRows

\* Creating a contract with its milestones.
LEMMA CreateServicesType ==
  ASSUME TypeInv, NEW t \in Txs, Create(t)
  PROVE  TypeInv'
<1> PICK b \in Users, s \in Users, base \in BaseAmounts, breakdown \in Breakdowns :
           LockFundsServices(t, b, s, base, breakdown)
  BY DEF Create
<1> DEFINE net == base - ServicesCommission(base)
<1>1. base \in Nat
  BY MilestonesAssumption DEF LockFundsServices
<1>2. net \in Nat /\ net <= base
  BY <1>1, CommissionBounds
<1>3. CreateTransaction(t, b, s, base, net)
  BY DEF LockFundsServices
<1> HIDE DEF net
<1>4. EscrowTypeOK'
  BY <1>1, <1>2, <1>3, CreateType DEF TypeInv, TypeOK
<1>5. DOMAIN breakdown \subseteq Indexes /\ breakdown \in [DOMAIN breakdown -> Nat]
  BY BreakdownType DEF LockFundsServices
<1>6. plan' = [m \in Milestones |->
        IF m[1] = t /\ m[2] \in DOMAIN breakdown THEN breakdown[m[2]] ELSE plan[m]]
  BY DEF LockFundsServices
<1>7. plan' \in [Milestones -> Nat]
  BY <1>5, <1>6 DEF TypeInv, TypeOK
<1>8. status[t] = "NONE" /\ status' = [status EXCEPT ![t] = "WAITING_PAYMENT"]
  BY <1>3 DEF CreateTransaction, SetStatus
<1>9. \A m \in Milestones : plan[m] > 0 => plan'[m] > 0
  <2>1. \A m \in Milestones : plan[m] > 0 => m[1] # t
    BY <1>8 DEF TypeInv, PlanOnRows
  <2> QED
    BY <1>6, <2>1
<1>10. UNCHANGED <<released, refunded, call, audits>>
  BY DEF LockFundsServices
<1>11. TypeOK'
  BY <1>4, <1>7, <1>9, <1>10 DEF TypeInv, TypeOK
<1>12. PlanOnRows'
  BY <1>6, <1>8 DEF TypeInv, TypeOK, EscrowTypeOK, PlanOnRows, Milestones
<1> QED
  BY <1>11, <1>12 DEF TypeInv

\* The shared steps on one contract; none of them takes its row away.
LEMMA DealServicesType ==
  ASSUME TypeInv, NEW t \in Txs, DealStep(t, GetReleasedMilestonesTotal(t)),
         UNCHANGED <<plan, released, call, audits>>, refunded' \in [Txs -> Nat]
  PROVE  TypeInv'
<1>1. EscrowTypeOK'
  BY MilestoneAmountsType, DealStepType DEF TypeInv, TypeOK
<1>2. \A x \in Txs : status[x] # "NONE" => status'[x] # "NONE"
  BY DEF DealStep, DisputeStep, ConfirmPayment, CancelTransaction, OpenDispute,
         AcknowledgeDispute, ResolveDispute, RefundBuyer, PaySeller, SetStatus,
         TypeInv, TypeOK, EscrowTypeOK
<1> QED
  BY <1>1, <1>2 DEF TypeInv, TypeOK, PlanOnRows, Milestones

\* A dispute step refunds a whole number of rupiah.
LEMMA RefundedType ==
  ASSUME TypeInv, NEW t \in Txs, DisputeServices(t)
  PROVE  refunded' \in [Txs -> Nat]
<1> DEFINE total == GetReleasedMilestonesTotal(t)
<1>1. total \in Nat
  BY MilestoneAmountsType DEF TypeInv
<1> HIDE DEF total
<1>2. DisputeStep(t, total)
  BY DEF DisputeServices, total
<1>3. status'[t] = "REFUNDED" => status[t] # "NONE"
  BY <1>2 DEF DisputeStep, OpenDispute, AcknowledgeDispute, ResolveDispute
<1>4. status'[t] = "REFUNDED" => RefundAmount(t, total) \in Nat
  BY <1>1, <1>3, RefundAmountBounds DEF TypeInv, TypeOK
<1>5. refunded' = IF status'[t] = "REFUNDED"
        THEN [refunded EXCEPT ![t] = RefundAmount(t, total)] ELSE refunded
  BY DEF DisputeServices, total
<1> QED
  BY <1>4, <1>5 DEF TypeInv, TypeOK

\* Paying a milestone.
LEMMA CommitMilestoneType ==
  ASSUME TypeInv, NEW c \in Callers, CommitMilestone(c)
  PROVE  TypeInv'
<1> DEFINE m == call[c].job
           fee == ServicesCommission(plan[m])
           pay == plan[m] - fee
           seller == terms[m[1]].seller
<1>1. m \in Milestones /\ plan[m] > 0 /\ plan[m] \in Nat
  <2>1. m \in Milestones /\ call[c].stage # "idle"
    BY DEF CommitMilestone
  <2>2. m \in {j \in Milestones : plan[j] > 0}
    BY <2>1, MilestonesAssumption DEF TypeInv, TypeOK
  <2> QED
    BY <2>2 DEF TypeInv, TypeOK
<1>2. m[1] \in Txs /\ status[m[1]] # "NONE"
  BY <1>1 DEF TypeInv, PlanOnRows, Milestones
<1>3. seller \in Users
  BY <1>2 DEF TypeInv, TypeOK, EscrowTypeOK, Terms
<1>4. fee \in Nat /\ pay \in Nat
  BY <1>1, CommissionBounds
<1>5. /\ UpdateBalance(m[1], "RECEIVE_FUNDS", seller, pay)
      /\ UpdateFinance(-plan[m], fee, 0)
      /\ released' = released \cup {m}
      /\ SetCall(c, "committed", m)
      /\ UNCHANGED <<status, terms, dispute, frozen, plan, refunded, audits>>
  BY DEF CommitMilestone, PayMilestone
<1> HIDE DEF m, fee, pay, seller
<1>6. balance' \in [Users -> Nat] /\ rows' \in [Txs -> [LedgerTypes -> Nat]]
  BY <1>2, <1>3, <1>4, <1>5, CreditType DEF TypeInv, TypeOK, LedgerTypes
<1>7. finance' \in [escrow : Int, revenue : Int, midtransFees : Int]
  BY <1>1, <1>4, <1>5, FinanceType DEF TypeInv, TypeOK
<1>8. EscrowTypeOK'
  BY <1>5, <1>6, <1>7 DEF TypeInv, TypeOK, EscrowTypeOK
<1>9. /\ call' \in [Callers -> Calls]
      /\ \A x \in Callers : call'[x].stage # "idle" =>
           call'[x].job \in Txs \cup {j \in Milestones : plan[j] > 0}
  BY <1>1, <1>5 DEF TypeInv, TypeOK, SetCall, Calls, Jobs
<1> QED
  BY <1>1, <1>5, <1>8, <1>9 DEF TypeInv, TypeOK, PlanOnRows

\* Releasing a contract as a whole.
LEMMA CommitContractType ==
  ASSUME TypeInv, NEW c \in Callers, CommitContract(c)
  PROVE  TypeInv'
<1> PICK t \in Txs : t = call[c].job
  BY DEF CommitContract
<1>1. /\ status[t] = "FUNDS_LOCKED" /\ PaySeller(t)
      /\ SetCall(c, "committed", t)
      /\ UNCHANGED <<terms, dispute, frozen, plan, released, refunded, audits>>
  BY DEF CommitContract, ReleaseFundsGoods
<1>2. EscrowTypeOK'
  BY <1>1, PaySellerType DEF TypeInv, TypeOK, EscrowTypeOK
<1>3. \A x \in Txs : status[x] # "NONE" => status'[x] # "NONE"
  BY <1>1 DEF PaySeller, SetStatus, TypeInv, TypeOK, EscrowTypeOK
<1>4. /\ call' \in [Callers -> Calls]
      /\ \A x \in Callers : call'[x].stage # "idle" =>
           call'[x].job \in Txs \cup {j \in Milestones : plan[j] > 0}
  BY <1>1 DEF TypeInv, TypeOK, SetCall, Calls, Jobs
<1> QED
  BY <1>1, <1>2, <1>3, <1>4 DEF TypeInv, TypeOK, PlanOnRows, Milestones

\* Every step keeps every variable in its type, and the milestones on rows.
LEMMA TypeStep == TypeInv /\ [Next]_vars => TypeInv'
<1> SUFFICES ASSUME TypeInv, [Next]_vars
             PROVE  TypeInv'
  OBVIOUS
<1>0. UNCHANGED <<database, frozen, plan, released, refunded, audits>>
        /\ call' \in [Callers -> Calls]
        /\ (\A c \in Callers : call'[c].stage # "idle" =>
              call'[c].job \in Txs \cup {j \in Milestones : plan[j] > 0})
      => TypeInv'
  BY DEF TypeInv, TypeOK, EscrowTypeOK, PlanOnRows, database
<1>1. ASSUME NEW t \in Txs, Create(t)
      PROVE  TypeInv'
  BY <1>1, CreateServicesType
<1>2. ASSUME NEW t \in Txs, DealStep(t, GetReleasedMilestonesTotal(t)), UNCHANGED servicesVars
      PROVE  TypeInv'
  <2>1. UNCHANGED <<plan, released, call, audits>> /\ refunded' \in [Txs -> Nat]
    BY <1>2 DEF servicesVars, TypeInv, TypeOK
  <2> QED
    BY <1>2, <2>1, DealServicesType
<1>3. ASSUME NEW t \in Txs, DisputeServices(t)
      PROVE  TypeInv'
  <2>1. DealStep(t, GetReleasedMilestonesTotal(t)) /\ UNCHANGED <<plan, released, call, audits>>
    BY <1>3 DEF DisputeServices, DealStep
  <2> QED
    BY <1>3, <2>1, RefundedType, DealServicesType
<1>4. ASSUME NEW c \in Callers, NEW job \in Jobs, RequestRelease(c, job)
      PROVE  TypeInv'
  BY <1>0, <1>4 DEF TypeInv, TypeOK, RequestRelease, SetCall, Calls, Jobs
<1>5. ASSUME NEW c \in Callers, NEW verdict, Screen(c, verdict)
      PROVE  TypeInv'
  <2>1. SetCall(c, "cleared", call[c].job) \/ EndCall(c)
    BY <1>5 DEF Screen
  <2>2. call[c].job \in Txs \cup {j \in Milestones : plan[j] > 0}
    BY <1>5 DEF Screen, TypeInv, TypeOK
  <2>3. UNCHANGED <<database, frozen, plan, released, refunded, audits>>
    BY <1>5 DEF Screen
  <2> QED
    BY <1>0, <2>1, <2>2, <2>3 DEF TypeInv, TypeOK, SetCall, EndCall, Idle, Calls, Jobs
<1>6. ASSUME NEW c \in Callers, CommitMilestone(c)
      PROVE  TypeInv'
  BY <1>6, CommitMilestoneType
<1>7. ASSUME NEW c \in Callers, ReleaseFails(c)
      PROVE  TypeInv'
  BY <1>0, <1>7 DEF TypeInv, TypeOK, ReleaseFails, EndCall, Idle, Calls
<1>8. ASSUME NEW c \in Callers, StartAudit(c)
      PROVE  TypeInv'
  <2>1. audits' \in [Jobs -> Nat]
    <3>1. call[c].job \in Jobs
      BY <1>8 DEF TypeInv, TypeOK, StartAudit, Jobs
    <3> QED
      BY <1>8, <3>1 DEF TypeInv, TypeOK, StartAudit
  <2>2. UNCHANGED <<database, frozen, plan, released, refunded>> /\ EndCall(c)
    BY <1>8 DEF StartAudit
  <2> QED
    BY <2>1, <2>2 DEF TypeInv, TypeOK, EscrowTypeOK, PlanOnRows, database, EndCall, Idle, Calls
<1>9. ASSUME NEW u \in Users, Freeze(u) \/ Unfreeze(u), UNCHANGED servicesVars
      PROVE  TypeInv'
  <2>1. EscrowTypeOK' /\ status' = status
    BY <1>9, FreezeType DEF TypeInv, TypeOK, Freeze, Unfreeze, database
  <2> QED
    BY <1>9, <2>1 DEF TypeInv, TypeOK, PlanOnRows, servicesVars
<1>10. CASE UNCHANGED vars
  BY <1>10 DEF TypeInv, TypeOK, EscrowTypeOK, PlanOnRows, vars, database, servicesVars
<1>11. ASSUME NEW c \in Callers, CommitContract(c)
       PROVE  TypeInv'
  BY <1>11, CommitContractType
<1> QED
  BY <1>1, <1>2, <1>3, <1>4, <1>5, <1>6, <1>7, <1>8, <1>9, <1>10, <1>11
     DEF Next, Release, ConfirmPaymentServices, DealStep

LEMMA TypeInvCorrect == Spec => []TypeInv
<1>1. Init => TypeInv
  BY EscrowInitType, MilestonesAssumption DEF Init, TypeInv, TypeOK, PlanOnRows, Calls, Idle
<1> QED
  BY <1>1, TypeStep, PTL DEF Spec

\* Every reachable state is well typed; above all no wallet is overdrawn,
\* whatever milestones are released when.
THEOREM TypeCorrect == Spec => []TypeOK
<1>1. TypeInv => TypeOK
  BY DEF TypeInv
<1> QED
  BY <1>1, TypeInvCorrect, PTL

-----------------------------------------------------------------------------
(* Which steps touch what.                                                 *)

contracts == <<database, plan, released, refunded>>

\* A contract is released as a whole, its milestones left as they are.
ContractReleased(t) == ReleaseFundsGoods(t) /\ UNCHANGED <<plan, released, refunded>>

\* Only six actions touch the contracts, their milestones and their money.
LEMMA NextCases ==
  ASSUME [Next]_vars
  PROVE  \/ UNCHANGED contracts
         \/ \E t \in Txs : Create(t)
         \/ \E t \in Txs : ConfirmPayment(t) /\ UNCHANGED servicesVars
         \/ \E t \in Txs : CancelTransaction(t) /\ UNCHANGED servicesVars
         \/ \E t \in Txs : DisputeServices(t)
         \/ \E c \in Callers : CommitMilestone(c)
         \/ \E t \in Txs : ContractReleased(t)
<1>1. ASSUME NEW c \in Callers,
             \/ \E job \in Jobs : RequestRelease(c, job)
             \/ \E verdict \in {"safe", "unsafe", "unavailable"} : Screen(c, verdict)
             \/ ReleaseFails(c) \/ StartAudit(c)
      PROVE  UNCHANGED contracts
  BY <1>1 DEF RequestRelease, Screen, ReleaseFails, StartAudit, contracts
<1>2. ASSUME NEW u \in Users, Freeze(u) \/ Unfreeze(u), UNCHANGED servicesVars
      PROVE  UNCHANGED contracts
  BY <1>2 DEF Freeze, Unfreeze, servicesVars, contracts
<1>3. UNCHANGED vars => UNCHANGED contracts
  BY DEF vars, servicesVars, contracts
<1>4. ASSUME NEW c \in Callers, CommitContract(c)
      PROVE  \E t \in Txs : ContractReleased(t)
  BY <1>4 DEF CommitContract, ContractReleased
<1> QED
  BY <1>1, <1>2, <1>3, <1>4, Zenon DEF Next, Release, ConfirmPaymentServices

\* A status that is set moves its contract and no other.
LEMMA StatusMoves ==
  ASSUME TypeInv, NEW t \in Txs, NEW s, SetStatus(t, s)
  PROVE  status'[t] = s /\ \A x \in Txs : x # t => status'[x] = status[x]
BY DEF SetStatus, TypeInv, TypeOK, EscrowTypeOK

\* The milestone a call is about to pay belongs to a contract that exists.
LEMMA CommitFacts ==
  ASSUME TypeInv, NEW c \in Callers, CommitMilestone(c),
         NEW m, m = call[c].job
  PROVE  /\ m \in Milestones /\ m \notin released /\ plan[m] \in Nat /\ plan[m] > 0
         /\ m[1] \in Txs /\ status[m[1]] # "NONE"
         /\ terms[m[1]].seller \in Users
         /\ ServicesCommission(plan[m]) \in Nat
         /\ ServicesCommission(plan[m]) <= plan[m]
         /\ PayMilestone(m)
         /\ released' = released \cup {m}
         /\ SetCall(c, "committed", m)
         /\ UNCHANGED <<status, terms, dispute, frozen, plan, refunded, audits>>
<1>1. m \in Milestones /\ plan[m] > 0 /\ plan[m] \in Nat /\ m \notin released
  <2>1. m \in Milestones /\ m \notin released /\ call[c].stage # "idle"
    BY DEF CommitMilestone
  <2>2. m \in {j \in Milestones : plan[j] > 0}
    BY <2>1, MilestonesAssumption DEF TypeInv, TypeOK
  <2> QED
    BY <2>1, <2>2 DEF TypeInv, TypeOK
<1>2. m[1] \in Txs /\ status[m[1]] # "NONE"
  BY <1>1 DEF TypeInv, PlanOnRows, Milestones
<1>3. terms[m[1]].seller \in Users
  BY <1>2 DEF TypeInv, TypeOK, EscrowTypeOK, Terms
<1>4. ServicesCommission(plan[m]) \in Nat /\ ServicesCommission(plan[m]) <= plan[m]
  BY <1>1, CommissionBounds
<1> QED
  BY <1>1, <1>2, <1>3, <1>4 DEF CommitMilestone

-----------------------------------------------------------------------------
(* Disputes.                                                               *)

\* The dispute row of a contract and its status follow each other, although
\* milestones are released without looking at either.
LEMMA DisputesStep == TypeInv /\ DisputeMatchesStatus /\ [Next]_vars => DisputeMatchesStatus'
<1> SUFFICES ASSUME TypeInv, DisputeMatchesStatus, [Next]_vars
             PROVE  DisputeMatchesStatus'
  OBVIOUS
<1>0. EscrowTypeOK
  BY DEF TypeInv, TypeOK
<1>1. UNCHANGED <<status, dispute>> => DisputeMatchesStatus'
  BY DEF DisputeMatchesStatus
<1>2. ASSUME NEW t \in Txs, Create(t)
      PROVE  DisputeMatchesStatus'
  BY <1>0, <1>2, StatusKeepsDispute DEF Create, LockFundsServices, CreateTransaction, TxStatus
<1>3. ASSUME NEW t \in Txs,
             ConfirmPayment(t) \/ CancelTransaction(t) \/ DisputeServices(t)
      PROVE  DisputeMatchesStatus'
  BY <1>0, <1>3, DealStepDispute DEF DealStep, DisputeServices
<1>4. ASSUME NEW c \in Callers, CommitMilestone(c)
      PROVE  UNCHANGED <<status, dispute>>
  BY <1>4 DEF CommitMilestone
<1>5. UNCHANGED contracts => UNCHANGED <<status, dispute>>
  BY DEF contracts, database
<1>6. ASSUME NEW t \in Txs, ContractReleased(t)
      PROVE  DisputeMatchesStatus'
  BY <1>0, <1>6, StatusKeepsDispute DEF ContractReleased, ReleaseFundsGoods, PaySeller, TxStatus
<1> QED
  BY <1>1, <1>2, <1>3, <1>4, <1>5, <1>6, NextCases

\* A disputed contract and its dispute row agree, for ever.
THEOREM DisputeCorrect == Spec => []DisputeMatchesStatus
<1>1. Init => DisputeMatchesStatus
  BY EscrowInitDispute DEF Init
<1> QED
  BY <1>1, TypeInvCorrect, DisputesStep, PTL DEF Spec

-----------------------------------------------------------------------------
(* One payment and one log of each milestone, and of a contract released   *)
(* as a whole.                                                             *)

CommittedBy(c, m) == call[c] = [stage |-> "committed", job |-> m]

\* Between the commit of a release and its audit record stands one call.
LoggedOnce ==
  \A m \in Jobs :
    /\ audits[m] \in {0, 1} /\ (audits[m] = 1 => m \in Done)
    /\ \A c \in Callers : CommittedBy(c, m) =>
         /\ m \in Done /\ audits[m] = 0
         /\ \A d \in Callers : CommittedBy(d, m) => d = c

\* What is done stays done.
LEMMA DoneStays == TypeInv /\ DisputeMatchesStatus /\ [Next]_vars => Done \subseteq Done'
<1> SUFFICES ASSUME TypeInv, DisputeMatchesStatus, [Next]_vars
             PROVE  Done \subseteq Done'
  OBVIOUS
<1>0. EscrowTypeOK
  BY DEF TypeInv, TypeOK
<1>1. ASSUME released \subseteq released', NEW t \in Txs, status[t] # "RELEASED",
             \A x \in Txs : x # t => status'[x] = status[x] /\ dispute'[x] = dispute[x]
      PROVE  Done \subseteq Done'
  BY <1>1 DEF Done
<1>2. ASSUME released \subseteq released', UNCHANGED <<status, dispute>>
      PROVE  Done \subseteq Done'
  BY <1>2 DEF Done
<1>3. ASSUME NEW t \in Txs, Create(t)
      PROVE  Done \subseteq Done'
  BY <1>1, <1>3, StatusMoves DEF Create, LockFundsServices, CreateTransaction
<1>4. ASSUME NEW t \in Txs, (ConfirmPayment(t) \/ CancelTransaction(t)) /\ UNCHANGED servicesVars
      PROVE  Done \subseteq Done'
  BY <1>1, <1>4, StatusMoves DEF ConfirmPayment, CancelTransaction, servicesVars
<1>5. ASSUME NEW t \in Txs, DisputeServices(t)
      PROVE  Done \subseteq Done'
  <2>1. DisputeStep(t, GetReleasedMilestonesTotal(t)) /\ UNCHANGED released
    BY <1>5 DEF DisputeServices
  <2>2. status[t] # "RELEASED"
    BY <2>1 DEF DisputeStep, OpenDispute, AcknowledgeDispute, ResolveDispute, DisputeMatchesStatus
  <2>3. \A x \in Txs : x # t => status'[x] = status[x]
    BY <2>1, StatusMoves DEF DisputeStep, OpenDispute, AcknowledgeDispute, ResolveDispute,
       RefundBuyer, PaySeller
  <2>4. \A x \in Txs : x # t => dispute'[x] = dispute[x]
    BY <1>0, <2>1 DEF DisputeStep, OpenDispute, AcknowledgeDispute, ResolveDispute, SetDispute,
       EscrowTypeOK
  <2> QED
    BY <1>1, <2>1, <2>2, <2>3, <2>4
<1>6. ASSUME NEW c \in Callers, CommitMilestone(c)
      PROVE  Done \subseteq Done'
  BY <1>2, <1>6 DEF CommitMilestone
<1>7. ASSUME NEW t \in Txs, ContractReleased(t)
      PROVE  Done \subseteq Done'
  BY <1>1, <1>7, StatusMoves DEF ContractReleased, ReleaseFundsGoods, PaySeller
<1>8. UNCHANGED contracts => Done \subseteq Done'
  BY <1>2 DEF contracts, database
<1> QED
  BY <1>3, <1>4, <1>5, <1>6, <1>7, <1>8, NextCases

\* The ledger rows of a contract, counted.
RowsCounted ==
  \A t \in Txs :
    /\ rows[t].PAYMENT = (IF Paid(t) THEN 1 ELSE 0)
    /\ rows[t].RECEIVE_FUNDS = Cardinality(ReleasedMilestones(t))
                                 + (IF status[t] = "RELEASED" THEN 1 ELSE 0)
    /\ rows[t].REFUND = (IF status[t] = "REFUNDED" THEN 1 ELSE 0)

LEMMA LoggedStep ==
  TypeInv /\ DisputeMatchesStatus /\ LoggedOnce /\ [Next]_vars => LoggedOnce'
<1> SUFFICES ASSUME TypeInv, DisputeMatchesStatus, LoggedOnce, [Next]_vars
             PROVE  LoggedOnce'
  OBVIOUS
<1> USE DEF LoggedOnce, CommittedBy
<1>d. Done \subseteq Done'
  BY DoneStays
<1>0. UNCHANGED <<call, audits>> => LoggedOnce'
  BY <1>d
<1>1. ASSUME NEW c \in Callers, UNCHANGED audits,
             call' = [call EXCEPT ![c] = call'[c]], call'[c].stage # "committed"
      PROVE  LoggedOnce'
  BY <1>d, <1>1 DEF TypeInv, TypeOK
<1>2. ASSUME NEW t \in Txs,
             \/ Create(t) \/ DisputeServices(t)
             \/ (ConfirmPayment(t) \/ CancelTransaction(t)) /\ UNCHANGED servicesVars
      PROVE  UNCHANGED <<call, audits>>
  BY <1>2 DEF Create, LockFundsServices, DisputeServices, servicesVars
<1>3. ASSUME NEW c \in Callers, NEW m \in Jobs, RequestRelease(c, m)
      PROVE  LoggedOnce'
  BY <1>1, <1>3 DEF RequestRelease, SetCall, TypeInv, TypeOK
<1>c. ASSUME NEW c \in Callers, NEW m \in Jobs, m \notin Done, m \in Done',
             call[c].stage = "cleared", SetCall(c, "committed", m), UNCHANGED audits
      PROVE  LoggedOnce'
  <2>1. audits[m] = 0 /\ \A d \in Callers : ~CommittedBy(d, m)
    BY <1>c
  <2> QED
    BY <1>c, <1>d, <2>1 DEF SetCall, TypeInv, TypeOK
<1>4. ASSUME NEW c \in Callers, NEW verdict, Screen(c, verdict)
      PROVE  LoggedOnce'
  BY <1>1, <1>4 DEF Screen, SetCall, EndCall, Idle, TypeInv, TypeOK
<1>5. ASSUME NEW c \in Callers, ReleaseFails(c)
      PROVE  LoggedOnce'
  BY <1>1, <1>5 DEF ReleaseFails, EndCall, Idle, TypeInv, TypeOK
<1>6. ASSUME NEW c \in Callers, CommitMilestone(c)
      PROVE  LoggedOnce'
  <2> PICK m : m = call[c].job
    OBVIOUS
  <2>1. /\ m \in Milestones /\ m \notin released
        /\ released' = released \cup {m} /\ SetCall(c, "committed", m) /\ UNCHANGED audits
    BY <1>6, CommitFacts
  <2>2. call[c].stage = "cleared"
    BY <1>6 DEF CommitMilestone
  <2>3. m \in Jobs /\ m \notin Done /\ m \in Done'
    BY <2>1, MilestonesAssumption DEF Jobs, Done
  <2> QED
    BY <1>c, <2>1, <2>2, <2>3
<1>9. ASSUME NEW c \in Callers, CommitContract(c)
      PROVE  LoggedOnce'
  <2> PICK t \in Txs : t = call[c].job
    BY <1>9 DEF CommitContract
  <2>1. /\ call[c].stage = "cleared" /\ SetCall(c, "committed", t) /\ UNCHANGED <<released, audits>>
        /\ status[t] = "FUNDS_LOCKED" /\ SetStatus(t, "RELEASED") /\ UNCHANGED dispute
    BY <1>9 DEF CommitContract, ReleaseFundsGoods, PaySeller
  <2>2. dispute[t].status = "NONE"
    BY <2>1 DEF DisputeMatchesStatus, TypeInv, TypeOK, EscrowTypeOK, Disputes, DisputeStatus
  <2>3. t \notin released
    BY MilestonesAssumption DEF TypeInv, TypeOK
  <2>4. status'[t] = "RELEASED"
    BY <2>1, StatusMoves
  <2>5. t \in Jobs /\ t \notin Done /\ t \in Done'
    BY <2>1, <2>2, <2>3, <2>4 DEF Jobs, Done
  <2> QED
    BY <1>c, <2>1, <2>5
<1>7. ASSUME NEW c \in Callers, StartAudit(c)
      PROVE  LoggedOnce'
  <2> DEFINE m == call[c].job
  <2>1. m \in Jobs /\ CommittedBy(c, m)
    BY <1>7 DEF StartAudit, TypeInv, TypeOK, Calls, Jobs
  <2>2. audits' = [audits EXCEPT ![m] = @ + 1] /\ EndCall(c)
    BY <1>7 DEF StartAudit
  <2> HIDE DEF m
  <2>3. m \in Done /\ audits[m] = 0 /\ \A d \in Callers : CommittedBy(d, m) => d = c
    BY <2>1
  <2> QED
    BY <1>d, <2>2, <2>3 DEF EndCall, Idle, TypeInv, TypeOK
<1>8. (\E u \in Users : (Freeze(u) \/ Unfreeze(u)) /\ UNCHANGED servicesVars) \/ UNCHANGED vars
        => UNCHANGED <<call, audits>>
  BY DEF servicesVars, vars
<1> QED
  BY <1>0, <1>2, <1>3, <1>4, <1>5, <1>6, <1>7, <1>8, <1>9
     DEF Next, Release, ConfirmPaymentServices

\* The released milestones of a contract can be counted.
LEMMA ReleasedFinite ==
  ASSUME TypeInv, NEW t
  PROVE  IsFiniteSet(ReleasedMilestones(t)) /\ Cardinality(ReleasedMilestones(t)) \in Nat
<1>1. ReleasedMilestones(t) \subseteq Milestones
  BY DEF ReleasedMilestones, TypeInv, TypeOK
<1> QED
  BY <1>1, MilestonesFinite, FS_Subset, FS_CardinalityType

LEMMA RowsStep == TypeInv /\ RowsCounted /\ [Next]_vars => RowsCounted'
<1> SUFFICES ASSUME TypeInv, RowsCounted, [Next]_vars
             PROVE  RowsCounted'
  OBVIOUS
<1> USE DEF RowsCounted, Paid, Held, Settled
<1>0. UNCHANGED released => \A t \in Txs : ReleasedMilestones(t)' = ReleasedMilestones(t)
  BY DEF ReleasedMilestones
<1>1. CASE UNCHANGED contracts
  BY <1>0, <1>1 DEF contracts, database
<1>2. ASSUME NEW t \in Txs, Create(t)
      PROVE  RowsCounted'
  <2>1. /\ SetStatus(t, "WAITING_PAYMENT") /\ status[t] = "NONE"
        /\ UNCHANGED <<rows, released>>
    BY <1>2 DEF Create, LockFundsServices, CreateTransaction
  <2> QED
    BY <1>0, <2>1, StatusMoves
<1>3. ASSUME NEW t \in Txs, ConfirmPayment(t), UNCHANGED servicesVars
      PROVE  RowsCounted'
  BY <1>0, <1>3 DEF servicesVars, ConfirmPayment, UpdateBalance, SetStatus, TypeInv, TypeOK,
                    EscrowTypeOK, LedgerTypes
<1>4. ASSUME NEW t \in Txs, CancelTransaction(t), UNCHANGED servicesVars
      PROVE  RowsCounted'
  BY <1>0, <1>4 DEF servicesVars, CancelTransaction, SetStatus, TypeInv, TypeOK, EscrowTypeOK
<1>5. ASSUME NEW t \in Txs, DisputeServices(t)
      PROVE  RowsCounted'
  <2> DEFINE total == GetReleasedMilestonesTotal(t)
  <2>1. DisputeStep(t, total) /\ UNCHANGED released
    BY <1>5 DEF DisputeServices
  <2> HIDE DEF total
  <2>2. CASE \E u \in Users : OpenDispute(t, u)
    BY <1>0, <2>1, <2>2 DEF OpenDispute, SetStatus, TypeInv, TypeOK, EscrowTypeOK
  <2>3. CASE AcknowledgeDispute(t)
    BY <1>0, <2>1, <2>3 DEF AcknowledgeDispute
  <2>4. ASSUME NEW outcome \in Outcomes, ResolveDispute(t, outcome, total)
        PROVE  RowsCounted'
    <3>1. CASE RefundBuyer(t, total)
      BY <1>0, <2>1, <2>4, <3>1 DEF ResolveDispute, RefundBuyer, UpdateBalance, SetStatus,
         TypeInv, TypeOK, EscrowTypeOK, LedgerTypes
    <3>2. CASE PaySeller(t)
      <4>1. Cardinality(ReleasedMilestones(t)) \in Nat
        BY ReleasedFinite
      <4> QED
        BY <1>0, <2>1, <2>4, <3>2, <4>1 DEF ResolveDispute, PaySeller, UpdateBalance, SetStatus,
           TypeInv, TypeOK, EscrowTypeOK, LedgerTypes
    <3> QED
      BY <2>4, <3>1, <3>2 DEF ResolveDispute
  <2> QED
    BY <2>1, <2>2, <2>3, <2>4 DEF DisputeStep
<1>6. ASSUME NEW c \in Callers, CommitMilestone(c)
      PROVE  RowsCounted'
  <2> PICK m \in Milestones : m = call[c].job
    BY <1>6, CommitFacts
  <2> DEFINE pay == plan[m] - ServicesCommission(plan[m])
             seller == terms[m[1]].seller
  <2>1. /\ m \in Milestones /\ m \notin released /\ m[1] \in Txs
        /\ UpdateBalance(m[1], "RECEIVE_FUNDS", seller, pay)
        /\ released' = released \cup {m} /\ UNCHANGED status
    BY <1>6, CommitFacts DEF PayMilestone
  <2> HIDE DEF pay, seller
  <2>2. ReleasedMilestones(m[1])' = ReleasedMilestones(m[1]) \cup {m}
        /\ m \notin ReleasedMilestones(m[1])
    BY <2>1 DEF ReleasedMilestones
  <2>3. \A t \in Txs : t # m[1] => ReleasedMilestones(t)' = ReleasedMilestones(t)
    BY <2>1 DEF ReleasedMilestones
  <2> DEFINE R == ReleasedMilestones(m[1])
             RNext == ReleasedMilestones(m[1])'
  <2>4. Cardinality(RNext) = Cardinality(R) + 1 /\ Cardinality(R) \in Nat
    <3>1. IsFiniteSet(R) /\ Cardinality(R) \in Nat /\ RNext = R \cup {m} /\ m \notin R
      BY <2>2, ReleasedFinite
    <3> HIDE DEF R, RNext
    <3> QED
      BY <3>1, FS_AddElement
  <2>5. rows' = [rows EXCEPT ![m[1]]["RECEIVE_FUNDS"] = @ + 1]
    BY <2>1 DEF UpdateBalance
  <2> QED
    BY <2>1, <2>3, <2>4, <2>5 DEF TypeInv, TypeOK, EscrowTypeOK, LedgerTypes
<1>7. ASSUME NEW t \in Txs, ContractReleased(t)
      PROVE  RowsCounted'
  <2>1. Cardinality(ReleasedMilestones(t)) \in Nat
    BY ReleasedFinite
  <2> QED
    BY <1>0, <1>7, <2>1 DEF ContractReleased, ReleaseFundsGoods, PaySeller, UpdateBalance,
       SetStatus, TypeInv, TypeOK, EscrowTypeOK, LedgerTypes
<1> QED
  BY <1>1, <1>2, <1>3, <1>4, <1>5, <1>6, <1>7, NextCases

LEMMA LoggedCorrect == Spec => []LoggedOnce
<1>1. Init => LoggedOnce
  BY DEF Init, LoggedOnce, CommittedBy, Idle
<1> QED
  BY <1>1, TypeInvCorrect, DisputeCorrect, LoggedStep, PTL DEF Spec

LEMMA RowsCorrect == Spec => []RowsCounted
<1>1. Init => RowsCounted
  <2> SUFFICES ASSUME Init PROVE RowsCounted
    OBVIOUS
  <2>1. \A t \in Txs : Cardinality(ReleasedMilestones(t)) = 0
    <3>1. \A t \in Txs : ReleasedMilestones(t) = {}
      BY DEF Init, ReleasedMilestones
    <3> QED
      BY <3>1, FS_EmptySet
  <2> QED
    BY <2>1 DEF Init, EscrowInit, RowsCounted, Paid, Held, Settled, LedgerTypes
<1> QED
  BY <1>1, TypeInvCorrect, RowsStep, PTL DEF Spec

\* However many clients ask for a milestone, or for a whole contract, at the same
\* time, it is paid once and logged at most once, for any number of clients,
\* contracts and milestones.
THEOREM MilestoneOnceCorrect == Spec => []EachMilestoneOnce
<1>1. ASSUME LoggedOnce, RowsCounted
      PROVE  EachMilestoneOnce
  <2>1. ASSUME NEW m \in Jobs
        PROVE  audits[m] + Cardinality(Committed(m)) <= (IF m \in Done THEN 1 ELSE 0)
    <3>1. CASE Committed(m) = {}
      <4>1. Cardinality(Committed(m)) = 0
        BY <3>1, FS_EmptySet
      <4> QED
        BY <1>1, <4>1 DEF LoggedOnce
    <3>2. CASE Committed(m) # {}
      <4>1. PICK c \in Callers : CommittedBy(c, m)
        BY <3>2 DEF Committed, CommittedBy
      <4>2. m \in Done /\ audits[m] = 0 /\ \A d \in Callers : CommittedBy(d, m) => d = c
        BY <1>1, <4>1 DEF LoggedOnce
      <4>3. Committed(m) = {c}
        BY <4>1, <4>2 DEF Committed, CommittedBy
      <4>4. Cardinality(Committed(m)) = 1
        BY <4>3, FS_Singleton
      <4> QED
        BY <4>2, <4>4
    <3> QED
      BY <3>1, <3>2
  <2> QED
    BY <1>1, <2>1 DEF RowsCounted, EachMilestoneOnce
<1> QED
  BY <1>1, LoggedCorrect, RowsCorrect, PTL

-----------------------------------------------------------------------------
(* The milestones of a contract cover its base amount, so what is released *)
(* of them never exceeds what the buyer pays.                              *)

PlanCovers == \A t \in Txs : status[t] # "NONE" => Total(PlanOf(t)) = terms[t].gross

\* A new contract is covered by the milestones it is created with.
LEMMA CreateCovers ==
  ASSUME TypeInv, TypeInv', PlanCovers, NEW t \in Txs, Create(t)
  PROVE  PlanCovers'
<1> PICK b \in Users, s \in Users, base \in BaseAmounts, breakdown \in Breakdowns :
           LockFundsServices(t, b, s, base, breakdown)
  BY DEF Create
<1> DEFINE planned == [m \in Milestones |-> IF m[1] = t THEN plan'[m] ELSE 0]
           name == [i \in DOMAIN breakdown |-> <<t, i>>]
<1>1. DOMAIN breakdown \subseteq Indexes /\ breakdown \in [DOMAIN breakdown -> Nat]
  BY BreakdownType DEF LockFundsServices
<1>2. plan' = [m \in Milestones |->
        IF m[1] = t /\ m[2] \in DOMAIN breakdown THEN breakdown[m[2]] ELSE plan[m]]
  BY DEF LockFundsServices
<1>3. status[t] = "NONE" /\ Total(breakdown) = base /\ SetStatus(t, "WAITING_PAYMENT")
      /\ terms' = [terms EXCEPT ![t] = [buyer |-> b, seller |-> s, midtransFee |-> 0,
                     gross |-> base, net |-> base - ServicesCommission(base)]]
  BY DEF LockFundsServices, CreateTransaction
<1>4. \A m \in Milestones : m[1] = t => plan[m] = 0
  BY <1>3 DEF TypeInv, TypeOK, PlanOnRows
<1>5. planned \in [Milestones -> Nat]
  BY DEF TypeInv, TypeOK
<1>6. name \in Injection(DOMAIN breakdown, Milestones)
  <2>1. name \in [DOMAIN breakdown -> Milestones]
    BY <1>1 DEF Milestones
  <2>2. \A i, j \in DOMAIN breakdown : name[i] = name[j] => i = j
    OBVIOUS
  <2> HIDE DEF name
  <2> QED
    BY <2>1, <2>2 DEF Injection, IsInjective
<1>7. \A i \in DOMAIN breakdown : planned[name[i]] = breakdown[i]
  BY <1>1, <1>2 DEF Milestones
<1>8. \A m \in Milestones : (\A i \in DOMAIN breakdown : name[i] # m) => planned[m] = 0
  <2> SUFFICES ASSUME NEW m \in Milestones, \A i \in DOMAIN breakdown : name[i] # m, m[1] = t
               PROVE  plan'[m] = 0
    OBVIOUS
  <2>1. m = <<t, m[2]>>
    BY DEF Milestones
  <2>2. m[2] \notin DOMAIN breakdown
    BY <2>1
  <2> QED
    BY <1>2, <1>4, <2>2
<1>9. Total(planned) = base
  <2> HIDE DEF planned, name
  <2> QED
    BY <1>1, <1>3, <1>5, <1>6, <1>7, <1>8, MilestonesFinite, TotalRename
<1>10. \A x \in Txs : PlanOf(x)' = [m \in Milestones |-> IF m[1] = x THEN plan'[m] ELSE 0]
  BY DEF PlanOf
<1>11. \A x \in Txs : x # t => PlanOf(x)' = PlanOf(x)
  BY <1>2 DEF PlanOf
<1>12. PlanOf(t)' = planned
  BY <1>10
<1>13. terms'[t].gross = base /\ \A x \in Txs : x # t => terms'[x] = terms[x]
  BY <1>3 DEF TypeInv, TypeOK, EscrowTypeOK
<1>14. \A x \in Txs : x # t => status'[x] = status[x]
  BY <1>3, StatusMoves
<1> HIDE DEF planned
<1> QED
  BY <1>9, <1>11, <1>12, <1>13, <1>14 DEF PlanCovers

LEMMA PlanStep == TypeInv /\ PlanCovers /\ [Next]_vars => PlanCovers'
<1> SUFFICES ASSUME TypeInv, PlanCovers, [Next]_vars
             PROVE  PlanCovers'
  OBVIOUS
<1>1. ASSUME UNCHANGED <<plan, terms>>,
             \A t \in Txs : status'[t] # "NONE" => status[t] # "NONE"
      PROVE  PlanCovers'
  BY <1>1 DEF PlanCovers, PlanOf
<1>2. ASSUME NEW t \in Txs, Create(t)
      PROVE  PlanCovers'
  BY <1>2, TypeStep, CreateCovers
<1>3. ASSUME NEW t \in Txs,
             (ConfirmPayment(t) \/ CancelTransaction(t)) /\ UNCHANGED servicesVars
      PROVE  PlanCovers'
  BY <1>1, <1>3, StatusMoves DEF ConfirmPayment, CancelTransaction, servicesVars
<1>4. ASSUME NEW t \in Txs, DisputeServices(t)
      PROVE  PlanCovers'
  <2>1. DisputeStep(t, GetReleasedMilestonesTotal(t)) /\ UNCHANGED plan
    BY <1>4 DEF DisputeServices
  <2>2. CASE AcknowledgeDispute(t)
    BY <1>1, <2>1, <2>2 DEF AcknowledgeDispute
  <2>3. CASE \E u \in Users : OpenDispute(t, u)
    BY <1>1, <2>1, <2>3, StatusMoves DEF OpenDispute
  <2>4. CASE \E outcome \in Outcomes : ResolveDispute(t, outcome, GetReleasedMilestonesTotal(t))
    BY <1>1, <2>1, <2>4, StatusMoves DEF ResolveDispute, RefundBuyer, PaySeller
  <2> QED
    BY <2>1, <2>2, <2>3, <2>4 DEF DisputeStep
<1>5. ASSUME NEW c \in Callers, CommitMilestone(c)
      PROVE  PlanCovers'
  BY <1>1, <1>5 DEF CommitMilestone
<1>6. CASE UNCHANGED contracts
  BY <1>1, <1>6 DEF contracts, database
<1>7. ASSUME NEW t \in Txs, ContractReleased(t)
      PROVE  PlanCovers'
  BY <1>1, <1>7, StatusMoves DEF ContractReleased, ReleaseFundsGoods, PaySeller
<1> QED
  BY <1>2, <1>3, <1>4, <1>5, <1>6, <1>7, NextCases

LEMMA PlanCorrect == Spec => []PlanCovers
<1>1. Init => PlanCovers
  BY DEF Init, EscrowInit, PlanCovers
<1> QED
  BY <1>1, TypeInvCorrect, PlanStep, PTL DEF Spec

\* What is released is part of what was planned.
LEMMA ReleasedWithin ==
  ASSUME TypeInv, PlanCovers, NEW t \in Txs, status[t] # "NONE"
  PROVE  GetReleasedMilestonesTotal(t) <= terms[t].gross
<1>1. ReleasedOf(t) \in [Milestones -> Nat] /\ PlanOf(t) \in [Milestones -> Nat]
  BY MilestoneAmountsType DEF TypeInv
<1>2. \A m \in Milestones : ReleasedOf(t)[m] <= PlanOf(t)[m]
  BY DEF ReleasedOf, ReleasedAmounts, PlanOf, TypeInv, TypeOK
<1>3. Total(ReleasedOf(t)) <= Total(PlanOf(t))
  BY <1>1, <1>2, MilestonesFinite, TotalMonotone
<1> QED
  BY <1>3 DEF GetReleasedMilestonesTotal, PlanCovers

\* The milestones never take more out of a held contract than the buyer paid
\* in, in whatever order they are released and however the contract is disputed.
THEOREM WithinEscrowCorrect == Spec => []MilestonesWithinEscrow
<1>1. TypeInv /\ PlanCovers => MilestonesWithinEscrow
  BY ReleasedWithin DEF MilestonesWithinEscrow, Held
<1> QED
  BY <1>1, TypeInvCorrect, PlanCorrect, PTL

-----------------------------------------------------------------------------
(* Refunds.                                                                *)

\* Resolving a dispute for the buyer refunds exactly what escrow still holds
\* of the contract.
LEMMA RefundStep ==
  TypeInv /\ PlanCovers /\ [Next]_vars =>
    \A t \in Txs : status[t] # "REFUNDED" /\ status'[t] = "REFUNDED" =>
      /\ refunded'[t] + GetReleasedMilestonesTotal(t) = terms[t].gross
      /\ finance'.escrow = finance.escrow - refunded'[t]
<1> SUFFICES ASSUME TypeInv, PlanCovers, [Next]_vars,
                    NEW x \in Txs, status[x] # "REFUNDED", status'[x] = "REFUNDED"
             PROVE  /\ refunded'[x] + GetReleasedMilestonesTotal(x) = terms[x].gross
                    /\ finance'.escrow = finance.escrow - refunded'[x]
  OBVIOUS
<1>1. ~UNCHANGED status
  OBVIOUS
<1>2. ASSUME NEW t \in Txs,
             Create(t) \/ ConfirmPayment(t) \/ CancelTransaction(t) \/ ContractReleased(t)
      PROVE  FALSE
  BY <1>2, StatusMoves DEF Create, LockFundsServices, CreateTransaction, ConfirmPayment,
     CancelTransaction, ContractReleased, ReleaseFundsGoods, PaySeller
<1>3. ~UNCHANGED contracts /\ \A c \in Callers : ~CommitMilestone(c)
  BY <1>1 DEF contracts, database, CommitMilestone
<1>4. PICK t \in Txs : DisputeServices(t)
  BY <1>2, <1>3, NextCases
<1> DEFINE total == GetReleasedMilestonesTotal(x)
<1>5. DisputeStep(t, GetReleasedMilestonesTotal(t))
  BY <1>4 DEF DisputeServices
<1>6. PICK outcome \in Outcomes : ResolveDispute(t, outcome, GetReleasedMilestonesTotal(t))
  BY <1>1, <1>5, StatusMoves DEF DisputeStep, OpenDispute, AcknowledgeDispute
<1>7. t = x /\ RefundBuyer(x, total) /\ status[x] = "DISPUTED"
  BY <1>6, StatusMoves DEF ResolveDispute, RefundBuyer, PaySeller
<1>8. refunded' = [refunded EXCEPT ![x] = RefundAmount(x, total)]
  BY <1>4, <1>7 DEF DisputeServices
<1>9. total \in Nat /\ total <= terms[x].gross /\ terms[x].gross \in Nat
  BY <1>7, MilestoneAmountsType, ReleasedWithin DEF TypeInv, TypeOK, EscrowTypeOK, Terms
<1>10. UpdateFinance(-RefundAmount(x, total), 0, 0)
  BY <1>7 DEF RefundBuyer
<1> HIDE DEF total
<1>11. RefundAmount(x, total) = terms[x].gross - total
  BY <1>9 DEF RefundAmount
<1>12. refunded'[x] = terms[x].gross - total
  BY <1>8, <1>11 DEF TypeInv, TypeOK
<1> QED
  BY <1>9, <1>10, <1>11, <1>12 DEF UpdateFinance, total, TypeInv, TypeOK, EscrowTypeOK

\* A refund settles a contract to the last rupiah, always.
THEOREM RefundCorrect == Spec => RefundSettles
<1>1. /\ TypeInv /\ PlanCovers
      /\ [Next]_vars
      => [\A t \in Txs : status[t] # "REFUNDED" /\ status'[t] = "REFUNDED" =>
            /\ refunded'[t] + GetReleasedMilestonesTotal(t) = terms[t].gross
            /\ finance'.escrow = finance.escrow - refunded'[t]]_vars
  BY RefundStep
<1> QED
  BY <1>1, TypeInvCorrect, PlanCorrect, PTL DEF Spec, RefundSettles

-----------------------------------------------------------------------------
(* The books.                                                              *)

\* The amount column of a refund is written with the refund.
RefundRecorded == \A t \in Txs : status[t] # "REFUNDED" => refunded[t] = 0

\* What settled contracts left to the platform, and the milestones' part.
Retained == [t \in Txs |-> IF status[t] = "RELEASED" THEN terms[t].gross - terms[t].net ELSE 0]
Commissions == [m \in Milestones |-> ServicesCommission(ReleasedAmounts[m])]

\* What the books add up, contract by contract and milestone by milestone.
SumsTyped ==
  /\ PaidIn \in [Txs -> Nat] /\ PaidOut \in [Txs -> Nat] /\ Retained \in [Txs -> Nat]
  /\ refunded \in [Txs -> Nat]
  /\ \A u \in Users : /\ Debits(u) \in [Txs -> Nat]
                      /\ Settlements(u) \in [Txs -> Nat]
                      /\ Refunds(u) \in [Txs -> Nat]
                      /\ MilestonePay(u) \in [Milestones -> Nat]
                      /\ balance[u] \in Nat /\ InitialBalance[u] \in Nat
  /\ ReleasedAmounts \in [Milestones -> Nat]
  /\ Commissions \in [Milestones -> Nat]
  /\ finance.escrow \in Int /\ finance.revenue \in Int

LEMMA SumsType == TypeInv => SumsTyped
<1> SUFFICES ASSUME TypeInv
             PROVE  SumsTyped
  OBVIOUS
<1>1. \A t \in Txs : status[t] # "NONE" =>
        terms[t].gross \in Nat /\ terms[t].net \in Nat /\ terms[t].net <= terms[t].gross
  BY DEF TypeInv, TypeOK, EscrowTypeOK, Terms
<1>2. PaidIn \in [Txs -> Nat] /\ PaidOut \in [Txs -> Nat] /\ Retained \in [Txs -> Nat]
  BY <1>1 DEF PaidIn, PaidOut, Retained, Paid, Held, Settled
<1>3. refunded \in [Txs -> Nat]
  BY DEF TypeInv, TypeOK
<1>4. ASSUME NEW u \in Users
      PROVE  /\ Debits(u) \in [Txs -> Nat]
             /\ Settlements(u) \in [Txs -> Nat]
             /\ Refunds(u) \in [Txs -> Nat]
  BY <1>1, <1>3 DEF Debits, Settlements, Refunds, Paid, Held, Settled
<1>5. ReleasedAmounts \in [Milestones -> Nat]
  BY MilestoneAmountsType DEF TypeInv
<1>6. Commissions \in [Milestones -> Nat]
  BY <1>5, CommissionBounds DEF Commissions
<1>7. \A m \in Milestones : plan[m] - ServicesCommission(plan[m]) \in Nat
  <2>1. \A m \in Milestones : plan[m] \in Nat
    BY DEF TypeInv, TypeOK
  <2> QED
    BY <2>1, CommissionBounds
<1>8. ASSUME NEW u \in Users
      PROVE  MilestonePay(u) \in [Milestones -> Nat]
  BY <1>7 DEF MilestonePay
<1>9. \A u \in Users : balance[u] \in Nat /\ InitialBalance[u] \in Nat
  BY PartiesAssumption DEF TypeInv, TypeOK, EscrowTypeOK
<1>10. finance.escrow \in Int /\ finance.revenue \in Int
  BY DEF TypeInv, TypeOK, EscrowTypeOK
<1> QED
  BY <1>2, <1>3, <1>4, <1>5, <1>6, <1>8, <1>9, <1>10 DEF SumsTyped

LEMMA SumsTypeNext == TypeInv' => SumsTyped'
BY SumsType, PTL

\* Sums that differ in one contract.
LEMMA ContractSum ==
  ASSUME NEW t \in Txs, NEW f \in [Txs -> Nat], NEW g \in [Txs -> Nat],
         \A x \in Txs : x # t => g[x] = f[x]
  PROVE  /\ Total(f) \in Nat /\ Total(g) \in Nat /\ f[t] \in Nat /\ g[t] \in Nat
         /\ Total(g) = Total(f) - f[t] + g[t]
<1>1. IsFiniteSet(Txs)
  BY PartiesAssumption
<1> QED
  BY <1>1, TotalType, TotalChange

\* Sums that differ in one milestone.
LEMMA MilestoneSum ==
  ASSUME NEW m \in Milestones, NEW f \in [Milestones -> Nat], NEW g \in [Milestones -> Nat],
         \A x \in Milestones : x # m => g[x] = f[x]
  PROVE  /\ Total(f) \in Nat /\ Total(g) \in Nat /\ f[m] \in Nat /\ g[m] \in Nat
         /\ Total(g) = Total(f) - f[m] + g[m]
BY MilestonesFinite, TotalType, TotalChange

\* A wallet whose entries change in one contract stays reconciled if its
\* balance changes by as much.
LEMMA WalletSum ==
  ASSUME NEW t \in Txs, NEW start \in Nat, NEW paid \in Nat, NEW b \in Nat, NEW bNext \in Nat,
         NEW d \in [Txs -> Nat], NEW s \in [Txs -> Nat], NEW r \in [Txs -> Nat],
         NEW dNext \in [Txs -> Nat], NEW sNext \in [Txs -> Nat], NEW rNext \in [Txs -> Nat],
         \A x \in Txs : x # t => dNext[x] = d[x] /\ sNext[x] = s[x] /\ rNext[x] = r[x],
         b + Total(d) = start + paid + Total(s) + Total(r),
         bNext + dNext[t] + s[t] + r[t] = b + d[t] + sNext[t] + rNext[t]
  PROVE  bNext + Total(dNext) = start + paid + Total(sNext) + Total(rNext)
<1>1. /\ Total(dNext) = Total(d) - d[t] + dNext[t]
      /\ Total(sNext) = Total(s) - s[t] + sNext[t]
      /\ Total(rNext) = Total(r) - r[t] + rNext[t]
      /\ Total(d) \in Nat /\ Total(s) \in Nat /\ Total(r) \in Nat
      /\ d[t] \in Nat /\ s[t] \in Nat /\ r[t] \in Nat
      /\ dNext[t] \in Nat /\ sNext[t] \in Nat /\ rNext[t] \in Nat
  BY ContractSum
<1> QED
  BY <1>1

\* A step on one contract that releases no milestone keeps the books if what
\* it does to escrow, to revenue and to each wallet is what it does to the
\* contract's own entries.
LEMMA ContractBooks ==
  ASSUME TypeInv, TypeInv', BooksMatch, NEW t \in Txs,
         \A x \in Txs : x # t =>
           status'[x] = status[x] /\ terms'[x] = terms[x] /\ refunded'[x] = refunded[x],
         ReleasedAmounts' = ReleasedAmounts,
         \A u \in Users : MilestonePay(u)' = MilestonePay(u),
         finance'.escrow + PaidIn[t] + PaidOut'[t] + refunded'[t]
           = finance.escrow + PaidIn'[t] + PaidOut[t] + refunded[t],
         finance'.revenue + Retained[t] = finance.revenue + Retained'[t],
         \A u \in Users :
           balance'[u] + Debits(u)'[t] + Settlements(u)[t] + Refunds(u)[t]
             = balance[u] + Debits(u)[t] + Settlements(u)'[t] + Refunds(u)'[t]
  PROVE  BooksMatch'
<1>1. SumsTyped /\ SumsTyped'
  BY SumsType, SumsTypeNext
<1>2. EscrowMatches'
  <2> DEFINE in == PaidIn
             out == PaidOut
             back == refunded
             inNext == PaidIn'
             outNext == PaidOut'
             backNext == refunded'
  <2>1. /\ in \in [Txs -> Nat] /\ out \in [Txs -> Nat] /\ back \in [Txs -> Nat]
        /\ inNext \in [Txs -> Nat] /\ outNext \in [Txs -> Nat] /\ backNext \in [Txs -> Nat]
    BY <1>1 DEF SumsTyped
  <2>2. \A x \in Txs : x # t => inNext[x] = in[x] /\ outNext[x] = out[x] /\ backNext[x] = back[x]
    BY DEF PaidIn, PaidOut, Paid, Held, Settled
  <2>3. finance'.escrow + in[t] + outNext[t] + backNext[t]
          = finance.escrow + inNext[t] + out[t] + back[t]
    OBVIOUS
  <2>4. finance.escrow = Total(in) - Total(out) - Total(ReleasedAmounts) - Total(back)
    BY DEF BooksMatch, EscrowMatches
  <2>5. finance.escrow \in Int /\ finance'.escrow \in Int /\ Total(ReleasedAmounts) \in Nat
    BY <1>1, MilestonesFinite, TotalType DEF SumsTyped
  <2> HIDE DEF in, out, back, inNext, outNext, backNext
  <2>6. /\ Total(inNext) = Total(in) - in[t] + inNext[t]
        /\ Total(outNext) = Total(out) - out[t] + outNext[t]
        /\ Total(backNext) = Total(back) - back[t] + backNext[t]
        /\ Total(in) \in Nat /\ Total(out) \in Nat /\ Total(back) \in Nat
        /\ in[t] \in Nat /\ out[t] \in Nat /\ back[t] \in Nat
        /\ inNext[t] \in Nat /\ outNext[t] \in Nat /\ backNext[t] \in Nat
    BY <2>1, <2>2, ContractSum
  <2>7. finance'.escrow = Total(inNext) - Total(outNext) - Total(ReleasedAmounts) - Total(backNext)
    BY <2>3, <2>4, <2>5, <2>6
  <2> QED
    BY <2>7 DEF EscrowMatches, inNext, outNext, backNext
<1>3. RevenueMatches'
  <2> DEFINE kept == Retained
             keptNext == Retained'
             commissions == Total(Commissions)
  <2>1. kept \in [Txs -> Nat] /\ keptNext \in [Txs -> Nat]
    BY <1>1 DEF SumsTyped
  <2>2. \A x \in Txs : x # t => keptNext[x] = kept[x]
    BY DEF Retained
  <2>3. finance'.revenue + kept[t] = finance.revenue + keptNext[t]
    OBVIOUS
  <2>4. finance.revenue = commissions + Total(kept)
    BY DEF BooksMatch, RevenueMatches, Commissions, Retained
  <2>5. finance.revenue \in Int /\ finance'.revenue \in Int /\ commissions \in Nat
    BY <1>1, MilestonesFinite, TotalType DEF SumsTyped
  <2>6. Commissions' = Commissions
    BY DEF Commissions
  <2> HIDE DEF kept, keptNext
  <2>7. /\ Total(keptNext) = Total(kept) - kept[t] + keptNext[t] /\ Total(kept) \in Nat
        /\ kept[t] \in Nat /\ keptNext[t] \in Nat
    BY <2>1, <2>2, ContractSum
  <2>8. finance'.revenue = Total(Commissions') + Total(keptNext)
    BY <2>3, <2>4, <2>5, <2>6, <2>7
  <2> QED
    BY <2>8 DEF RevenueMatches, keptNext, Commissions, Retained
<1>4. ASSUME NEW u \in Users
      PROVE  balance'[u] + Total(Debits(u)')
               = InitialBalance[u] + Total(MilestonePay(u)') + Total(Settlements(u)')
                   + Total(Refunds(u)')
  <2> DEFINE d == Debits(u)
             s == Settlements(u)
             r == Refunds(u)
             dNext == Debits(u)'
             sNext == Settlements(u)'
             rNext == Refunds(u)'
             milestones == Total(MilestonePay(u))
             start == InitialBalance[u]
             b == balance[u]
             bNext == balance'[u]
  <2>1. /\ d \in [Txs -> Nat] /\ s \in [Txs -> Nat] /\ r \in [Txs -> Nat]
        /\ dNext \in [Txs -> Nat] /\ sNext \in [Txs -> Nat] /\ rNext \in [Txs -> Nat]
        /\ milestones \in Nat /\ start \in Nat /\ b \in Nat /\ bNext \in Nat
    BY <1>1, MilestonesFinite, TotalType DEF SumsTyped
  <2>2. \A x \in Txs : x # t => dNext[x] = d[x] /\ sNext[x] = s[x] /\ rNext[x] = r[x]
    BY DEF Debits, Settlements, Refunds, Paid, Held, Settled
  <2>3. bNext + dNext[t] + s[t] + r[t] = b + d[t] + sNext[t] + rNext[t]
    OBVIOUS
  <2>4. b + Total(d) = start + milestones + Total(s) + Total(r)
    BY DEF BooksMatch, WalletsReconcile
  <2>5. Total(MilestonePay(u)') = milestones
    OBVIOUS
  <2> HIDE DEF d, s, r, dNext, sNext, rNext, milestones, start, b, bNext
  <2>6. bNext + Total(dNext) = start + milestones + Total(sNext) + Total(rNext)
    BY <2>1, <2>2, <2>3, <2>4, WalletSum
  <2> QED
    BY <2>5, <2>6 DEF bNext, dNext, start, sNext, rNext
<1> QED
  BY <1>2, <1>3, <1>4 DEF BooksMatch, WalletsReconcile

\* Milestones keep their money as long as plan, releases and rows stay.
LEMMA MilestonesKeep ==
  ASSUME UNCHANGED <<plan, released, terms>>
  PROVE  /\ ReleasedAmounts' = ReleasedAmounts
         /\ \A u \in Users : MilestonePay(u)' = MilestonePay(u)
BY DEF ReleasedAmounts, MilestonePay

\* The entries of a contract that is neither paid nor refunded are empty.
LEMMA UnpaidEntries ==
  ASSUME RefundRecorded, NEW t \in Txs, ~Paid(t)
  PROVE  /\ PaidIn[t] = 0 /\ PaidOut[t] = 0 /\ Retained[t] = 0 /\ refunded[t] = 0
         /\ \A u \in Users : Debits(u)[t] = 0 /\ Settlements(u)[t] = 0 /\ Refunds(u)[t] = 0
BY DEF RefundRecorded, PaidIn, PaidOut, Retained, Debits, Settlements, Refunds, Paid, Settled

\* The entries of a contract whose money is held: what the buyer paid.
LEMMA HeldEntries ==
  ASSUME RefundRecorded, NEW t \in Txs, Held(t)
  PROVE  /\ PaidIn[t] = terms[t].gross /\ PaidOut[t] = 0 /\ Retained[t] = 0 /\ refunded[t] = 0
         /\ \A u \in Users : /\ Debits(u)[t] = IF terms[t].buyer = u THEN terms[t].gross ELSE 0
                             /\ Settlements(u)[t] = 0 /\ Refunds(u)[t] = 0
BY DEF RefundRecorded, PaidIn, PaidOut, Retained, Debits, Settlements, Refunds, Paid, Held

\* The same of the state after a step.
LEMMA EntriesNext ==
  /\ RefundRecorded' => \A t \in Txs : ~Paid(t)' =>
       /\ PaidIn'[t] = 0 /\ PaidOut'[t] = 0 /\ Retained'[t] = 0 /\ refunded'[t] = 0
       /\ \A u \in Users : Debits(u)'[t] = 0 /\ Settlements(u)'[t] = 0 /\ Refunds(u)'[t] = 0
  /\ RefundRecorded' => \A t \in Txs : Held(t)' =>
       /\ PaidIn'[t] = terms'[t].gross /\ PaidOut'[t] = 0 /\ Retained'[t] = 0 /\ refunded'[t] = 0
       /\ \A u \in Users : /\ Debits(u)'[t] = IF terms'[t].buyer = u THEN terms'[t].gross ELSE 0
                           /\ Settlements(u)'[t] = 0 /\ Refunds(u)'[t] = 0
BY DEF RefundRecorded, PaidIn, PaidOut, Retained, Debits, Settlements, Refunds, Paid, Held, Settled

\* What the steps do to a wallet.
LEMMA WalletMoves ==
  ASSUME TypeInv, NEW t \in Txs, NEW k \in LedgerTypes, NEW u \in Users, NEW m \in Int,
         UpdateBalance(t, k, u, m)
  PROVE  balance'[u] = balance[u] + m /\ \A w \in Users : w # u => balance'[w] = balance[w]
BY DEF UpdateBalance, TypeInv, TypeOK, EscrowTypeOK

\* The amount of a refund is written when a contract becomes REFUNDED, once.
LEMMA RefundRecordedStep ==
  TypeInv /\ DisputeMatchesStatus /\ RefundRecorded /\ [Next]_vars => RefundRecorded'
<1> SUFFICES ASSUME TypeInv, DisputeMatchesStatus, RefundRecorded, [Next]_vars
             PROVE  RefundRecorded'
  OBVIOUS
<1>1. ASSUME UNCHANGED refunded, \A t \in Txs : status[t] = "REFUNDED" => status'[t] = "REFUNDED"
      PROVE  RefundRecorded'
  BY <1>1 DEF RefundRecorded
<1>2. ASSUME NEW t \in Txs, NEW s, SetStatus(t, s), status[t] # "REFUNDED", UNCHANGED refunded
      PROVE  RefundRecorded'
  BY <1>1, <1>2, StatusMoves
<1>3. ASSUME NEW t \in Txs,
             \/ Create(t)
             \/ (ConfirmPayment(t) \/ CancelTransaction(t)) /\ UNCHANGED servicesVars
      PROVE  RefundRecorded'
  BY <1>2, <1>3 DEF Create, LockFundsServices, CreateTransaction, ConfirmPayment,
     CancelTransaction, servicesVars
<1>4. ASSUME NEW t \in Txs, DisputeServices(t)
      PROVE  RefundRecorded'
  <2>1. DisputeStep(t, GetReleasedMilestonesTotal(t))
    BY <1>4 DEF DisputeServices
  <2>2. \A x \in Txs : x # t => status'[x] = status[x] /\ refunded'[x] = refunded[x]
    BY <1>4, <2>1, StatusMoves DEF DisputeServices, DisputeStep, OpenDispute, AcknowledgeDispute,
       ResolveDispute, RefundBuyer, PaySeller, TypeInv, TypeOK
  <2>3. status[t] # "REFUNDED"
    BY <2>1 DEF DisputeStep, OpenDispute, AcknowledgeDispute, ResolveDispute, DisputeMatchesStatus
  <2>4. status'[t] # "REFUNDED" => refunded'[t] = refunded[t]
    BY <1>4 DEF DisputeServices
  <2> QED
    BY <2>2, <2>3, <2>4 DEF RefundRecorded
<1>5. ASSUME NEW c \in Callers, CommitMilestone(c)
      PROVE  RefundRecorded'
  BY <1>1, <1>5 DEF CommitMilestone
<1>6. CASE UNCHANGED contracts
  BY <1>1, <1>6 DEF contracts, database
<1>7. ASSUME NEW t \in Txs, ContractReleased(t)
      PROVE  RefundRecorded'
  BY <1>2, <1>7 DEF ContractReleased, ReleaseFundsGoods, PaySeller
<1> QED
  BY <1>3, <1>4, <1>5, <1>6, <1>7, NextCases

\* Steps that take a contract from one unpaid status to another, or open its
\* dispute, move no money.
LEMMA StatusBooks ==
  ASSUME TypeInv, TypeInv', RefundRecorded, RefundRecorded', BooksMatch, NEW t \in Txs,
         NEW s, SetStatus(t, s),
         \/ status[t] \in {"NONE", "WAITING_PAYMENT"} /\ s \in {"WAITING_PAYMENT", "CANCELLED"}
         \/ status[t] = "FUNDS_LOCKED" /\ s = "DISPUTED" /\ terms'[t] = terms[t],
         \A x \in Txs : x # t => terms'[x] = terms[x],
         UNCHANGED <<balance, finance, refunded>>,
         ReleasedAmounts' = ReleasedAmounts,
         \A u \in Users : MilestonePay(u)' = MilestonePay(u)
  PROVE  BooksMatch'
<1>1. status'[t] = s /\ \A x \in Txs : x # t => status'[x] = status[x]
  BY StatusMoves
<1>2. /\ PaidIn'[t] = PaidIn[t] /\ PaidOut'[t] = PaidOut[t] /\ Retained'[t] = Retained[t]
      /\ \A u \in Users : /\ Debits(u)'[t] = Debits(u)[t]
                          /\ Settlements(u)'[t] = Settlements(u)[t]
                          /\ Refunds(u)'[t] = Refunds(u)[t]
  <2>1. CASE ~Paid(t) /\ ~Paid(t)'
    BY <2>1, UnpaidEntries, EntriesNext
  <2>2. CASE Held(t) /\ Held(t)' /\ terms'[t] = terms[t]
    BY <2>2, HeldEntries, EntriesNext
  <2> QED
    BY <1>1, <2>1, <2>2 DEF Paid, Held, Settled
<1>3. \A x \in Txs : x # t =>
        status'[x] = status[x] /\ terms'[x] = terms[x] /\ refunded'[x] = refunded[x]
  BY <1>1
<1>4. /\ finance'.escrow + PaidIn[t] + PaidOut'[t] + refunded'[t]
           = finance.escrow + PaidIn'[t] + PaidOut[t] + refunded[t]
      /\ finance'.revenue + Retained[t] = finance.revenue + Retained'[t]
  BY <1>2
<1>5. \A u \in Users :
        balance'[u] + Debits(u)'[t] + Settlements(u)[t] + Refunds(u)[t]
          = balance[u] + Debits(u)[t] + Settlements(u)'[t] + Refunds(u)'[t]
  BY <1>2
<1> QED
  BY <1>3, <1>4, <1>5, ContractBooks

\* A new contract has no entries, and no milestone of it is released.
LEMMA CreateBooks ==
  ASSUME TypeInv, TypeInv', RefundRecorded, RefundRecorded', BooksMatch,
         NEW t \in Txs, Create(t)
  PROVE  BooksMatch'
<1> PICK b \in Users, s \in Users, base \in BaseAmounts, breakdown \in Breakdowns :
           LockFundsServices(t, b, s, base, breakdown)
  BY DEF Create
<1>1. /\ status[t] = "NONE" /\ SetStatus(t, "WAITING_PAYMENT")
      /\ UNCHANGED <<balance, finance, refunded, released>>
  BY DEF LockFundsServices, CreateTransaction
<1>2. \A x \in Txs : x # t => terms'[x] = terms[x]
  BY DEF LockFundsServices, CreateTransaction, TypeInv, TypeOK, EscrowTypeOK
<1>3. \A m \in Milestones : m[1] # t => plan'[m] = plan[m]
  BY DEF LockFundsServices
<1>4. \A m \in released : m \in Milestones /\ m[1] \in Txs /\ m[1] # t
  BY <1>1 DEF TypeInv, TypeOK, PlanOnRows, Milestones
<1>5. /\ ReleasedAmounts' = ReleasedAmounts
      /\ \A u \in Users : MilestonePay(u)' = MilestonePay(u)
  BY <1>1, <1>2, <1>3, <1>4 DEF ReleasedAmounts, MilestonePay
<1> QED
  BY <1>1, <1>2, <1>5, StatusBooks

\* The payment of a contract moves its base amount from the buyer into escrow.
LEMMA ConfirmBooks ==
  ASSUME TypeInv, TypeInv', RefundRecorded, RefundRecorded', BooksMatch,
         NEW t \in Txs, ConfirmPayment(t), UNCHANGED servicesVars
  PROVE  BooksMatch'
<1>1. /\ status[t] = "WAITING_PAYMENT" /\ SetStatus(t, "FUNDS_LOCKED")
      /\ UpdateBalance(t, "PAYMENT", terms[t].buyer, -terms[t].gross)
      /\ UpdateFinance(terms[t].gross, 0, 0)
      /\ UNCHANGED <<terms, plan, released, refunded>>
  BY DEF ConfirmPayment, servicesVars
<1>2. status'[t] = "FUNDS_LOCKED" /\ \A x \in Txs : x # t => status'[x] = status[x]
  BY <1>1, StatusMoves
<1>3. ~Paid(t) /\ Held(t)'
  BY <1>1, <1>2 DEF Paid, Held, Settled
<1>4. terms[t].buyer \in Users /\ terms[t].gross \in Nat
  BY <1>1 DEF TypeInv, TypeOK, EscrowTypeOK, Terms
<1>5. /\ finance'.escrow = finance.escrow + terms[t].gross
      /\ finance'.revenue = finance.revenue
      /\ finance.escrow \in Int /\ finance.revenue \in Int
  BY <1>1 DEF UpdateFinance, TypeInv, TypeOK, EscrowTypeOK
<1> DEFINE b == terms[t].buyer
           gross == terms[t].gross
<1>6. balance'[b] = balance[b] - gross /\ \A w \in Users : w # b => balance'[w] = balance[w]
  <2>1. -gross \in Int /\ b \in Users /\ UpdateBalance(t, "PAYMENT", b, -gross)
    BY <1>1, <1>4
  <2>2. balance[b] \in Nat /\ gross \in Nat
    BY <1>4 DEF TypeInv, TypeOK, EscrowTypeOK
  <2> HIDE DEF b, gross
  <2> QED
    BY <2>1, <2>2, WalletMoves DEF LedgerTypes
<1>7. /\ finance'.escrow + PaidIn[t] + PaidOut'[t] + refunded'[t]
           = finance.escrow + PaidIn'[t] + PaidOut[t] + refunded[t]
      /\ finance'.revenue + Retained[t] = finance.revenue + Retained'[t]
  BY <1>1, <1>3, <1>4, <1>5, UnpaidEntries, EntriesNext
<1>8. ASSUME NEW u \in Users
      PROVE  balance'[u] + Debits(u)'[t] + Settlements(u)[t] + Refunds(u)[t]
               = balance[u] + Debits(u)[t] + Settlements(u)'[t] + Refunds(u)'[t]
  <2>1. /\ Debits(u)[t] = 0 /\ Settlements(u)[t] = 0 /\ Refunds(u)[t] = 0
        /\ Debits(u)'[t] = (IF b = u THEN gross ELSE 0)
        /\ Settlements(u)'[t] = 0 /\ Refunds(u)'[t] = 0
    BY <1>1, <1>3, UnpaidEntries, EntriesNext
  <2>2. balance[u] \in Nat /\ balance'[u] \in Nat /\ gross \in Nat
    BY <1>4 DEF TypeInv, TypeOK, EscrowTypeOK
  <2> HIDE DEF b, gross
  <2> QED
    BY <1>6, <2>1, <2>2
<1>9. ReleasedAmounts' = ReleasedAmounts /\ \A u \in Users : MilestonePay(u)' = MilestonePay(u)
  BY <1>1, MilestonesKeep
<1>10. \A x \in Txs : x # t =>
         status'[x] = status[x] /\ terms'[x] = terms[x] /\ refunded'[x] = refunded[x]
  BY <1>1, <1>2
<1> QED
  BY <1>7, <1>8, <1>9, <1>10, ContractBooks

\* A refund moves what escrow still holds of a contract back to the buyer.
LEMMA RefundBooks ==
  ASSUME TypeInv, TypeInv', PlanCovers, RefundRecorded, BooksMatch,
         NEW t \in Txs, status[t] = "DISPUTED",
         RefundBuyer(t, GetReleasedMilestonesTotal(t)),
         refunded' = [refunded EXCEPT ![t] = RefundAmount(t, GetReleasedMilestonesTotal(t))],
         UNCHANGED <<terms, plan, released>>
  PROVE  BooksMatch'
<1> DEFINE b == terms[t].buyer
           gross == terms[t].gross
           amount == RefundAmount(t, GetReleasedMilestonesTotal(t))
<1>1. b \in Users /\ gross \in Nat
  BY DEF TypeInv, TypeOK, EscrowTypeOK, Terms
<1>2. amount \in Nat
  BY MilestoneAmountsType, RefundAmountBounds DEF TypeInv, TypeOK
<1>3. /\ SetStatus(t, "REFUNDED")
      /\ UpdateBalance(t, "REFUND", b, amount)
      /\ UpdateFinance(-amount, 0, 0)
      /\ refunded' = [refunded EXCEPT ![t] = amount]
  BY DEF RefundBuyer
<1>4. status'[t] = "REFUNDED" /\ \A x \in Txs : x # t => status'[x] = status[x]
  BY <1>3, StatusMoves
<1>5. Held(t)
  BY DEF Held
<1> HIDE DEF amount
<1>6. refunded'[t] = amount /\ \A x \in Txs : x # t => refunded'[x] = refunded[x]
  BY <1>3 DEF TypeInv, TypeOK
<1>7. /\ PaidIn'[t] = gross /\ PaidOut'[t] = 0 /\ Retained'[t] = 0
      /\ \A u \in Users : /\ Debits(u)'[t] = IF b = u THEN gross ELSE 0
                          /\ Settlements(u)'[t] = 0
                          /\ Refunds(u)'[t] = IF b = u THEN amount ELSE 0
  BY <1>4, <1>6 DEF PaidIn, PaidOut, Retained, Debits, Settlements, Refunds, Paid, Held, Settled
<1>8. /\ PaidIn[t] = gross /\ PaidOut[t] = 0 /\ Retained[t] = 0 /\ refunded[t] = 0
      /\ \A u \in Users : /\ Debits(u)[t] = IF b = u THEN gross ELSE 0
                          /\ Settlements(u)[t] = 0 /\ Refunds(u)[t] = 0
  BY <1>5, HeldEntries
<1>9. /\ finance'.escrow = finance.escrow - amount
      /\ finance'.revenue = finance.revenue
      /\ finance.escrow \in Int /\ finance.revenue \in Int
  BY <1>2, <1>3 DEF UpdateFinance, TypeInv, TypeOK, EscrowTypeOK
<1> HIDE DEF b, gross
<1>10. balance'[b] = balance[b] + amount /\ \A w \in Users : w # b => balance'[w] = balance[w]
  BY <1>1, <1>2, <1>3, WalletMoves DEF LedgerTypes
<1>11. /\ finance'.escrow + PaidIn[t] + PaidOut'[t] + refunded'[t]
            = finance.escrow + PaidIn'[t] + PaidOut[t] + refunded[t]
       /\ finance'.revenue + Retained[t] = finance.revenue + Retained'[t]
  BY <1>1, <1>2, <1>6, <1>7, <1>8, <1>9
<1>12. ASSUME NEW u \in Users
       PROVE  balance'[u] + Debits(u)'[t] + Settlements(u)[t] + Refunds(u)[t]
                = balance[u] + Debits(u)[t] + Settlements(u)'[t] + Refunds(u)'[t]
  <2>1. balance[u] \in Nat /\ balance'[u] \in Nat
    BY DEF TypeInv, TypeOK, EscrowTypeOK
  <2> QED
    BY <1>1, <1>2, <1>7, <1>8, <1>10, <2>1
<1>13. ReleasedAmounts' = ReleasedAmounts /\ \A u \in Users : MilestonePay(u)' = MilestonePay(u)
  BY MilestonesKeep
<1> QED
  BY <1>4, <1>6, <1>11, <1>12, <1>13, ContractBooks

\* A settlement for the seller moves the net amount to the seller and the rest
\* of the gross amount to revenue, after a dispute or without one.
LEMMA SettlementBooks ==
  ASSUME TypeInv, TypeInv', RefundRecorded, BooksMatch,
         NEW t \in Txs, Held(t), PaySeller(t),
         UNCHANGED <<terms, plan, released, refunded>>
  PROVE  BooksMatch'
<1> DEFINE b == terms[t].buyer
           s == terms[t].seller
           gross == terms[t].gross
           net == terms[t].net
<1>1. b \in Users /\ s \in Users /\ gross \in Nat /\ net \in Nat /\ terms[t].midtransFee = 0
  BY DEF TypeInv, TypeOK, EscrowTypeOK, Terms, Held
<1>2. /\ SetStatus(t, "RELEASED")
      /\ UpdateBalance(t, "RECEIVE_FUNDS", s, net)
      /\ UpdateFinance(-gross, gross - net, terms[t].midtransFee)
  BY DEF PaySeller
<1>3. status'[t] = "RELEASED" /\ \A x \in Txs : x # t => status'[x] = status[x]
  BY <1>2, StatusMoves
<1>5. /\ PaidIn'[t] = gross /\ PaidOut'[t] = gross /\ Retained'[t] = gross - net
      /\ \A u \in Users : /\ Debits(u)'[t] = IF b = u THEN gross ELSE 0
                          /\ Settlements(u)'[t] = IF s = u THEN net ELSE 0
                          /\ Refunds(u)'[t] = 0
  BY <1>3 DEF PaidIn, PaidOut, Retained, Debits, Settlements, Refunds, Paid, Held, Settled
<1>6. /\ PaidIn[t] = gross /\ PaidOut[t] = 0 /\ Retained[t] = 0 /\ refunded[t] = 0
      /\ \A u \in Users : /\ Debits(u)[t] = IF b = u THEN gross ELSE 0
                          /\ Settlements(u)[t] = 0 /\ Refunds(u)[t] = 0
  BY HeldEntries
<1>7. /\ finance'.escrow = finance.escrow - gross
      /\ finance'.revenue = finance.revenue + (gross - net)
      /\ finance.escrow \in Int /\ finance.revenue \in Int
  BY <1>1, <1>2 DEF UpdateFinance, TypeInv, TypeOK, EscrowTypeOK
<1> HIDE DEF b, s, gross, net
<1>8. balance'[s] = balance[s] + net /\ \A w \in Users : w # s => balance'[w] = balance[w]
  BY <1>1, <1>2, WalletMoves DEF LedgerTypes
<1>9. /\ finance'.escrow + PaidIn[t] + PaidOut'[t] + refunded'[t]
            = finance.escrow + PaidIn'[t] + PaidOut[t] + refunded[t]
      /\ finance'.revenue + Retained[t] = finance.revenue + Retained'[t]
  BY <1>1, <1>5, <1>6, <1>7
<1>10. ASSUME NEW u \in Users
       PROVE  balance'[u] + Debits(u)'[t] + Settlements(u)[t] + Refunds(u)[t]
                = balance[u] + Debits(u)[t] + Settlements(u)'[t] + Refunds(u)'[t]
  <2>1. balance[u] \in Nat /\ balance'[u] \in Nat
    BY DEF TypeInv, TypeOK, EscrowTypeOK
  <2> QED
    BY <1>1, <1>5, <1>6, <1>8, <2>1
<1>11. ReleasedAmounts' = ReleasedAmounts /\ \A u \in Users : MilestonePay(u)' = MilestonePay(u)
  BY MilestonesKeep
<1> QED
  BY <1>3, <1>9, <1>10, <1>11, ContractBooks

\* The dispute steps keep the books.
LEMMA DisputeBooks ==
  ASSUME TypeInv, TypeInv', PlanCovers, DisputeMatchesStatus, RefundRecorded, RefundRecorded',
         BooksMatch, NEW t \in Txs, DisputeServices(t)
  PROVE  BooksMatch'
<1>1. /\ DisputeStep(t, GetReleasedMilestonesTotal(t))
      /\ UNCHANGED <<plan, released>>
      /\ refunded' = IF status'[t] = "REFUNDED"
           THEN [refunded EXCEPT ![t] = RefundAmount(t, GetReleasedMilestonesTotal(t))]
           ELSE refunded
  BY DEF DisputeServices
<1>2. ASSUME NEW u \in Users, OpenDispute(t, u)
      PROVE  BooksMatch'
  <2>1. /\ status[t] = "FUNDS_LOCKED" /\ SetStatus(t, "DISPUTED")
        /\ UNCHANGED <<terms, balance, finance>>
    BY <1>2 DEF OpenDispute
  <2>2. UNCHANGED refunded
    BY <1>1, <2>1, StatusMoves
  <2>3. ReleasedAmounts' = ReleasedAmounts /\ \A v \in Users : MilestonePay(v)' = MilestonePay(v)
    BY <1>1, <2>1, MilestonesKeep
  <2> QED
    BY <2>1, <2>2, <2>3, StatusBooks
<1>3. CASE AcknowledgeDispute(t)
  <2>1. UNCHANGED <<status, terms, balance, finance>> /\ status[t] = "DISPUTED"
    BY <1>3 DEF AcknowledgeDispute, DisputeMatchesStatus
  <2>2. UNCHANGED refunded
    BY <1>1, <2>1
  <2> QED
    BY <1>1, <2>1, <2>2 DEF BooksMatch, EscrowMatches, RevenueMatches, WalletsReconcile, PaidIn,
       PaidOut, ReleasedAmounts, MilestonePay, Settlements, Refunds, Debits, Paid, Held, Settled
<1>4. ASSUME NEW outcome \in Outcomes,
             ResolveDispute(t, outcome, GetReleasedMilestonesTotal(t))
      PROVE  BooksMatch'
  <2>1. /\ status[t] = "DISPUTED" /\ UNCHANGED terms
        /\ RefundBuyer(t, GetReleasedMilestonesTotal(t)) \/ PaySeller(t)
    BY <1>4 DEF ResolveDispute
  <2>2. CASE RefundBuyer(t, GetReleasedMilestonesTotal(t))
    <3>1. status'[t] = "REFUNDED"
      BY <2>2, StatusMoves DEF RefundBuyer
    <3> QED
      BY <1>1, <2>1, <2>2, <3>1, RefundBooks
  <2>3. CASE PaySeller(t)
    <3>1. status'[t] = "RELEASED"
      BY <2>3, StatusMoves DEF PaySeller
    <3> QED
      BY <1>1, <2>1, <2>3, <3>1, SettlementBooks DEF Held
  <2> QED
    BY <2>1, <2>2, <2>3
<1> QED
  BY <1>1, <1>2, <1>3, <1>4 DEF DisputeStep

\* A milestone moves its amount out of escrow: the commission to revenue, the
\* rest to the seller, whatever the status of its contract is.
LEMMA MilestoneBooks ==
  ASSUME TypeInv, TypeInv', BooksMatch, NEW c \in Callers, CommitMilestone(c)
  PROVE  BooksMatch'
<1> PICK m \in Milestones : m = call[c].job
  BY CommitFacts
<1> DEFINE fee == ServicesCommission(plan[m])
           pay == plan[m] - fee
           s == terms[m[1]].seller
<1>1. /\ m \notin released /\ plan[m] \in Nat /\ fee \in Nat /\ pay \in Nat
      /\ s \in Users /\ m[1] \in Txs
      /\ UpdateBalance(m[1], "RECEIVE_FUNDS", s, pay)
      /\ UpdateFinance(-plan[m], fee, 0)
      /\ released' = released \cup {m}
      /\ UNCHANGED <<status, terms, plan, refunded>>
  BY CommitFacts DEF PayMilestone
<1>2. SumsTyped /\ SumsTyped'
  BY SumsType, SumsTypeNext
<1>3. /\ PaidIn' = PaidIn /\ PaidOut' = PaidOut /\ Retained' = Retained
      /\ \A u \in Users : /\ Debits(u)' = Debits(u) /\ Settlements(u)' = Settlements(u)
                          /\ Refunds(u)' = Refunds(u)
  BY <1>1 DEF PaidIn, PaidOut, Retained, Debits, Settlements, Refunds, Paid, Held, Settled
<1>4. /\ ReleasedAmounts[m] = 0 /\ ReleasedAmounts'[m] = plan[m]
      /\ \A x \in Milestones : x # m => ReleasedAmounts'[x] = ReleasedAmounts[x]
  BY <1>1 DEF ReleasedAmounts
<1>5. /\ Commissions[m] = 0 /\ Commissions'[m] = fee
      /\ \A x \in Milestones : x # m => Commissions'[x] = Commissions[x]
  <2>1. ServicesCommission(0) = 0
    BY CommissionBounds
  <2> QED
    BY <1>4, <2>1 DEF Commissions
<1>6. ASSUME NEW u \in Users
      PROVE  /\ MilestonePay(u)[m] = 0 /\ MilestonePay(u)'[m] = IF s = u THEN pay ELSE 0
             /\ \A x \in Milestones : x # m => MilestonePay(u)'[x] = MilestonePay(u)[x]
  BY <1>1 DEF MilestonePay
<1>7. /\ finance'.escrow = finance.escrow - plan[m] /\ finance'.revenue = finance.revenue + fee
      /\ finance.escrow \in Int /\ finance.revenue \in Int
  BY <1>1 DEF UpdateFinance, TypeInv, TypeOK, EscrowTypeOK
<1>8. balance'[s] = balance[s] + pay /\ \A w \in Users : w # s => balance'[w] = balance[w]
  <2> HIDE DEF pay, s
  <2> QED
    BY <1>1, WalletMoves DEF LedgerTypes
<1> HIDE DEF fee, pay, s
<1>9. EscrowMatches'
  <2>1. Total(ReleasedAmounts') = Total(ReleasedAmounts) + plan[m]
    <3> DEFINE f == ReleasedAmounts
               g == ReleasedAmounts'
    <3>1. f \in [Milestones -> Nat] /\ g \in [Milestones -> Nat]
      BY <1>2 DEF SumsTyped
    <3>2. f[m] = 0 /\ g[m] = plan[m] /\ \A x \in Milestones : x # m => g[x] = f[x]
      BY <1>4
    <3> HIDE DEF f, g
    <3>3. Total(g) = Total(f) + plan[m]
      BY <3>1, <3>2, MilestoneSum
    <3> QED
      BY <3>3 DEF f, g
  <2>2. /\ Total(PaidIn) \in Nat /\ Total(PaidOut) \in Nat /\ Total(refunded) \in Nat
        /\ Total(ReleasedAmounts) \in Nat
    BY <1>2, MilestonesFinite, PartiesAssumption, TotalType DEF SumsTyped
  <2>3. finance.escrow = Total(PaidIn) - Total(PaidOut) - Total(ReleasedAmounts) - Total(refunded)
    BY DEF BooksMatch, EscrowMatches
  <2>4. finance'.escrow
          = Total(PaidIn) - Total(PaidOut) - Total(ReleasedAmounts') - Total(refunded)
    BY <1>1, <1>7, <2>1, <2>2, <2>3
  <2> QED
    BY <1>1, <1>3, <2>4 DEF EscrowMatches
<1>10. RevenueMatches'
  <2>1. Total(Commissions') = Total(Commissions) + fee
    <3> DEFINE f == Commissions
               g == Commissions'
    <3>1. f \in [Milestones -> Nat] /\ g \in [Milestones -> Nat]
      BY <1>2 DEF SumsTyped
    <3>2. f[m] = 0 /\ g[m] = fee /\ \A x \in Milestones : x # m => g[x] = f[x]
      BY <1>5
    <3> HIDE DEF f, g
    <3>3. Total(g) = Total(f) + fee
      BY <3>1, <3>2, MilestoneSum
    <3> QED
      BY <3>3 DEF f, g
  <2>2. Total(Commissions) \in Nat /\ Total(Retained) \in Nat
    BY <1>2, MilestonesFinite, PartiesAssumption, TotalType DEF SumsTyped
  <2>3. finance.revenue = Total(Commissions) + Total(Retained)
    BY DEF BooksMatch, RevenueMatches, Commissions, Retained
  <2>4. finance'.revenue = Total(Commissions') + Total(Retained')
    BY <1>1, <1>3, <1>7, <2>1, <2>2, <2>3
  <2> QED
    BY <2>4 DEF RevenueMatches, Commissions, Retained
<1>11. ASSUME NEW u \in Users
       PROVE  balance'[u] + Total(Debits(u)')
                = InitialBalance[u] + Total(MilestonePay(u)') + Total(Settlements(u)')
                    + Total(Refunds(u)')
  <2> DEFINE credit == IF s = u THEN pay ELSE 0
  <2>1. credit \in Nat /\ balance'[u] = balance[u] + credit
    BY <1>1, <1>2, <1>8 DEF SumsTyped
  <2>2. Total(MilestonePay(u)') = Total(MilestonePay(u)) + credit
    <3> DEFINE f == MilestonePay(u)
               g == MilestonePay(u)'
    <3>1. f \in [Milestones -> Nat] /\ g \in [Milestones -> Nat]
      BY <1>2 DEF SumsTyped
    <3>2. f[m] = 0 /\ g[m] = credit /\ \A x \in Milestones : x # m => g[x] = f[x]
      BY <1>6
    <3> HIDE DEF f, g, credit
    <3>3. Total(g) = Total(f) + credit
      BY <3>1, <3>2, MilestoneSum
    <3> QED
      BY <3>3 DEF f, g
  <2>3. /\ Total(Debits(u)) \in Nat /\ Total(Settlements(u)) \in Nat /\ Total(Refunds(u)) \in Nat
        /\ Total(MilestonePay(u)) \in Nat /\ balance[u] \in Nat /\ InitialBalance[u] \in Nat
    BY <1>2, MilestonesFinite, PartiesAssumption, TotalType DEF SumsTyped
  <2>4. balance[u] + Total(Debits(u))
          = InitialBalance[u] + Total(MilestonePay(u)) + Total(Settlements(u)) + Total(Refunds(u))
    BY DEF BooksMatch, WalletsReconcile
  <2> HIDE DEF credit
  <2>5. balance'[u] + Total(Debits(u))
          = InitialBalance[u] + Total(MilestonePay(u)') + Total(Settlements(u)) + Total(Refunds(u))
    BY <2>1, <2>2, <2>3, <2>4
  <2> QED
    BY <1>3, <2>5
<1> QED
  BY <1>9, <1>10, <1>11 DEF BooksMatch, WalletsReconcile

\* Every step keeps the books.
LEMMA BooksStep ==
  TypeInv /\ PlanCovers /\ DisputeMatchesStatus /\ RefundRecorded /\ BooksMatch /\ [Next]_vars
    => BooksMatch'
<1> SUFFICES ASSUME TypeInv, PlanCovers, DisputeMatchesStatus, RefundRecorded, BooksMatch,
                    [Next]_vars
             PROVE  BooksMatch'
  OBVIOUS
<1>1. TypeInv' /\ RefundRecorded'
  BY TypeStep, RefundRecordedStep
<1>2. ASSUME NEW t \in Txs, CancelTransaction(t), UNCHANGED servicesVars
      PROVE  BooksMatch'
  <2>1. /\ status[t] = "WAITING_PAYMENT" /\ SetStatus(t, "CANCELLED")
        /\ UNCHANGED <<terms, balance, finance, refunded, plan, released>>
    BY <1>2 DEF CancelTransaction, servicesVars
  <2>2. ReleasedAmounts' = ReleasedAmounts /\ \A u \in Users : MilestonePay(u)' = MilestonePay(u)
    BY <2>1, MilestonesKeep
  <2> QED
    BY <1>1, <2>1, <2>2, StatusBooks
<1>3. CASE UNCHANGED contracts
  BY <1>3 DEF contracts, database, BooksMatch, EscrowMatches, RevenueMatches, WalletsReconcile,
     PaidIn, PaidOut, ReleasedAmounts, MilestonePay, Settlements, Refunds, Debits, Paid, Held, Settled
<1>4. ASSUME NEW t \in Txs, ContractReleased(t)
      PROVE  BooksMatch'
  BY <1>1, <1>4, SettlementBooks DEF ContractReleased, ReleaseFundsGoods, Held
<1> QED
  BY <1>1, <1>2, <1>3, <1>4, NextCases, CreateBooks, ConfirmBooks, DisputeBooks, MilestoneBooks

\* The empty platform: no contract has paid in, nothing is released.
LEMMA BooksInit == Init => BooksMatch
<1> SUFFICES ASSUME Init
             PROVE  BooksMatch
  OBVIOUS
<1>1. TypeInv /\ RefundRecorded
  BY EscrowInitType, MilestonesAssumption
     DEF Init, EscrowInit, TypeInv, TypeOK, PlanOnRows, Calls, Idle, RefundRecorded
<1>2. SumsTyped
  BY <1>1, SumsType
<1>3. \A t \in Txs : ~Paid(t)
  BY DEF Init, EscrowInit, Paid, Held, Settled
<1>4. /\ Total(PaidIn) = 0 /\ Total(PaidOut) = 0 /\ Total(Retained) = 0 /\ Total(refunded) = 0
      /\ \A u \in Users :
           Total(Debits(u)) = 0 /\ Total(Settlements(u)) = 0 /\ Total(Refunds(u)) = 0
  BY <1>1, <1>2, <1>3, UnpaidEntries, TotalZero DEF SumsTyped
<1>5. /\ \A m \in Milestones : ReleasedAmounts[m] = 0
      /\ \A u \in Users : \A m \in Milestones : MilestonePay(u)[m] = 0
  BY DEF Init, ReleasedAmounts, MilestonePay
<1>6. \A m \in Milestones : Commissions[m] = 0
  <2>1. ServicesCommission(0) = 0
    BY CommissionBounds
  <2> QED
    BY <1>5, <2>1 DEF Commissions
<1>7. /\ Total(ReleasedAmounts) = 0 /\ Total(Commissions) = 0
      /\ \A u \in Users : Total(MilestonePay(u)) = 0
  BY <1>2, <1>5, <1>6, TotalZero DEF SumsTyped
<1>8. EscrowMatches
  BY <1>4, <1>7 DEF Init, EscrowInit, EscrowMatches
<1>9. RevenueMatches
  BY <1>4, <1>7 DEF Init, EscrowInit, RevenueMatches, Commissions, Retained
<1>10. WalletsReconcile
  BY <1>2, <1>4, <1>7 DEF Init, EscrowInit, WalletsReconcile, SumsTyped
<1> QED
  BY <1>8, <1>9, <1>10 DEF BooksMatch

LEMMA RefundRecordedCorrect == Spec => []RefundRecorded
<1>1. Init => RefundRecorded
  BY DEF Init, RefundRecorded
<1> QED
  BY <1>1, TypeInvCorrect, DisputeCorrect, RefundRecordedStep, PTL DEF Spec

\* Escrow, revenue and every wallet follow from the contracts and their
\* milestones alone, in every reachable state, for any amounts and whatever the
\* order of webhooks, milestone releases and disputes.
THEOREM BooksCorrect == Spec => []BooksMatch
BY BooksInit, TypeInvCorrect, PlanCorrect, DisputeCorrect, RefundRecordedCorrect, BooksStep, PTL
   DEF Spec
=============================================================================
