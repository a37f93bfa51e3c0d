------------------------------ MODULE Loyalty ------------------------------
(***************************************************************************)
(* Reviews and the monthly tier evaluation (crm_worker.go).                *)
(*                                                                         *)
(* On the first of a month the worker lists the members with the roles     *)
(* they have at that moment, and evaluates them one by one, each in a unit *)
(* of work of its own, on the completed work in the member's crm_loyalty   *)
(* row and on the reviews it has by then.  The list may be cut off, a unit *)
(* of work may fail, the batch has five minutes, and what is left of it is *)
(* only in memory.                                                         *)
(*                                                                         *)
(* No code inserts crm_loyalty rows or counts completed work: both come    *)
(* from outside.                                                           *)
(***************************************************************************)
EXTENDS Integers, FiniteSets, Money

CONSTANTS
  Members,      \* members with an account
  Deals,        \* deals that may be released and reviewed
  Reviewee,     \* the seller of each deal
  Ratings,      \* ratings that buyers give
  Records,      \* completed work an operator may enter: [services, events]
  NoRow,        \* "no crm_loyalty row"
  MaxMonths,    \* bound on the months
  MaxCrashes    \* bound on the crashes

ASSUME LoyaltyAssumption ==
  /\ Reviewee \in [Deals -> Members]
  /\ Ratings \subseteq 1 .. 5
  /\ Records \subseteq [services : Nat, events : Nat]
  /\ NoRow \notin [tier : STRING, failed : Nat, done : Records]
  /\ MaxMonths \in Nat
  /\ MaxCrashes \in Nat

VARIABLES
  role,          \* user_profiles.role
  released,      \* deals whose status is RELEASED
  review,        \* the rating in each deal's review, 0 without one
  crm,           \* each member's crm_loyalty row
  month,         \* months that have begun
  listed,        \* members on this month's list
  batch,         \* those of them the worker has not reached yet
  evaluations,   \* evaluations stored for each member this month
  spared,        \* members without a row, or whose unit of work failed, this month
  lost,          \* this month's batch did not run to its end
  crashes        \* crashes so far

market == <<role, released, review>>
worker == <<month, listed, batch, evaluations, spared, lost, crashes>>
vars == <<market, crm, worker>>

-----------------------------------------------------------------------------
\* The roles the evaluation tells apart; every other role counts as goods.
Roles == {"USER", "VERIFIED_MERCHANT", "VERIFIED_VENDOR", "EVENT_ORGANIZER"}
LoyaltyTiers == {"GOLD", "SILVER", "BRONZE"}
CRMRows == [tier : LoyaltyTiers, failed : Nat, done : Records]

TypeOK ==
  /\ role \in [Members -> Roles]
  /\ released \subseteq Deals
  /\ review \in [Deals -> Ratings \cup {0}]
  /\ \A d \in Deals : review[d] # 0 => d \in released
  /\ crm \in [Members -> CRMRows \cup {NoRow}]
  /\ month \in 0 .. MaxMonths
  /\ listed \subseteq Members
  /\ batch \subseteq [member : listed, role : Roles]
  /\ evaluations \in [Members -> Nat]
  /\ spared \subseteq Members
  /\ lost \in BOOLEAN
  /\ crashes \in 0 .. MaxCrashes

Init ==
  /\ role \in [Members -> Roles]
  /\ released = {}
  /\ review = [d \in Deals |-> 0]
  /\ crm = [u \in Members |-> NoRow]
  /\ month = 0
  /\ listed = {}
  /\ batch = {}
  /\ evaluations = [u \in Members |-> 0]
  /\ spared = {}
  /\ lost = FALSE
  /\ crashes = 0

-----------------------------------------------------------------------------
(* The tier a member deserves.  A rating is a sum and a count of reviews,  *)
(* so that an average is compared without rounding it.                     *)

Neutral == [sum |-> 5, count |-> 1]
AtLeast(rating, tenths) == 10 * rating.sum >= tenths * rating.count

Reviews(u) == {d \in Deals : Reviewee[d] = u /\ review[d] # 0}

\* GetAverageRatingForUser, or the neutral 5.0 where there is none.
AverageRating(u) ==
  IF Reviews(u) = {} THEN Neutral
  ELSE [sum |-> Total([d \in Reviews(u) |-> review[d]]), count |-> Cardinality(Reviews(u))]

\* What a unit of work takes for the rating: a failed read counts as neutral.
RatingsRead(u) == {AverageRating(u), Neutral}

Verdict(tier, action) == [tier |-> tier, action |-> action]

EvaluateEventLoyalty(row, rating) ==
  IF AtLeast(rating, 47) /\ row.done.events >= 10 THEN Verdict("GOLD", "STAY_GOLD")
  ELSE IF AtLeast(rating, 45) /\ row.done.events >= 3 THEN Verdict("SILVER", "UPGRADE_TO_SILVER")
  ELSE Verdict("BRONZE", "STAY_BRONZE")

\* Mutant: a GOLD provider is warned in its first bad month already.
EvaluateServiceLoyaltyWarns(row, rating) ==
  IF AtLeast(rating, 47) /\ row.done.services >= 20 THEN
    IF row.tier = "GOLD" THEN Verdict("GOLD", "WARNING_LOW_SALES")
    ELSE Verdict("GOLD", "STAY_GOLD")
  ELSE IF AtLeast(rating, 45) /\ row.done.services >= 5 THEN Verdict("SILVER", "UPGRADE_TO_SILVER")
  ELSE Verdict("BRONZE", "STAY_BRONZE")

EvaluateServiceLoyalty(row, rating) ==
  IF AtLeast(rating, 47) /\ row.done.services >= 20 THEN
    IF row.tier = "GOLD" /\ row.failed > 0
      THEN IF row.failed >= 3 THEN Verdict("SILVER", "DOWNGRADE_TO_SILVER")
                              ELSE Verdict("GOLD", "WARNING_LOW_SALES")
      ELSE Verdict("GOLD", "STAY_GOLD")
  ELSE IF AtLeast(rating, 45) /\ row.done.services >= 5 THEN Verdict("SILVER", "UPGRADE_TO_SILVER")
  ELSE Verdict("BRONZE", "STAY_BRONZE")

EvaluateMonthlyMerchantTier(r, row, rating) ==
  CASE ~AtLeast(rating, 45) -> Verdict("BRONZE", "RATING_DROP")
    [] AtLeast(rating, 45) /\ r = "EVENT_ORGANIZER" -> EvaluateEventLoyalty(row, rating)
    [] AtLeast(rating, 45) /\ r = "VERIFIED_VENDOR" -> EvaluateServiceLoyalty(row, rating)
    [] OTHER -> Verdict("BRONZE", "STAY_BRONZE")

\* The row after its evaluation.
Evaluated(row, verdict) ==
  [tier |-> verdict.tier,
   failed |-> CASE verdict.action = "WARNING_LOW_SALES" -> row.failed + 1
                [] verdict.action \in {"STAY_GOLD", "UPGRADE_TO_GOLD", "UPGRADE_TO_SILVER"} -> 0
                [] OTHER -> row.failed,
   done |-> row.done]

-----------------------------------------------------------------------------
(* Around the worker: roles, deals, reviews and rows change at any time,   *)
(* also between the members of one batch.                                  *)

Promote(u, r) ==
  /\ r # role[u]
  /\ role' = [role EXCEPT ![u] = r]
  /\ UNCHANGED <<released, review, crm, worker>>

ReleaseDeal(d) ==
  /\ released' = released \cup {d}
  /\ UNCHANGED <<role, review, crm, worker>>

\* Mutant: the status of the deal is not looked at.
CreateReviewEarly(d, rating) ==
  /\ review[d] = 0
  /\ review' = [review EXCEPT ![d] = rating]
  /\ UNCHANGED <<role, released, crm, worker>>

\* CreateReview: the buyer of a released deal rates its seller, once.
CreateReview(d, rating) ==
  /\ d \in released
  /\ review[d] = 0
  /\ review' = [review EXCEPT ![d] = rating]
  /\ UNCHANGED <<role, released, crm, worker>>

\* An operator inserts a row, with the defaults of the schema, or enters
\* completed work.
EnterRecord(u, done) ==
  /\ crm' = [crm EXCEPT ![u] =
       IF @ = NoRow THEN [tier |-> "BRONZE", failed |-> 0, done |-> done]
                    ELSE [@ EXCEPT !.done = done]]
  /\ UNCHANGED <<market, worker>>

-----------------------------------------------------------------------------
(* The worker.                                                             *)

NewMonth ==
  /\ batch = {}
  /\ month < MaxMonths
  /\ month' = month + 1
  /\ evaluations' = [u \in Members |-> 0]
  /\ spared' = {}
  /\ UNCHANGED <<market, crm, crashes>>

\* The timer fires: GetAllUsersForCRMEvaluation, outside every unit of work.  A
\* list that is cut off while it is read passes for the list of all members (it
\* does not ask rows.Err).
StartBatch ==
  /\ NewMonth
  /\ listed' \in SUBSET Members
  /\ batch' = {[member |-> u, role |-> role[u]] : u \in listed'}
  /\ lost' = FALSE

\* The list cannot be read, or the process is down when the month begins: the
\* timer is set for the next month.
MissMonth ==
  /\ NewMonth
  /\ listed' = {}
  /\ batch' = {}
  /\ lost' = TRUE

\* A member's unit of work: its row, its rating and the verdict.
EvaluateMember(entry, rating) ==
  LET u == entry.member IN
  /\ entry \in batch
  /\ crm[u] # NoRow
  /\ crm' = [crm EXCEPT ![u] = Evaluated(@, EvaluateMonthlyMerchantTier(entry.role, @, rating))]
  /\ evaluations' = [evaluations EXCEPT ![u] = @ + 1]
  /\ batch' = batch \ {entry}
  /\ UNCHANGED <<market, month, listed, spared, lost, crashes>>

\* Mutant: one member's failure ends the batch.
SpareMemberAndStop(entry) ==
  /\ entry \in batch
  /\ spared' = spared \cup {entry.member}
  /\ batch' = {}
  /\ UNCHANGED <<market, crm, month, listed, evaluations, lost, crashes>>

\* The member has no row, or its unit of work fails: the next one's turn.
SpareMember(entry) ==
  /\ entry \in batch
  /\ spared' = spared \cup {entry.member}
  /\ batch' = batch \ {entry}
  /\ UNCHANGED <<market, crm, month, listed, evaluations, lost, crashes>>

\* The five minutes of the batch are over: every unit of work left fails.
TimeOut ==
  /\ batch # {}
  /\ batch' = {}
  /\ lost' = TRUE
  /\ UNCHANGED <<market, crm, month, listed, evaluations, spared, crashes>>

\* The process stops in the middle of a batch.  The new one waits for the first
\* of the next month.
Crash ==
  /\ batch # {}
  /\ crashes < MaxCrashes
  /\ batch' = {}
  /\ lost' = TRUE
  /\ crashes' = crashes + 1
  /\ UNCHANGED <<market, crm, month, listed, evaluations, spared>>

-----------------------------------------------------------------------------
Outside ==
  \/ \E u \in Members : \/ \E r \in Roles : Promote(u, r)
                        \/ \E done \in Records : EnterRecord(u, done)
  \/ \E d \in Deals : \/ ReleaseDeal(d)
                      \/ \E rating \in Ratings : CreateReview(d, rating)

Next ==
  \/ Outside
  \/ StartBatch
  \/ MissMonth
  \/ \E entry \in batch :
       \/ \E rating \in RatingsRead(entry.member) : EvaluateMember(entry, rating)
       \/ SpareMember(entry)
  \/ TimeOut
  \/ Crash

Spec == Init /\ [][Next]_vars

-----------------------------------------------------------------------------
(* Safety.                                                                 *)

\* No member is evaluated twice in a month, whatever crashes and restarts do.
\* Of the members on the list, which may be cut off, a batch that runs to its
\* end leaves out those without a row and those whose own unit of work failed,
\* and nobody because of another (ExecuteMonthlyEvaluation goes on to the next).
EvaluatedOnce ==
  \A u \in Members :
    /\ evaluations[u] <= 1
    /\ batch = {} /\ ~lost /\ u \in listed \ spared => evaluations[u] = 1

\* A month counts as failed only after a month that failed already, and rows
\* start without one: no sequence of evaluations ever warns a GOLD provider or
\* takes GOLD away for low sales (finance_calculator.go: evaluateServiceLoyalty).
NobodyIsWarned == \A u \in Members : crm[u] # NoRow => crm[u].failed = 0
=============================================================================
