----------------------------- MODULE Membership -----------------------------
(***************************************************************************)
(* Accounts, their tokens and the verification of identities (KYC).        *)
(*                                                                         *)
(* A member registers with a role of its choice, logs in, and holds tokens *)
(* that carry the role of the moment and outlive it.  With a USER token it *)
(* submits its identity; the backend-ai service is asked for a score while *)
(* the request waits, and an administrator decides.  There is one          *)
(* kyc_submissions row per member: submitting again overwrites it, also    *)
(* when it has been decided, also while an earlier request still waits for *)
(* its score, so scores, decisions and submissions may cross.              *)
(*                                                                         *)
(* A submission is named by its version, the number of times the member    *)
(* has submitted; the code has no such number, and its writes find the row *)
(* by member or by id, whatever the version.                               *)
(***************************************************************************)
EXTENDS Integers, FiniteSets

CONSTANTS
  Members,         \* people who may have an account, one each
  AskedRoles,      \* role strings a registration may carry, "" for none
  RequestedRoles,  \* roles members want to be verified for
  MaxSubmissions   \* bound on the submissions of one member

ASSUME MembershipAssumption ==
  /\ AskedRoles \subseteq STRING
  /\ RequestedRoles \subseteq {"VERIFIED_MERCHANT", "VERIFIED_VENDOR", "EVENT_ORGANIZER"}
  /\ MaxSubmissions \in Nat

VARIABLES
  role,        \* user_profiles.role, "none" without an account
  tokens,      \* the roles in each member's unexpired tokens
  kyc,         \* each member's kyc_submissions row
  verifying,   \* submissions whose request waits for backend-ai
  overtaken    \* submissions replaced while they waited for their score

account == <<role, tokens>>
vars == <<account, kyc, verifying, overtaken>>

-----------------------------------------------------------------------------
\* The roles registration hands out.
SelfAssigned == {"USER", "VERIFIED_MERCHANT", "VERIFIED_VENDOR", "EVENT_ORGANIZER",
                 "SELLER", "SERVICE_PROVIDER", "VENDOR"}

Decisions == {"APPROVED", "REJECTED"}
Versions == 0 .. MaxSubmissions
Submissions == [member : Members, version : Versions \ {0}]

\* A row; score is the version whose documents ai_score was computed from, 0
\* for NULL.
KYCRows == [status : {"NONE", "PENDING"} \cup Decisions,
            target : RequestedRoles \cup {"none"},
            version : Versions,
            score : Versions]
NoRow == [status |-> "NONE", target |-> "none", version |-> 0, score |-> 0]

TypeOK ==
  /\ role \in [Members -> SelfAssigned \cup {"none"}]
  /\ tokens \in [Members -> SUBSET SelfAssigned]
  /\ kyc \in [Members -> KYCRows]
  /\ verifying \subseteq Submissions
  /\ overtaken \subseteq Submissions
  /\ \A u \in Members :
       /\ role[u] = "none" => tokens[u] = {} /\ kyc[u] = NoRow
       /\ (kyc[u].version = 0) <=> (kyc[u] = NoRow)
  /\ \A s \in verifying \cup overtaken : s.version <= kyc[s.member].version

Init ==
  /\ role = [u \in Members |-> "none"]
  /\ tokens = [u \in Members |-> {}]
  /\ kyc = [u \in Members |-> NoRow]
  /\ verifying = {}
  /\ overtaken = {}

-----------------------------------------------------------------------------
(* Accounts.                                                               *)

\* Mutant: any role asked for is taken.
RegisteredRoleAsked(asked, accountType) ==
  IF asked = ""
    THEN IF accountType = "commercial" THEN "EVENT_ORGANIZER" ELSE "USER"
    ELSE asked

\* The role of a new account: the one asked for unless it is unknown or ADMIN,
\* and the account type's when none is asked for.
RegisteredRole(asked, accountType) ==
  IF asked = ""
    THEN IF accountType = "commercial" THEN "EVENT_ORGANIZER" ELSE "USER"
    ELSE IF asked \in SelfAssigned THEN asked ELSE "USER"

\* initProfileAndWallet: the profile, and a wallet with it, in one unit of work.
\* Email and username are unique, so a person's second profile is refused.
InitProfileAndWallet(u, r) ==
  /\ role[u] = "none"
  /\ role' = [role EXCEPT ![u] = r]

Register(u, asked, accountType) ==
  /\ InitProfileAndWallet(u, RegisteredRole(asked, accountType))
  /\ UNCHANGED <<tokens, kyc, verifying, overtaken>>

\* GenerateToken: a token says the role of the row at the time of the login.
GenerateToken(u) == tokens' = [tokens EXCEPT ![u] = @ \cup {role[u]}]

Login(u) ==
  /\ role[u] # "none"
  /\ GenerateToken(u)
  /\ UNCHANGED <<role, kyc, verifying, overtaken>>

\* RequireRole: what counts is the role in a token, whatever the row says now.
RequireRole(u, r) == r \in tokens[u]

\* A token expires; nothing revokes one earlier.
TokenExpires(u, r) ==
  /\ r \in tokens[u]
  /\ tokens' = [tokens EXCEPT ![u] = @ \ {r}]
  /\ UNCHANGED <<role, kyc, verifying, overtaken>>

-----------------------------------------------------------------------------
(* Submitting.                                                             *)

\* Mutant: the score of the submission before stays in the row.
SubmittedRowKeepsScore(u, target) ==
  [status |-> "PENDING", target |-> target, version |-> kyc[u].version + 1,
   score |-> kyc[u].score]

\* SubmitKYC of the repository: the row inserted or overwritten, whatever its
\* status; what was known of the submission before is cleared.
SubmittedRow(u, target) ==
  [status |-> "PENDING", target |-> target, version |-> kyc[u].version + 1,
   score |-> 0]

\* SubmitUserKYC: the row is written and the request goes on to backend-ai.
\* The identity card of a submission is in no other member's row; where it is,
\* the write fails and nothing changes.
SubmitUserKYC(u, target) ==
  /\ RequireRole(u, "USER")
  /\ kyc[u].version < MaxSubmissions
  /\ kyc' = [kyc EXCEPT ![u] = SubmittedRow(u, target)]
  /\ verifying' = verifying \cup {[member |-> u, version |-> kyc[u].version + 1]}
  /\ overtaken' = overtaken \cup {s \in verifying : s.member = u}
  /\ UNCHANGED account

\* SaveKYCAIResult: the score goes into the member's row, whichever submission
\* and decision the row holds by now.
SaveKYCAIResult(s) ==
  /\ s \in verifying
  /\ verifying' = verifying \ {s}
  /\ kyc' = [kyc EXCEPT ![s.member].score = s.version]
  /\ UNCHANGED <<account, overtaken>>

\* backend-ai fails or times out, its score cannot be stored, or the process
\* stops: the submission stays as it is, without a score of its own.
VerifyIdentityFails(s) ==
  /\ s \in verifying
  /\ verifying' = verifying \ {s}
  /\ UNCHANGED <<account, kyc, overtaken>>

-----------------------------------------------------------------------------
(* Deciding.                                                               *)

UpdateUserRole(u, r) == role' = [role EXCEPT ![u] = r]

\* Mutant: a submission that was decided before can be decided again.
ReviewKYCAgain(u, decision) ==
  /\ kyc[u].status # "NONE"
  /\ kyc' = [kyc EXCEPT ![u].status = decision]
  /\ IF decision = "APPROVED" THEN UpdateUserRole(u, kyc[u].target) ELSE UNCHANGED role
  /\ UNCHANGED <<tokens, verifying, overtaken>>

\* Mutant: two units of work, and the second one may fail.
ReviewKYCHalfDone(u, decision) ==
  /\ kyc[u].status = "PENDING"
  /\ kyc' = [kyc EXCEPT ![u].status = decision]
  /\ \/ decision = "APPROVED" /\ UpdateUserRole(u, kyc[u].target)
     \/ UNCHANGED role
  /\ UNCHANGED <<tokens, verifying, overtaken>>

\* ReviewKYC: an administrator decides on the row of an id, which stays the
\* same when the member submits again.  The row is locked and its status read
\* in the unit of work that also promotes the member to the row's target role.
ReviewKYC(u, decision) ==
  /\ kyc[u].status = "PENDING"
  /\ kyc' = [kyc EXCEPT ![u].status = decision]
  /\ IF decision = "APPROVED" THEN UpdateUserRole(u, kyc[u].target) ELSE UNCHANGED role
  /\ UNCHANGED <<tokens, verifying, overtaken>>

-----------------------------------------------------------------------------
Next ==
  \/ \E u \in Members :
       \/ \E asked \in AskedRoles, accountType \in {"personal", "commercial"} :
            Register(u, asked, accountType)
       \/ Login(u)
       \/ \E r \in SelfAssigned : TokenExpires(u, r)
       \/ \E target \in RequestedRoles : SubmitUserKYC(u, target)
       \/ \E decision \in Decisions : ReviewKYC(u, decision)
  \/ \E s \in verifying : SaveKYCAIResult(s) \/ VerifyIdentityFails(s)

Spec == Init /\ [][Next]_vars

-----------------------------------------------------------------------------
(* Safety.                                                                 *)

\* An APPROVED row and the role agree (kyc_usecase.go: a role can never be
\* promoted while the submission stays PENDING, and vice versa), however often
\* the member submits again, for another role, with a token older than its
\* promotion.
PromotedByApproval ==
  \A u \in Members : kyc[u].status = "APPROVED" => role[u] = kyc[u].target

\* The score an administrator sees was computed from the submission in the row,
\* unless the member submitted again while an earlier one was being scored.
ScoreOfThisSubmission ==
  \A u \in Members :
    \/ kyc[u].score \in {0, kyc[u].version}
    \/ [member |-> u, version |-> kyc[u].score] \in overtaken

\* A decision stands until the member submits again: a second administrator, a
\* late score or an expired token does not change it, and no role changes
\* without an approval.
DecisionStands ==
  [][\A u \in Members :
       /\ kyc[u].status \in Decisions /\ kyc'[u].status # kyc[u].status =>
            kyc'[u].status = "PENDING" /\ kyc'[u].version = kyc[u].version + 1
       /\ role[u] \notin {"none", role'[u]} =>
            kyc[u].status = "PENDING" /\ kyc'[u].status = "APPROVED"]_vars
=============================================================================
