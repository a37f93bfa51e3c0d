---------------------------- MODULE AccessProofs ----------------------------
(***************************************************************************)
(* Proofs about what a request may do: with which role (Membership), for   *)
(* any number of members, submissions and roles to ask for; and how often  *)
(* (Idempotency), for any number of keys, requests and expiries.  The two  *)
(* share no state.                                                         *)
(***************************************************************************)
EXTENDS Membership, Idempotency, FiniteSetTheorems, TLAPS

-----------------------------------------------------------------------------
(* Membership: type correctness.                                           *)

\* Whoever has a row has an account, and the row names a role to promote to.
RowsAreOfMembers ==
  \A u \in Members : kyc[u].status # "NONE" =>
    kyc[u].target \in RequestedRoles /\ role[u] # "none"

Typed == TypeOK /\ RowsAreOfMembers

\* Registration hands out no role but the self-assigned ones.
LEMMA RegisteredRoleType ==
  ASSUME NEW asked \in AskedRoles, NEW accountType \in {"personal", "commercial"}
  PROVE  RegisteredRole(asked, accountType) \in SelfAssigned
BY DEF RegisteredRole, SelfAssigned

\* No role is named "none", so an account is told from its absence.
LEMMA NoneIsNoRole == "none" \notin SelfAssigned /\ "none" \notin RequestedRoles
BY MembershipAssumption DEF SelfAssigned

\* Every step keeps every variable in its type, tokens and rows with the
\* accounts they belong to, and the versions in order.
LEMMA TypedStep == Typed /\ [Next]_vars => Typed'
<1> SUFFICES ASSUME Typed, [Next]_vars
             PROVE  Typed'
  OBVIOUS
<1> USE MembershipAssumption, NoneIsNoRole DEF Typed, Versions, Submissions
<1>1. ASSUME NEW u \in Members, NEW asked \in AskedRoles,
             NEW accountType \in {"personal", "commercial"},
             Register(u, asked, accountType)
      PROVE  Typed'
  <2>1. PICK r \in SelfAssigned : role' = [role EXCEPT ![u] = r]
    BY <1>1, RegisteredRoleType DEF Register, InitProfileAndWallet
  <2>2. role[u] = "none" /\ UNCHANGED <<tokens, kyc, verifying, overtaken>>
    BY <1>1 DEF Register, InitProfileAndWallet
  <2>3. TypeOK'
    BY <2>1, <2>2 DEF TypeOK
  <2>4. RowsAreOfMembers'
    BY <2>1, <2>2 DEF TypeOK, RowsAreOfMembers
  <2> QED
    BY <2>3, <2>4
<1>2. ASSUME NEW u \in Members, Login(u)
      PROVE  Typed'
  <2>1. role[u] \in SelfAssigned
    BY <1>2 DEF Login, TypeOK
  <2>2. TypeOK'
    BY <1>2, <2>1 DEF Login, GenerateToken, TypeOK
  <2> QED
    BY <1>2, <2>2 DEF Login, RowsAreOfMembers
<1>3. ASSUME NEW u \in Members, NEW r \in SelfAssigned, TokenExpires(u, r)
      PROVE  Typed'
  BY <1>3 DEF TokenExpires, TypeOK, RowsAreOfMembers
<1>4. ASSUME NEW u \in Members, NEW target \in RequestedRoles, SubmitUserKYC(u, target)
      PROVE  Typed'
  <2> DEFINE row == SubmittedRow(u, target)
             s == [member |-> u, version |-> kyc[u].version + 1]
  <2>1. kyc[u].version \in Nat /\ kyc[u].version + 1 \in Versions \ {0}
    BY <1>4 DEF SubmitUserKYC, TypeOK, KYCRows
  <2>2. /\ row \in KYCRows
        /\ row.version = kyc[u].version + 1
        /\ row.status = "PENDING" /\ row.target = target
        /\ row # NoRow
    BY <2>1 DEF SubmittedRow, KYCRows, NoRow
  <2>3. /\ kyc' = [kyc EXCEPT ![u] = row]
        /\ verifying' = verifying \cup {s}
        /\ overtaken' \subseteq overtaken \cup verifying
        /\ UNCHANGED <<role, tokens>>
    BY <1>4 DEF SubmitUserKYC, account
  <2>4. s \in Submissions /\ s.member = u /\ s.version = row.version
    BY <2>1, <2>2
  <2>5. role[u] # "none"
    BY <1>4 DEF SubmitUserKYC, RequireRole, TypeOK
  <2> HIDE DEF row, s
  <2>6. \A x \in verifying' \cup overtaken' : x.version <= kyc'[x.member].version
    <3> SUFFICES ASSUME NEW x \in verifying \cup overtaken \cup {s}
                 PROVE  x.version <= kyc'[x.member].version
      BY <2>3
    <3>1. CASE x = s
      BY <3>1, <2>1, <2>2, <2>3, <2>4 DEF TypeOK
    <3>2. CASE x # s
      <4>1. x \in Submissions /\ x.version <= kyc[x.member].version
        BY <3>2 DEF TypeOK
      <4> QED
        BY <4>1, <2>1, <2>2, <2>3 DEF TypeOK
    <3> QED
      BY <3>1, <3>2
  <2>7. TypeOK'
    BY <2>1, <2>2, <2>3, <2>4, <2>5, <2>6 DEF TypeOK
  <2> QED
    BY <2>2, <2>3, <2>5, <2>7 DEF RowsAreOfMembers, TypeOK
<1>5. ASSUME NEW u \in Members, NEW decision \in Decisions, ReviewKYC(u, decision)
      PROVE  Typed'
  <2>1. /\ kyc[u] \in KYCRows /\ kyc[u] # NoRow /\ kyc[u].version # 0
        /\ kyc[u].target \in RequestedRoles /\ role[u] # "none"
    BY <1>5 DEF ReviewKYC, TypeOK, RowsAreOfMembers, NoRow
  <2>2. PICK r \in SelfAssigned : role' = [role EXCEPT ![u] = r]
    <3>1. CASE decision = "APPROVED"
      BY <1>5, <2>1, <3>1 DEF ReviewKYC, UpdateUserRole, SelfAssigned
    <3>2. CASE decision # "APPROVED"
      BY <1>5, <2>1, <3>2 DEF ReviewKYC, TypeOK
    <3> QED
      BY <3>1, <3>2
  <2> DEFINE row == [kyc[u] EXCEPT !.status = decision]
  <2>3. /\ row \in KYCRows /\ row.status # "NONE" /\ row # NoRow
        /\ row.version = kyc[u].version /\ row.target = kyc[u].target
    BY <2>1 DEF KYCRows, Decisions, NoRow
  <2>4. kyc' = [kyc EXCEPT ![u] = row] /\ UNCHANGED <<tokens, verifying, overtaken>>
    BY <1>5 DEF ReviewKYC
  <2> HIDE DEF row
  <2>5. TypeOK'
    BY <2>1, <2>2, <2>3, <2>4 DEF TypeOK
  <2> QED
    BY <2>1, <2>2, <2>3, <2>4, <2>5 DEF RowsAreOfMembers, TypeOK
<1>6. ASSUME NEW s \in verifying, SaveKYCAIResult(s)
      PROVE  Typed'
  <2> DEFINE u == s.member
             row == [kyc[u] EXCEPT !.score = s.version]
  <2>1. /\ s \in Submissions /\ u \in Members /\ s.version \in Versions \ {0}
        /\ kyc[u] \in KYCRows /\ s.version <= kyc[u].version
    BY DEF TypeOK
  <2>2. /\ kyc[u].version # 0 /\ kyc[u] # NoRow
    BY <2>1 DEF TypeOK, KYCRows
  <2>3. /\ row \in KYCRows /\ row.version = kyc[u].version
        /\ row.status = kyc[u].status /\ row.target = kyc[u].target
        /\ row # NoRow
    BY <2>1, <2>2 DEF KYCRows, NoRow
  <2>4. /\ kyc' = [kyc EXCEPT ![u] = row]
        /\ verifying' = verifying \ {s}
        /\ UNCHANGED <<role, tokens, overtaken>>
    BY <1>6 DEF SaveKYCAIResult, account
  <2> HIDE DEF row, u
  <2>5. TypeOK'
    BY <2>1, <2>2, <2>3, <2>4 DEF TypeOK
  <2> QED
    BY <2>1, <2>3, <2>4, <2>5 DEF RowsAreOfMembers, TypeOK
<1>7. ASSUME NEW s \in verifying, VerifyIdentityFails(s)
      PROVE  Typed'
  BY <1>7 DEF VerifyIdentityFails, account, TypeOK, RowsAreOfMembers
<1>8. ASSUME UNCHANGED vars
      PROVE  Typed'
  BY <1>8 DEF vars, account, TypeOK, RowsAreOfMembers
<1> QED
  BY <1>1, <1>2, <1>3, <1>4, <1>5, <1>6, <1>7, <1>8 DEF Next

LEMMA TypedInit == Init => Typed
BY MembershipAssumption DEF Init, Typed, TypeOK, RowsAreOfMembers, KYCRows, NoRow,
   Versions, Submissions

LEMMA TypedAlways == Spec => []Typed
BY TypedInit, TypedStep, PTL DEF Spec

\* The tables hold what their columns allow, tokens and submissions belong to
\* accounts, and no score is asked for a submission that was never made.
THEOREM TypeCorrect == Spec => []TypeOK
<1>1. Typed => TypeOK
  BY DEF Typed
<1> QED
  BY <1>1, TypedAlways, PTL

-----------------------------------------------------------------------------
(* Membership: decisions.                                                  *)

LEMMA PromotedStep == Typed /\ PromotedByApproval /\ [Next]_vars => PromotedByApproval'
<1> SUFFICES ASSUME Typed, PromotedByApproval, [Next]_vars,
                    NEW v \in Members, kyc'[v].status = "APPROVED"
             PROVE  role'[v] = kyc'[v].target
  BY DEF PromotedByApproval
<1> USE DEF Typed, TypeOK
<1>1. ASSUME NEW u \in Members, NEW asked \in AskedRoles,
             NEW accountType \in {"personal", "commercial"},
             Register(u, asked, accountType)
      PROVE  role'[v] = kyc'[v].target
  <2>1. role[u] = "none" /\ kyc'[v] = kyc[v] /\ (v # u => role'[v] = role[v])
    BY <1>1 DEF Register, InitProfileAndWallet
  <2>2. v # u
    BY <2>1 DEF RowsAreOfMembers
  <2> QED
    BY <2>1, <2>2 DEF PromotedByApproval
<1>2. ASSUME NEW u \in Members, NEW target \in RequestedRoles, SubmitUserKYC(u, target)
      PROVE  role'[v] = kyc'[v].target
  BY <1>2 DEF SubmitUserKYC, SubmittedRow, account, PromotedByApproval
<1>3. ASSUME NEW u \in Members, NEW decision \in Decisions, ReviewKYC(u, decision)
      PROVE  role'[v] = kyc'[v].target
  <2>1. CASE v = u
    <3>1. kyc'[u].status = decision /\ kyc'[u].target = kyc[u].target
      BY <1>3 DEF ReviewKYC, KYCRows
    <3> QED
      BY <1>3, <2>1, <3>1 DEF ReviewKYC, UpdateUserRole
  <2>2. CASE v # u
    BY <1>3, <2>2 DEF ReviewKYC, UpdateUserRole, PromotedByApproval
  <2> QED
    BY <2>1, <2>2
<1>4. ASSUME NEW s \in verifying, SaveKYCAIResult(s)
      PROVE  role'[v] = kyc'[v].target
  <2>1. s.member \in Members
    BY DEF Submissions
  <2>2. kyc'[v].status = kyc[v].status /\ kyc'[v].target = kyc[v].target
    BY <1>4, <2>1 DEF SaveKYCAIResult, KYCRows
  <2> QED
    BY <1>4, <2>2 DEF SaveKYCAIResult, account, PromotedByApproval
<1>5. ASSUME role' = role, kyc' = kyc
      PROVE  role'[v] = kyc'[v].target
  BY <1>5 DEF PromotedByApproval
<1> QED
  BY <1>1, <1>2, <1>3, <1>4, <1>5
     DEF Next, Login, TokenExpires, VerifyIdentityFails, account, vars

\* An approved row and the role always agree, however submissions, reviews,
\* scores and old tokens cross (ReviewKYC promotes in the unit of work that
\* decides).
THEOREM PromotionCorrect == Spec => []PromotedByApproval
<1>1. Init => PromotedByApproval
  BY DEF Init, PromotedByApproval, NoRow
<1> QED
  BY <1>1, TypedAlways, PromotedStep, PTL DEF Spec

\* One step changes a decision only by a new submission, and a role only by an
\* approval.
LEMMA DecisionStep ==
  Typed /\ [Next]_vars =>
    \A u \in Members :
      /\ kyc[u].status \in Decisions /\ kyc'[u].status # kyc[u].status =>
           kyc'[u].status = "PENDING" /\ kyc'[u].version = kyc[u].version + 1
      /\ role[u] \notin {"none", role'[u]} =>
           kyc[u].status = "PENDING" /\ kyc'[u].status = "APPROVED"
<1> DEFINE Stands(u) ==
      /\ kyc[u].status \in Decisions /\ kyc'[u].status # kyc[u].status =>
           kyc'[u].status = "PENDING" /\ kyc'[u].version = kyc[u].version + 1
      /\ role[u] \notin {"none", role'[u]} =>
           kyc[u].status = "PENDING" /\ kyc'[u].status = "APPROVED"
<1> SUFFICES ASSUME Typed, [Next]_vars, NEW v \in Members
             PROVE  Stands(v)
  OBVIOUS
<1> USE DEF Typed, TypeOK
<1>1. ASSUME NEW u \in Members, NEW asked \in AskedRoles,
             NEW accountType \in {"personal", "commercial"},
             Register(u, asked, accountType)
      PROVE  Stands(v)
  BY <1>1 DEF Register, InitProfileAndWallet
<1>2. ASSUME NEW u \in Members, NEW target \in RequestedRoles, SubmitUserKYC(u, target)
      PROVE  Stands(v)
  BY <1>2 DEF SubmitUserKYC, SubmittedRow, account
<1>3. ASSUME NEW u \in Members, NEW decision \in Decisions, ReviewKYC(u, decision)
      PROVE  Stands(v)
  <2>1. CASE v = u
    <3>1. kyc[u].status = "PENDING" /\ kyc'[u].status = decision
      BY <1>3 DEF ReviewKYC, KYCRows
    <3>2. role'[u] # role[u] => decision = "APPROVED"
      BY <1>3 DEF ReviewKYC
    <3> QED
      BY <2>1, <3>1, <3>2 DEF Decisions
  <2>2. CASE v # u
    BY <1>3, <2>2 DEF ReviewKYC, UpdateUserRole
  <2> QED
    BY <2>1, <2>2
<1>4. ASSUME NEW s \in verifying, SaveKYCAIResult(s)
      PROVE  Stands(v)
  <2>1. s.member \in Members
    BY DEF Submissions
  <2>2. kyc'[v].status = kyc[v].status
    BY <1>4, <2>1 DEF SaveKYCAIResult, KYCRows
  <2> QED
    BY <1>4, <2>2 DEF SaveKYCAIResult, account
<1>5. ASSUME role' = role, kyc' = kyc
      PROVE  Stands(v)
  BY <1>5
<1> QED
  BY <1>1, <1>2, <1>3, <1>4, <1>5
     DEF Next, Login, TokenExpires, VerifyIdentityFails, account, vars

\* What an administrator has decided stands until the member submits again,
\* and nobody's role changes without an approval (the status is read under the
\* row lock of ReviewKYC).
THEOREM DecisionCorrect == Spec => DecisionStands
<1> USE DEF DecisionStands
<1> QED
  BY TypedAlways, DecisionStep, PTL DEF Spec

-----------------------------------------------------------------------------
(* Membership: scores.                                                     *)

\* A request that waits for its score has the newest submission of its member,
\* or its submission has been replaced meanwhile.
WaitingIsNewest ==
  \A s \in verifying : s.version = kyc[s.member].version \/ s \in overtaken

LEMMA ScoreStep ==
  Typed /\ WaitingIsNewest /\ ScoreOfThisSubmission /\ [Next]_vars =>
    WaitingIsNewest' /\ ScoreOfThisSubmission'
<1> DEFINE Scored(u) == \/ kyc[u].score \in {0, kyc[u].version}
                        \/ [member |-> u, version |-> kyc[u].score] \in overtaken
<1> SUFFICES ASSUME Typed, WaitingIsNewest, ScoreOfThisSubmission, [Next]_vars
             PROVE  WaitingIsNewest' /\ ScoreOfThisSubmission'
  OBVIOUS
<1> USE DEF Typed, TypeOK, Submissions
<1>1. ASSUME NEW u \in Members, NEW target \in RequestedRoles, SubmitUserKYC(u, target)
      PROVE  WaitingIsNewest' /\ ScoreOfThisSubmission'
  <2> DEFINE new == [member |-> u, version |-> kyc[u].version + 1]
  <2>1. /\ kyc' = [kyc EXCEPT ![u] = SubmittedRow(u, target)]
        /\ verifying' = verifying \cup {new}
        /\ overtaken' = overtaken \cup {s \in verifying : s.member = u}
    BY <1>1 DEF SubmitUserKYC
  <2>2. ASSUME NEW s \in verifying'
        PROVE  s.version = kyc'[s.member].version \/ s \in overtaken'
    <3>1. CASE s = new
      BY <2>1, <3>1 DEF SubmittedRow
    <3>2. CASE s # new
      BY <2>1, <3>2 DEF WaitingIsNewest
    <3> QED
      BY <3>1, <3>2
  <2>3. ASSUME NEW v \in Members
        PROVE  Scored(v)'
    BY <2>1 DEF SubmittedRow, ScoreOfThisSubmission
  <2> QED
    BY <2>2, <2>3 DEF WaitingIsNewest, ScoreOfThisSubmission
<1>2. ASSUME NEW u \in Members, NEW decision \in Decisions, ReviewKYC(u, decision)
      PROVE  WaitingIsNewest' /\ ScoreOfThisSubmission'
  <2>1. /\ \A v \in Members : /\ kyc'[v].version = kyc[v].version
                              /\ kyc'[v].score = kyc[v].score
        /\ UNCHANGED <<verifying, overtaken>>
    BY <1>2 DEF ReviewKYC, KYCRows
  <2> QED
    BY <2>1 DEF WaitingIsNewest, ScoreOfThisSubmission
<1>3. ASSUME NEW s \in verifying, SaveKYCAIResult(s)
      PROVE  WaitingIsNewest' /\ ScoreOfThisSubmission'
  <2>1. s.member \in Members /\ s = [member |-> s.member, version |-> s.version]
    OBVIOUS
  <2>2. /\ \A v \in Members : kyc'[v].version = kyc[v].version
        /\ \A v \in Members \ {s.member} : kyc'[v].score = kyc[v].score
        /\ kyc'[s.member].score = s.version
        /\ verifying' \subseteq verifying
        /\ overtaken' = overtaken
    BY <1>3, <2>1 DEF SaveKYCAIResult, KYCRows
  <2>3. Scored(s.member)'
    BY <2>1, <2>2 DEF WaitingIsNewest
  <2>4. ASSUME NEW v \in Members, v # s.member
        PROVE  Scored(v)'
    BY <2>2, <2>4 DEF ScoreOfThisSubmission
  <2> QED
    BY <2>2, <2>3, <2>4 DEF WaitingIsNewest, ScoreOfThisSubmission
<1>4. ASSUME kyc' = kyc, verifying' \subseteq verifying, overtaken' = overtaken
      PROVE  WaitingIsNewest' /\ ScoreOfThisSubmission'
  BY <1>4 DEF WaitingIsNewest, ScoreOfThisSubmission
<1> QED
  BY <1>1, <1>2, <1>3, <1>4
     DEF Next, Register, Login, TokenExpires, VerifyIdentityFails, account, vars

\* The score shown with a submission is its own, unless the member submitted
\* again while an earlier submission was being scored (SaveKYCAIResult finds
\* the row by its member).
THEOREM ScoreCorrect == Spec => []ScoreOfThisSubmission
<1>1. Init => WaitingIsNewest /\ ScoreOfThisSubmission
  BY DEF Init, WaitingIsNewest, ScoreOfThisSubmission, NoRow
<1> QED
  BY <1>1, TypedAlways, ScoreStep, PTL DEF Spec

-----------------------------------------------------------------------------
(* Idempotency keys: one run and one answer for each key.                  *)

\* What IdempotencyTypeOK says of the variables one by one.
RequestTypes ==
  /\ record \in [Keys -> {Free, Locked} \cup {Answer(n) : n \in Runs}]
  /\ request \in [Requests -> [stage : Stages, key : Keys \cup {NoKey}]]
  /\ runs \in [Keys -> Runs \cup {0}]
  /\ answers \in [Keys -> SUBSET ({Locked} \cup {Answer(n) : n \in Runs})]
  /\ expiries \in [Keys -> 0 .. MaxExpiries]

\* A request that is past its first round trip has a key; the one that runs the
\* handler for a key is alone, and the key is locked.
OneHolder ==
  /\ \A r \in Requests : request[r].stage # "idle" => request[r].key \in Keys
  /\ \A k \in Keys : \A r \in Holders(k) :
       record[k] = Locked /\ \A q \in Holders(k) : q = r

\* The runs of a key: one for each expiry and one more, which the key's record
\* or its holder accounts for.
RunsCounted ==
  \A k \in Keys :
    /\ runs[k] <= expiries[k] + 1
    /\ record[k] = Free => runs[k] <= expiries[k]
    /\ \A r \in Holders(k) : /\ request[r].stage = "executing" => runs[k] <= expiries[k]
                             /\ request[r].stage = "saving" => runs[k] >= 1

\* Nobody has been told anything but what a run has answered.
AnswersKnown ==
  \A k \in Keys :
    /\ answers[k] \subseteq {Answer(n) : n \in 1 .. runs[k]}
    /\ record[k] \in {Free, Locked} \cup {Answer(n) : n \in 1 .. runs[k]}

KeyInv == RequestTypes /\ OneHolder /\ RunsCounted /\ AnswersKnown

LEMMA KeyInit == IdempotencyInit => KeyInv
<1> SUFFICES ASSUME IdempotencyInit PROVE KeyInv
  OBVIOUS
<1> USE IdempotencyAssumption DEF IdempotencyInit
<1>1. RequestTypes
  BY DEF RequestTypes, Idle, Stages
<1>2. OneHolder /\ RunsCounted
  BY DEF OneHolder, RunsCounted, Holders, Idle
<1>3. AnswersKnown
  BY DEF AnswersKnown
<1> QED
  BY <1>1, <1>2, <1>3 DEF KeyInv

LEMMA CheckOrLockKeeps ==
  ASSUME KeyInv, NEW r \in Requests, NEW k \in Keys, CheckOrLock(r, k)
  PROVE  KeyInv'
<1> USE IdempotencyAssumption DEF KeyInv, CheckOrLock, Goto
<1>1. RequestTypes'
  BY DEF RequestTypes, Stages
<1>2. OneHolder'
  <2>1. CASE record[k] = Free
    <3>1. Holders(k) = {}
      BY <2>1 DEF OneHolder, Free, Locked
    <3>2. Holders(k)' = {r}
      BY <2>1, <3>1 DEF RequestTypes, Holders
    <3>3. \A j \in Keys \ {k} : Holders(j)' = Holders(j)
      BY <2>1 DEF RequestTypes, Holders, Idle
    <3> QED
      BY <2>1, <3>2, <3>3 DEF RequestTypes, OneHolder
  <2>2. CASE record[k] # Free
    BY <2>2 DEF RequestTypes, OneHolder, Holders, Idle
  <2> QED
    BY <2>1, <2>2
<1>3. RunsCounted'
  BY DEF RequestTypes, RunsCounted, Holders, Idle, Free, Locked
<1>4. AnswersKnown'
  BY DEF RequestTypes, AnswersKnown
<1> QED
  BY <1>1, <1>2, <1>3, <1>4

LEMMA ReplayKeeps ==
  ASSUME KeyInv, NEW r \in Requests, Replay(r)
  PROVE  KeyInv'
<1> USE IdempotencyAssumption DEF KeyInv, Replay, End
<1> DEFINE k == request[r].key
<1>0. k \in Keys
  BY DEF OneHolder
<1>1. RequestTypes'
  BY <1>0 DEF RequestTypes, Stages, Idle
<1>2. OneHolder'
  BY DEF RequestTypes, OneHolder, Holders, Idle
<1>3. RunsCounted'
  BY DEF RequestTypes, RunsCounted, Holders, Idle
<1>4. AnswersKnown'
  BY <1>0 DEF RequestTypes, AnswersKnown
<1> QED
  BY <1>1, <1>2, <1>3, <1>4

LEMMA ExecuteKeeps ==
  ASSUME KeyInv, NEW r \in Requests, Execute(r)
  PROVE  KeyInv'
<1> USE IdempotencyAssumption DEF KeyInv, Execute, Goto
<1> DEFINE k == request[r].key
<1>0. k \in Keys /\ r \in Holders(k)
  BY DEF OneHolder, Holders
<1>n. /\ runs[k] \in Nat /\ expiries[k] \in 0 .. MaxExpiries /\ runs[k] <= expiries[k]
      /\ runs[k] + 1 \in Runs
  BY <1>0 DEF RequestTypes, RunsCounted, Runs
<1>1. RequestTypes'
  BY <1>0, <1>n DEF RequestTypes, Stages
<1>2. OneHolder'
  BY <1>0 DEF RequestTypes, OneHolder, Holders
<1>3. RunsCounted'
  <2>1. /\ runs' = [runs EXCEPT ![k] = runs[k] + 1]
        /\ request' = [request EXCEPT ![r] = [stage |-> "saving", key |-> k]]
        /\ UNCHANGED <<record, expiries>>
    OBVIOUS
  <2>2. record[k] = Locked /\ \A q \in Holders(k) : q = r
    BY <1>0 DEF OneHolder
  <2> HIDE DEF k
  <2> SUFFICES ASSUME NEW j \in Keys
               PROVE  /\ runs'[j] <= expiries'[j] + 1
                      /\ record'[j] = Free => runs'[j] <= expiries'[j]
                      /\ \A q \in Holders(j)' :
                           /\ request'[q].stage = "executing" => runs'[j] <= expiries'[j]
                           /\ request'[q].stage = "saving" => runs'[j] >= 1
    BY DEF RunsCounted
  <2> QED
    BY <2>1, <2>2, <1>0, <1>n DEF RequestTypes, RunsCounted, Holders, Free, Locked
<1>4. AnswersKnown'
  BY <1>0, <1>n DEF RequestTypes, AnswersKnown, Runs
<1> QED
  BY <1>1, <1>2, <1>3, <1>4

LEMMA SaveKeeps ==
  ASSUME KeyInv, NEW r \in Requests, SaveResponse(r)
  PROVE  KeyInv'
<1> USE IdempotencyAssumption DEF KeyInv, SaveResponse, End
<1> DEFINE k == request[r].key
<1>0. k \in Keys /\ r \in Holders(k)
  BY DEF OneHolder, Holders
<1>n. runs[k] \in Runs /\ runs[k] \in 1 .. runs[k]
  BY <1>0 DEF RequestTypes, RunsCounted, Runs
<1>1. RequestTypes'
  BY <1>0, <1>n DEF RequestTypes, Stages, Idle
<1>2. OneHolder'
  BY <1>0 DEF RequestTypes, OneHolder, Holders, Idle
<1>3. RunsCounted'
  BY <1>0 DEF RequestTypes, RunsCounted, Holders, Idle, Answer, Free
<1>4. AnswersKnown'
  BY <1>0, <1>n DEF RequestTypes, AnswersKnown
<1> QED
  BY <1>1, <1>2, <1>3, <1>4

LEMMA BreakOffKeeps ==
  ASSUME KeyInv, NEW r \in Requests, BreakOff(r)
  PROVE  KeyInv'
<1> USE IdempotencyAssumption DEF KeyInv, BreakOff, End
<1>1. RequestTypes'
  BY DEF RequestTypes, Stages, Idle
<1>2. OneHolder'
  BY DEF RequestTypes, OneHolder, Holders, Idle
<1>3. RunsCounted'
  BY DEF RequestTypes, RunsCounted, Holders, Idle
<1>4. AnswersKnown'
  BY DEF AnswersKnown
<1> QED
  BY <1>1, <1>2, <1>3, <1>4

LEMMA ExpireKeeps ==
  ASSUME KeyInv, NEW k \in Keys, Expire(k)
  PROVE  KeyInv'
<1> USE IdempotencyAssumption DEF KeyInv, Expire
<1>1. RequestTypes'
  BY DEF RequestTypes
<1>2. OneHolder'
  BY DEF RequestTypes, OneHolder, Holders
<1>3. RunsCounted'
  BY DEF RequestTypes, RunsCounted, Holders, Runs
<1>4. AnswersKnown'
  BY DEF RequestTypes, AnswersKnown
<1> QED
  BY <1>1, <1>2, <1>3, <1>4

LEMMA KeyStep == KeyInv /\ [IdempotencyNext]_idempotencyVars => KeyInv'
<1> SUFFICES ASSUME KeyInv, [IdempotencyNext]_idempotencyVars
             PROVE  KeyInv'
  OBVIOUS
<1>1. CASE UNCHANGED idempotencyVars
  BY <1>1 DEF idempotencyVars, KeyInv, RequestTypes, OneHolder, RunsCounted, AnswersKnown, Holders
<1> QED
  BY <1>1, CheckOrLockKeeps, ReplayKeeps, ExecuteKeeps, SaveKeeps, BreakOffKeeps, ExpireKeeps
     DEF IdempotencyNext, IdempotencyMiddleware

LEMMA KeyCorrect == IdempotencySpec => []KeyInv
BY KeyInit, KeyStep, PTL DEF IdempotencySpec

\* Requests race for a key and break off anywhere, and the key is still locked
\* for exactly the one that runs the handler.
THEOREM KeyTypeCorrect == IdempotencySpec => []IdempotencyTypeOK
<1>1. KeyInv => IdempotencyTypeOK
  <2> SUFFICES ASSUME KeyInv, NEW k \in Keys, Holders(k) # {}
               PROVE  record[k] = Locked /\ Cardinality(Holders(k)) = 1
    BY DEF KeyInv, RequestTypes, IdempotencyTypeOK
  <2>1. PICK r \in Holders(k) : TRUE
    OBVIOUS
  <2>2. record[k] = Locked /\ Holders(k) = {r}
    BY <2>1 DEF KeyInv, OneHolder
  <2> QED
    BY <2>2, FS_Singleton
<1> QED
  BY <1>1, KeyCorrect, PTL

\* A financial operation runs once per key, and once more at most for each time
\* the store forgot the key, for any number of clients, retries and breakdowns.
THEOREM ExecutedOnceCorrect == IdempotencySpec => []ExecutedOnce
<1>1. KeyInv => ExecutedOnce
  BY DEF KeyInv, RequestTypes, RunsCounted, Runs, ExecutedOnce
<1> QED
  BY <1>1, KeyCorrect, PTL

\* As long as the store remembers a key, everybody who sends it gets the answer
\* of its only run; nobody ever gets the empty answer of a run in flight.
THEOREM OneAnswerCorrect == IdempotencySpec => []OneAnswer
<1>1. KeyInv => OneAnswer
  <2> SUFFICES ASSUME KeyInv, NEW k \in Keys
               PROVE  /\ Locked \notin answers[k]
                      /\ expiries[k] = 0 => Cardinality(answers[k]) <= 1
    BY DEF OneAnswer
  <2>1. /\ runs[k] \in Nat /\ expiries[k] \in Nat /\ runs[k] <= expiries[k] + 1
        /\ answers[k] \subseteq {Answer(n) : n \in 1 .. runs[k]}
    BY IdempotencyAssumption DEF KeyInv, RequestTypes, RunsCounted, AnswersKnown, Runs
  <2>2. Locked \notin answers[k]
    BY <2>1 DEF Locked, Answer
  <2>3. ASSUME expiries[k] = 0
        PROVE  Cardinality(answers[k]) <= 1
    <3>1. answers[k] \subseteq {Answer(1)}
      BY <2>1, <2>3
    <3>2. IsFiniteSet({Answer(1)}) /\ Cardinality({Answer(1)}) = 1
      BY FS_Singleton
    <3> QED
      BY <3>1, <3>2, FS_Subset
  <2> QED
    BY <2>2, <2>3
<1> QED
  BY <1>1, KeyCorrect, PTL
=============================================================================
