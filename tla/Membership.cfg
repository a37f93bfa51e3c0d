\* Two members, each submitting twice with tokens that may be
\* older than its role.
SPECIFICATION Spec
CONSTANTS
  Members = {u1, u2}
  AskedRoles = {"", "SELLER", "ADMIN"}
  RequestedRoles = {"VERIFIED_MERCHANT", "EVENT_ORGANIZER"}
  MaxSubmissions = 2
SYMMETRY Symmetry
INVARIANTS TypeOK PromotedByApproval ScoreOfThisSubmission
PROPERTIES DecisionStands
