\* Three requests at a time, two keys and a store that forgets each twice.  A
\* store that never forgets (PostgreSQL) takes a subset of these steps.
SPECIFICATION IdempotencySpec
CONSTANTS
  Keys = {k1, k2}
  Requests = {r1, r2, r3}
  NoKey = NoKey
  Redis = TRUE
  MaxExpiries = 2
SYMMETRY Symmetry
INVARIANTS IdempotencyTypeOK ExecutedOnce OneAnswer
