\* Two contracts sold by the same member, to another or to itself, competing
\* for wallets that cannot pay for both, and two clients releasing their
\* milestones, with disputes and frozen wallets.  The commission of 78 is 3,
\* that of its halves 1 each.
SPECIFICATION Spec
CONSTANTS
  Users = {u1, u2}
  VerifiedSellers = {u2}
  Txs = {t1, t2}
  Callers = {c1, c2}
  NoTerms = NoTerms
  NoJob = NoJob
  MaxMilestones = 2
  InitialAmount = 5
  BuyingPower = 75
  InitialBalance <- MCInitialBalance
  Freezable = {u2}
  BaseAmounts = {0, 78}
  MilestoneAmounts = {0, 39, 40}
  FeeGoodsRekberPay = 2
  FeeGoodsNonRekberPay = 3
  MaxMemberEventLimit = 77
  FailOpen = TRUE
SYMMETRY Symmetry
INVARIANTS TypeOK BooksMatch EachMilestoneOnce MilestonesWithinEscrow
PROPERTIES RefundSettles
