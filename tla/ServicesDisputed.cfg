\* One contract of two milestones and one client, disputed while a milestone
\* is being released.
SPECIFICATION Spec
CONSTANTS
  Users = {buyer, seller}
  VerifiedSellers = {}
  Txs = {t1}
  Callers = {c1}
  NoTerms = NoTerms
  NoJob = NoJob
  MaxMilestones = 2
  InitialAmount = 60
  BuyingPower = 0
  InitialBalance <- MCInitialBalance
  Freezable = {buyer, seller}
  BaseAmounts = {40}
  MilestoneAmounts = {20}
  FeeGoodsRekberPay = 2
  FeeGoodsNonRekberPay = 3
  MaxMemberEventLimit = 59
  FailOpen = FALSE
PROPERTIES NoReleaseWhileDisputed
