\* One event with a member and an outside vendor, run to its end.
SPECIFICATION Spec
CONSTANTS
  Users = {eo, v1}
  VerifiedSellers = {}
  Txs = {t1}
  Callers = {c1}
  Payouts = {p1, p2}
  Vendors = {v1}
  External = External
  NoTerms = NoTerms
  NoInvoice = NoInvoice
  NoJob = NoJob
  InitialAmount = 100
  InitialBalance <- MCInitialBalance
  Freezable = {eo, v1}
  BaseAmounts = {100}
  PledgeAmounts = {0}
  ClaimAmounts = {40, 55}
  FeeGoodsRekberPay = 2
  FeeGoodsNonRekberPay = 3
  MaxMemberEventLimit = 100
  FailOpen = FALSE
INVARIANTS ClosedDealsConserveMoney
