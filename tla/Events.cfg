\* One event with two pledges and two invoices, two clients paying them in both
\* ways at once, disputes, late invoices and frozen wallets.
SPECIFICATION Spec
CONSTANTS
  Users = {eo, v1}
  VerifiedSellers = {}
  Txs = {t1}
  Callers = {c1, c2}
  Payouts = {p1, p2}
  Vendors = {eo, v1}
  External = External
  NoTerms = NoTerms
  NoInvoice = NoInvoice
  NoJob = NoJob
  InitialAmount = 100
  InitialBalance <- MCInitialBalance
  Freezable = {eo, v1}
  BaseAmounts = {100}
  PledgeAmounts = {0, 40}
  ClaimAmounts = {40, 55}
  FeeGoodsRekberPay = 2
  FeeGoodsNonRekberPay = 3
  MaxMemberEventLimit = 100
  FailOpen = FALSE
SYMMETRY Symmetry
INVARIANTS TypeOK EachPayoutOnce ReleasedMeansSettled
  InternalClaimsWithinEscrow PledgesDrawnDown BooksMatch
