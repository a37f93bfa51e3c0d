\* Two deals, a client and the worker releasing them at the same time, disputes,
\* frozen wallets and a crash, under the fairness of the worker.  One member can
\* just pay for both deals, to itself or to the other; the other one for none
\* before it has sold and been paid.
SPECIFICATION FairSpec
CONSTANTS
  Users = {u1, u2}
  VerifiedSellers = {u2}
  Txs = {t1, t2}
  Callers = {c1}
  Worker = Worker
  NoTx = NoTx
  NoTerms = NoTerms
  InitialAmount = 5
  BuyingPower = 49
  InitialBalance <- MCInitialBalance
  Freezable = {u1, u2}
  BaseAmounts = {0, 25}
  ShippingFees = {1}
  SellerTiers = {"SILVER"}
  FeeGoodsRekberPay = 2
  FeeGoodsNonRekberPay = 3
  MaxMemberEventLimit = 25
  FailOpen = FALSE
  MaxCrashes = 1
INVARIANTS TypeOK LedgerMatchesStatus AuditedOnce EscrowMatches RevenueMatches WalletsReconcile
PROPERTIES SettlementAuthorised KeepsPromise ExpiredDealsAreReleased
