\* Two members, two top-ups notified in any order and any number of times, two
\* withdrawals trued up by any cost.
SPECIFICATION FairSpec
CONSTANTS
  Users = {u1, u2}
  Orders = {o1, o2}
  Withdrawals = {w1, w2}
  TopUpAmounts = {0, 3}
  WithdrawAmounts = {0, 2}
  WithdrawFeeToUser = 2
  Estimates = {1, 3}
  ActualCosts <- MCActualCosts
  NoCost = NoCost
  NoRow = NoRow
  InitialAmount = 6
  InitialBalance <- MCInitialBalance
  MaxCredits = 2
INVARIANTS TypeOK BalanceReconciles FeesTrueUp CreditsArePaid RepeatsCreditOnce
PROPERTIES PaidTopUpsAreCredited
