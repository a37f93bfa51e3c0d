\* One top-up: is it credited once whatever the order of its notifications?
SPECIFICATION Spec
CONSTANTS
  Users = {u1}
  Orders = {o1}
  Withdrawals = {}
  TopUpAmounts = {3}
  WithdrawAmounts = {}
  WithdrawFeeToUser = 2
  Estimates = {1}
  ActualCosts <- MCActualCosts
  NoCost = NoCost
  NoRow = NoRow
  InitialAmount = 5
  InitialBalance <- MCInitialBalance
  MaxCredits = 2
INVARIANTS CreditedOnce
