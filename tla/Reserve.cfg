SPECIFICATION FairSpec
CONSTANTS
  own = own  quoted = quoted  small = small  large = large  f1 = f1  f2 = f2
  None = None
  Deposits <- MCDeposits
  Value <- MCValue
  Quoted = {quoted}
  Legacy = {quoted}
  FeeCoins = {f1, f2}
  Withdrawals = {small, large}
  Amount <- MCAmount
INVARIANTS SpentRowIsSpent AffordableIsSelected
PROPERTIES SpentStaysSpent ImplementsTreasury LostReturnIsFound
  WithdrawalGoesOut
CHECK_DEADLOCK FALSE
