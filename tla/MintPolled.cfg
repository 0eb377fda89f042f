CONSTANTS
  free = free
  vague = vague
  legacy1 = legacy1
  legacy2 = legacy2
  btc1 = btc1
  btc2 = btc2
  bolt = bolt
  f1 = f1
  f2 = f2
  f3 = f3
  s1 = s1
  s2 = s2
  s3 = s3
  b1 = b1
  b2 = b2
  inv = inv
  None = None
  Quotes = {free, btc1, btc2}
  Deposits = {f1, f2, b1}
  Handlers = {h1}
  Addresses <- MCAddresses
  Canonical = "shared"
  Method <- MCMethod
  Unit <- MCUnit
  Asked <- MCAsked
  Request <- MCRequest
  PaidTo <- MCPaidTo
  Value <- MCValue
  Totals = {1, 2}
  Reorgable = {}
  Withdrawable = {}
  IssueBound = 3
SPECIFICATION WalletSpec
PROPERTY PaidQuoteIsCredited
