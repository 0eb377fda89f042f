CONSTANTS
  free = free
  vague = vague
  legacy1 = legacy1
  legacy2 = legacy2
  btc1 = btc1
  btc2 = btc2
  bolt = bolt
  f1 = f1
  f2 = f2
  f3 = f3
  s1 = s1
  s2 = s2
  s3 = s3
  b1 = b1
  b2 = b2
  inv = inv
  None = None
  Quotes = {vague, legacy1, legacy2}
  Deposits = {s1, s2, s3}
  Handlers = {h1, h2}
  Addresses <- MCAddresses
  Canonical = "shared"
  Method <- MCMethod
  Unit <- MCUnit
  Asked <- MCAsked
  Request <- MCRequest
  PaidTo <- MCPaidTo
  Value <- MCValue
  Totals = {1, 2}
  Reorgable = {}
  Withdrawable = {s1}
  IssueBound = 3
SPECIFICATION Spec
SYMMETRY Symmetry
INVARIANTS MintedAtMostOnce FixedUnitIsPaid ClaimedWherePaid AmbiguousNeverCredited
