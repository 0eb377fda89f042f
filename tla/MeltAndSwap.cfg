CONSTANTS
  ln1 = ln1
  ln2 = ln2
  btc = btc
  old = old
  None = None
  Quotes = {ln1, ln2, old}
  Handlers = {h1, h2}
  Proofs = {p1, p2}
  Swaps = {w1}
  Txs <- MCTxs
  Worth <- MCWorth
  InputFees <- MCInputFees
  Method <- MCMethod
  Request <- MCRequest
  Amount <- MCAmount
  Reserve <- MCReserve
  Fees = {0, 1}
  Lossy = {"commit"}
  SendBound = 2
  Deaths = TRUE
SPECIFICATION Spec
SYMMETRY Symmetry
INVARIANTS PaidOnce PaidIsCovered
PROPERTY ImplementsRedemption
CHECK_DEADLOCK FALSE
