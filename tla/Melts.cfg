CONSTANTS
  ln1 = ln1
  ln2 = ln2
  btc = btc
  old = old
  None = None
  Quotes = {ln1, btc}
  Handlers = {h1, h2}
  Proofs = {p1, p2, p3}
  Swaps = {}
  Txs <- MCTxs
  Worth <- MCWorth
  InputFees <- MCInputFees
  Method <- MCMethod
  Request <- MCRequest
  Amount <- MCAmount
  Reserve <- MCReserve
  Fees = {0, 1}
  Lossy = {"commit", "payment"}
  SendBound = 2
  Deaths = TRUE
SPECIFICATION Spec
SYMMETRY Symmetry
INVARIANTS OneOwner SettledIsCovered
CHECK_DEADLOCK FALSE
