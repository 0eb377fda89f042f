CONSTANTS
  ln1 = ln1
  ln2 = ln2
  btc = btc
  old = old
  None = None
  Quotes = {btc}
  Handlers = {h1, h2}
  Proofs = {p1, p2}
  Swaps = {}
  Txs <- MCTxs
  Worth <- MCWorth
  InputFees <- MCInputFees
  Method <- MCMethod
  Request <- MCRequest
  Amount <- MCAmount
  Reserve <- MCReserve
  Fees = {0, 1}
  Lossy = {"payment"}
  SendBound = 2
  Deaths = FALSE
SPECIFICATION Spec
INVARIANT UnpaidIsClean
