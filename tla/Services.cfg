SPECIFICATION ServicesSpec
CONSTANTS
  WordBase = 4
  Millis <- MCMillis
  Satoshi = 8
  Digit = 4
  LengthByte = 32
  Order = 7
  Key <- MCKey
  Secrets <- MCSecrets
  Y <- MCY
  Arguments <- MCArguments
  KnownTags = {1, 2}
  NoAnswer = NoAnswer
  Digest <- MCDigest
  MaxIndex = 10
  NoQuote = NoQuote
  Fees = {0, 1}
  Modes = {"kms"}
  Requests = {r1, r2}
  Files = 3
  Instances = {n1, n2}
  UnitOf <- MCUnitOf
  MaxFunds <- MCMaxFunds
  MaxTokens = 2
  MaxFee = 1
  MaxLost = 1
  KmsCalls = {k1, k2}
  Lifetimes = {3, 5}
  Margin = 2
  AnswerDelay = 1
  SendDelay = 1
  MaxTime = 10
  Lookback = 4
  LogDelay = 2
  MaxFailures = 2
  MaxRuns = 7
  MaxEvents = 1
  Items = {i1, i2}
  MaxChanges = 2
  Flows = {f1, f2}
INVARIANTS
  TransactionsBalance CodecsRoundTrip ChangeAddsUp InputsAreGenuine KeysMatchCoins
  RetiredAfterRestart AppliedOnceInOrder UnitIsBacked TokenIsValid NothingIsMissed
  Informed
CHECK_DEADLOCK FALSE
