INIT KeysetsInit
NEXT KeysetsNext
CONSTANTS
  Fees = {0, 1}
  Modes = {"local", "kms"}
  Requests = {r1, r2}
INVARIANTS MigrationStarts
CHECK_DEADLOCK FALSE
