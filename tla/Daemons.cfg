SPECIFICATION DaemonsSpec
CONSTANTS
  Items = {i1, i2}
  MaxChanges = 1
  Flows = {f1, f2}
  Calls = {c1, c2, c3}
  LockedQuotes = {q1, q2}
  MaxClients = 2
  MaxQuotes = 3
  BatchSize = 2
  Runs = {t1}
  Machines = {m1, m2}
  MaxCertificates = 4
  Oversize = {2}
PROPERTIES EachFilterIsAnswered EveryCallEnds DueQuotesAreLookedAt LastStorageIsKept
CHECK_DEADLOCK FALSE
