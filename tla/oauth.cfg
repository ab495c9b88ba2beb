SPECIFICATION FairSpec
CONSTANTS
  r1 = r1
  r2 = r2
  b1 = b1
  b2 = b2
  p1 = p1
  p2 = p2
  Requests = {r1}
  Refreshers = {b1, b2}
  Procs = {p1, p2}
  ProcOf <- TwoProcs
  MaxGen = 1
  MaxMishaps = 2
  KeyTTLRuns = TRUE
  NoWorker = NoWorker
INVARIANTS TypeOK TokenKept NotCondemned
PROPERTIES EveryRequestEnds DueTokenRefreshed
