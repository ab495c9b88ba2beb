SPECIFICATION FairSpec
CONSTANTS
  r1 = r1
  r2 = r2
  b1 = b1
  b2 = b2
  p1 = p1
  p2 = p2
  Requests = {r1}
  Refreshers = {b1}
  Procs = {p1}
  ProcOf <- OneProc
  MaxGen = 1
  MaxMishaps = 0
  KeyTTLRuns = FALSE
  NoWorker = NoWorker
PROPERTIES DueTokenRefreshed
