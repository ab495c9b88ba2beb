SPECIFICATION FairSpec
CONSTANTS
  r1 = r1
  r2 = r2
  Requests = {r1, r2}
  LockTTL = 2
  Delay = 1
  MaxAttempts = 2
  MaxFaults = 1
  MaxTTLLosses = 1
  KeyTTLRuns = TRUE
  NoId = NoId
INVARIANTS TypeOK Serialized SpacedForwards NoOrphan
PROPERTIES LockKept EveryRequestEnds OrphanGoes
