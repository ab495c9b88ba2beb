SPECIFICATION FairSpec
CONSTANTS
  e1 = e1
  e2 = e2
  p1 = p1
  p2 = p2
  t1 = t1
  t2 = t2
  l1 = l1
  Ids = {e1, e2}
  Prints = {p1, p2}
  Records = {t1, t2}
  Loads = {l1}
  CacheRoom = 1
  Asks <- RepeatOrOther
  QueueSize = 1
  WorkerCount = 1
  MaxUpsets = 1
  NoEntry = NoEntry
  NoRecord = NoRecord
  NoBill = NoBill
INVARIANTS TypeOK CountedOnce
PROPERTIES BilledAsLedger CacheSettles StopDrains
