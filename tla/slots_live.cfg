SPECIFICATION FairSpec
CONSTANTS
  r1 = r1
  r2 = r2
  u1 = u1
  a1 = a1
  i1 = i1
  i2 = i2
  i3 = i3
  Requests = {r1}
  Users = {u1}
  Accounts = {a1}
  SlotIds = {i1, i2, i3}
  UserOf <- OneUser
  Limit <- LimitAccounts
  MaxWait <- WaitLimits
  p1 = p1
  p2 = p2
  Procs = {p1, p2}
  NoProc = NoProc
  OwnerOf <- Owners
  SlotTTL = 1
  WaitTTL = 1
  NoId = NoId
  NoSlot = NoSlot
  NoKey = NoKey
  KeyTTLRuns = TRUE
  MaxSwitches = 1
  MaxMishaps = 1
PROPERTIES EveryRequestEnds
