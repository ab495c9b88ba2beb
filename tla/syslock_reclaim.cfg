SPECIFICATION Spec
CONSTANTS
  o1 = o1
  o2 = o2
  o3 = o3
  i1 = i1
  i2 = i2
  Operations = {o1, o2, o3}
  OperationIds = {i1, i2}
  OpId <- Ids
  MaxAge = 6
  MaxClaim = 1
  TTL = 7
  Lease = 6
  RenewInterval = 2
  MaxFaults = 0
  MaxCrashes = 0
  NoRecord = NoRecord
INVARIANTS OneOperation
