SPECIFICATION Spec
CONSTANTS
  o1 = o1
  o2 = o2
  o3 = o3
  i1 = i1
  i2 = i2
  Operations = {o1, o2, o3}
  OperationIds = {i1, i2}
  OpId <- Ids
  MaxAge = 6
  MaxClaim = 1
  TTL = 8
  Lease = 6
  RenewInterval = 2
  MaxFaults = 1
  MaxCrashes = 1
  NoRecord = NoRecord
INVARIANTS TypeOK InserterAlone LockRecovers
