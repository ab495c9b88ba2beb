SPECIFICATION Spec
CONSTANTS
  c1 = c1
  c2 = c2
  c3 = c3
  f1 = f1
  f2 = f2
  Calls = {c1, c2, c3}
  Fingerprints = {f1, f2}
  MaxAge = 3
  MaxClaim = 1
  TTL = 4
  Lease = 2
  Backoff = 1
  MaxFaults = 1
  MaxCrashes = 1
  NoRecord = NoRecord
  NoCall = NoCall
INVARIANTS TypeOK OneAtATime RepeatHasCause ReplayTruthful
SYMMETRY Symmetric
