SPECIFICATION FairSpec
CONSTANTS
  a1 = a1
  a2 = a2
  a3 = a3
  Accounts = {a1, a2, a3}
  MaxSwitches = 3
  MaxSameAccountRetries = 2
  HasFallbackGroup = TRUE
INVARIANTS TypeOK ForwardsBudget
PROPERTIES NoSplice BlockEarned Terminates
