SPECIFICATION PolledSpec
CONSTANTS
  a1 = a1
  a2 = a2
  w1 = w1
  w2 = w2
  q1 = q1
  Accounts = {a1, a2}
  Writers = {w1, w2}
  TargetOf <- OneTarget
  Requests = {q1}
  MaxUpsets = 1
PROPERTIES StickyDetects

