\* The daily schedule alone, by the hour; nothing fails.
CONSTANTS
  daily = daily
  manual = manual
  Daily = {daily}
  Manual = {}
  Threshold = 4
  Lifetime = 7
  KionTries = 3
  PutTries = 5
  PerDay = 24
  Horizon = 191
  MaxKey = 2
  KionFaults = {}
SPECIFICATION KionSpec
INVARIANTS RecoveryMarginIsLeft
\* The clock stops at the horizon.
CHECK_DEADLOCK FALSE
