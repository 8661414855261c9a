CONSTANTS
  Delivery = {d1}
  Worker = {w1, w2}
  MaxAttempts = 2
  DisableAt = 3
  MaxTasks = 2
  MaxFaults = 1
SPECIFICATION FairSpec
CHECK_DEADLOCK FALSE
INVARIANTS TypeOK RetryInvariant
PROPERTIES RetriesEnd
