CONSTANTS
  Schedule = {1}
  Choices <- MCChoices
  Period <- MCPeriod
  Dates <- MCDates
  NoSuchDay <- MCNoSuchDay
  MaxRetries = 1
  Worker = {w1, w2}
  MaxQueued = 1
  MaxEvents = 1
  Horizon = 2
  None = None
SPECIFICATION FairSpec
INVARIANTS TypeOK NoPeriodSkipped
PROPERTIES StatusMoves NextRunKept DueIsServed Rescheduled
