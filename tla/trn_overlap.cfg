CONSTANTS
  i1 = i1  i2 = i2  i3 = i3
  Item = {i1, i2, i3}
  Transfer = {t1, t2}
  Worker = {w1, w2}
  Lines <- MCLines
  Reported <- MCReported
  Opening <- MCOpening
  Quiet = {i1}
  NoRow = NoRow
  Nobody = Nobody
SPECIFICATION FairSpec
CHECK_DEADLOCK FALSE
INVARIANTS TypeOK StockInvariant
PROPERTIES FollowsWorkflow ImplementsTransit Answered
