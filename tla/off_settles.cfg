CONSTANTS
  Txn = {a, b}
  Tab = {p, q}
  Stock = 2
  Reserve = 0
  Crashes = FALSE
  CutOffs = TRUE
  MaxDrops = 2
SPECIFICATION FairSpec
CHECK_DEADLOCK FALSE
INVARIANTS TypeOK
PROPERTIES StoredIsSettled
