CONSTANTS
  Txn = {a, b}
  Tab = {p, q}
  Stock = 3
  Reserve = 0
  Crashes = TRUE
  CutOffs = TRUE
  MaxDrops = 1
SYMMETRY Sym
SPECIFICATION Spec
CHECK_DEADLOCK FALSE
INVARIANTS SyncedHasSale NoDuplicateSale NoneForgotten
