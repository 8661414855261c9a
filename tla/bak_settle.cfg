CONSTANTS
  f1 = f1  f2 = f2  t1 = t1  g1 = g1  g2 = g2  seg = seg
  Backup = {f1, f2, g1}
  Kind <- MCKind
  File <- MCFile
  Local = local
  Cloud = {r2}
  Worker = {w1, w2}
  MaxBackups = 2
  MaxRestores = 0
  MaxFaults = 1
SPECIFICATION FairSpec
INVARIANT RowSecurityBack
PROPERTY BackupsSettle
CHECK_DEADLOCK FALSE
