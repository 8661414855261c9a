CONSTANTS
  i1 = i1  i2 = i2
  Item = {i1, i2}
  Terminal = {t1, t2}
  Worker = {w1, w2}
  Sale = {s1, s2}
  Basket <- MCBasket
  Amount = {1}
  Level = {0, 1, 2, 3}
  Opening <- Plenty
  Kinds = {"create", "void", "refund", "hold", "edit", "adjust", "itemsave"}
  MaxRequests = 3
  NoRow = NoRow  Nobody = Nobody  NoSale = NoSale
SPECIFICATION FairSpec
INVARIANTS TypeOK LockInvariant NumbersConsecutive
PROPERTIES ImplementsLedger Answered
