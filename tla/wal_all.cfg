CONSTANTS
  g1 = g1  g2 = g2
  Customer = {a, b}
  Card = {g1, g2}
  Owned = {g1}
  Worker = {w1, w2}
  Sale = {s1}
  Amount = {1, 2}
  Threshold = 2
  Multiplier <- MCMultiplier
  Opening <- MCOpening
  Value = 2
  Kinds = {"redeem", "give", "transfer", "expire", "credit", "spend", "tier", "edit", "sale", "charge", "resave", "issue", "use", "cancel"}
  MaxRequests = 3
  Nobody = Nobody
SPECIFICATION FairSpec
INVARIANTS TypeOK CreditAccounted PointsAccounted CardSettled SaleSeesLatest
PROPERTIES Answered
CHECK_DEADLOCK FALSE
