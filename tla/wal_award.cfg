CONSTANTS
  g1 = g1  g2 = g2
  Customer = {a}
  Card = {g1}
  Owned = {g1}
  Worker = {w1, w2}
  Sale = {s1}
  Amount = {1}
  Threshold = 2
  Multiplier <- MCMultiplier
  Opening <- MCOpening
  Value = 2
  Kinds = {"sale", "charge", "resave", "redeem"}
  MaxRequests = 3
  Nobody = Nobody
SPECIFICATION Spec
INVARIANT AwardedOnce
CHECK_DEADLOCK FALSE
