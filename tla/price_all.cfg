CONSTANTS
  Item = {1, 2}
  Karat <- MCKarat
  Ruled = {1}
  Rate = {1, 3}
  Weight <- MCWeight
  Opening <- MCOpening
  Asked = {2}
  MaxRise = 1
  Override = {o1}
  Fetcher = {f1, f2}
  Worker = {w1, w2}
  Nobody = Nobody
SPECIFICATION FairSpec
INVARIANTS TypeOK PriceLogged ReviewedOnce
PROPERTIES RateReturns
