SPECIFICATION Spec
CONSTANTS
  Assets = {xrp, usd, eur, btc}
  Start = xrp
  End = usd
  One = 10
  PoolWeights = {7, 9}
  OfferWeights = {9, 11}
  Max64 = 1000000
  MaxMarket = 3
  MaxHops = 2
INVARIANTS PathsAreReal CheapestIsFound RouteIsUsable
CHECK_DEADLOCK FALSE
