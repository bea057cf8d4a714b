SPECIFICATION BreakerSpec
CONSTANTS
  Prices = {0, 100, 104, 120}
  Threshold = 25
  MaxPrices = 3
  FailureLimit = 2
  OpenFor = 1
  CautionFor = 1
  Durations = {2}
  MaxTimers = 2
INVARIANTS TypeOK CautionEnds
PROPERTIES Recovers AverageStaysPositive
