SPECIFICATION LimitSpec
CONSTANTS
  QuoteKeys = {q1, q2}
  RateKeys = {p1}
  SystemKeys = {s1}
  QuoteQuota = 1
  RateQuota = 1
  MaxBytes = 4
  Sizes = {1, 2}
  Lifetimes = {0, 1}
  RateTTL = 2
  MaxCount = 2
  Limit = 1
INVARIANTS Accounting MemoryBound QuoteQuotaHolds AdmittedPerWindow
PROPERTIES LockoutEnds NoNeedlessEviction
