SPECIFICATION FreshSpec
CONSTANTS
  MaxLedger = 2
  MaxRestarts = 2
  ChanCap = 1
  Retention = 1
  HttpLag = 0
  Modulus = 16
  DegradedLag = 0
  DownLag = 1
INVARIANTS PublishedIsCheckpointed HealthIsBlind
