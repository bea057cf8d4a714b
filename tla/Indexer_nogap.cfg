SPECIFICATION Spec
CONSTANTS
  MaxLedger = 4
  MaxRestarts = 2
  ChanCap = 1
  Retention = 1
  HttpLag = 0
  Modulus = 16
INVARIANT NoGapResumes

CHECK_DEADLOCK FALSE
