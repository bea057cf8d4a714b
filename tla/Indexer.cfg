SPECIFICATION FairSpec
CONSTANTS
  MaxLedger = 3
  MaxRestarts = 3
  ChanCap = 1
  Retention = 1
  HttpLag = 1
  Modulus = 16
INVARIANTS TypeOK CheckpointedIsApplied WorkersDisjoint
PROPERTIES NeverReapplied HolesAreFinal FullChannelDrains BackfillEnds
CHECK_DEADLOCK FALSE
