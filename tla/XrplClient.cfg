SPECIFICATION FairSpec
CONSTANTS
  Conns = {c1, c2, c3}
  Readers = {r1, r2, r3}
  NoConn = NoConn
INVARIANTS ReconnectExclusive ConnIsWatched ConnIsSubscribed NoLeak
PROPERTIES ReconnectSucceeds CloseReleases
CHECK_DEADLOCK FALSE
