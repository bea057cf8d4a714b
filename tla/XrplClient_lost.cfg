SPECIFICATION Spec
CONSTANTS
  Conns = {c1, c2, c3}
  Readers = {r1, r2, r3}
  NoConn = NoConn
INVARIANT ReconnectsUnlessClosed
CHECK_DEADLOCK FALSE
