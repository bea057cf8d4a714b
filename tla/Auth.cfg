SPECIFICATION Spec
CONSTANTS
  Requests <- MCRequests
  None = None
  Calls = {c1, c2}
  Drift = 1
  Keep = 2
  MaxTime = 6
INVARIANT RowOutlivesWindow
PROPERTY ServedOnce
