CONSTANTS
  Caller = {a, b}
  Worker = w
  None = None
  Key = {j, k}
  Server = {r, s}
  RequestsMax = 1
  Limit = 0
SPECIFICATION FairSpec
CHECK_DEADLOCK FALSE
INVARIANTS Attended InFlight
PROPERTIES Served
