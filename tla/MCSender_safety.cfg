CONSTANTS
  Events = 3
  Node = {n, p}
  Ported = {p}
  Worker = {w1, w2}
  Receiver = r
  MaxFailures = 1
SPECIFICATION SenderFairSpec
CHECK_DEADLOCK FALSE
INVARIANTS InFlight Attended InOrder
PROPERTIES Drained
