CONSTANTS
  Events = 3
  Node = {n}
  Ported = {}
  Worker = {w1, w2}
  Receiver = r
  MaxFailures = 0
SPECIFICATION SenderSpec
CHECK_DEADLOCK FALSE
INVARIANTS Broadcast
