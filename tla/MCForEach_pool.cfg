SPECIFICATION CallSpec
CONSTANTS
  Worker = {w1,w2,w3}
  Client = {c1,c2}
  Soft = 1
  Hard = 2
  Dispatch = "FIFO"
  Handlers = TRUE
  Interruptible = {w1,c2}
  Terminable = {w1,w2}
  Latched = {c1}
  Throwing = {c1}
  Elements <- Lengths
INVARIANTS QueueServed ClientsServed Framed
PROPERTY Returns
CHECK_DEADLOCK FALSE
