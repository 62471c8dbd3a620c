SPECIFICATION FairSpec
CONSTANTS
  MaxNotes = 2
  Ctx = {a, b, c}
  None = None
  Signals <- AllSignals
INVARIANTS
  Exclusive
  QueueExact
  NoLostWakeup
PROPERTY
  ImplementsLock
CHECK_DEADLOCK FALSE
