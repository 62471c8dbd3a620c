SPECIFICATION Spec
CONSTANTS
  Event = {a,b,c}
  MaxSize = 5
  Batch = 6
  Width = 3
  Limit = 9
  Replays = FALSE
INVARIANT OnlyExistingSkipped
CHECK_DEADLOCK FALSE
