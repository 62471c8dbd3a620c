CONSTANTS
  Eval = {e1, e2, e3}
  Event = {s, x, y}
  Sent = {s}
  None = None
  MaxSeq = 6
SPECIFICATION FairSpec
CHECK_DEADLOCK FALSE
INVARIANTS TypeOK IndexUnique AcceptedOnce TurnKept NotOvertaken TxnidWithMessage
PROPERTIES RetiredForward Ends
