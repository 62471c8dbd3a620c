CONSTANTS
  Request = {r1, r2}
  Link = {l1, l2}
  LinkMin = 1
  CommitMax = 2
  Pieces = 2
  MaxFaults = 1
  MayQuit = TRUE
SPECIFICATION FairSpec
CHECK_DEADLOCK FALSE
INVARIANTS Pipeline NoneForgotten HandlersLive
PROPERTIES ImplementsExchange Settled Quits
