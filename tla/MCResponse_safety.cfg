CONSTANTS
  Messages <- Pairs
  Kinds <- AllKinds
  HeadMax = 13
  ContentMax = 13
  ScratchMin = 4
SPECIFICATION FairSpec
CHECK_DEADLOCK FALSE
INVARIANTS  InBounds
 
