SPECIFICATION FairSpec
CONSTANTS
  N = 4
  Msg = {1, 2}
  NoMsg = 0
  MaxWrites = 9
INVARIANTS
  HeldIntact
PROPERTIES
  ImplementsQueue
CHECK_DEADLOCK FALSE
