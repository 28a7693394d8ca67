SPECIFICATION FairSpec
CONSTANTS
  Sizes = {1, 3, 4}
  Periods = {0, 3, 9}
  BlockSize = 2
  MaxPush = 4
  MaxAlloc = 2
INVARIANTS
  IndInv
PROPERTIES
  NeverBackwards
  LastPushShown
