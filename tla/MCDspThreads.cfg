SPECIFICATION FairSpec
CONSTANTS
  a = a
  b = b
  c = c
  d = d
  e = e
  f = f
  wide = wide
  chain = chain
  hollow = hollow
  None = None
  NumHelpers = 2
  Queue <- MCQueue
  Item <- MCItem
  ItemsOf <- MCItemsOf
  Succ <- MCSucc
  Parallel <- MCParallel
  YieldIfBusy = TRUE
  WatchdogIterations = 2
  MaxPosts = 2
INVARIANTS
  IndInv
PROPERTIES
  ImplementsTick
  TickTerminates
  ShutdownTerminates
