CONSTANTS
  Received <- MCReceived
  OscFifo = 2
  FromFifo = 4
  N = 6
  MaxReceived = 2
  LastBlock = 2
SPECIFICATION FairSpec
INVARIANTS OneOwner PerformedAsSent
PROPERTIES AllPerformed
