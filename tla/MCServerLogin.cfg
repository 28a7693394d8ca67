SPECIFICATION FairSpec
CONSTANTS
  c1 = c1
  c2 = c2
  Clients = {c1, c2}
  NoClient = no_client
  Pings = 2
  MaxAsked = 2
  MaxTasks = 1
  Sites <- MCSites
CHECK_DEADLOCK FALSE
INVARIANT NoClash
INVARIANT ExitIsKnown
PROPERTY AllLoggedIn
