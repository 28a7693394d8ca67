SPECIFICATION Spec
CONSTANTS
  root = root
  grp = grp
  par = par
  s = s
  t = t
  u = u
  None = None
  Synth = {s, t, u}
  Group = {root, grp, par}
  Parallel = {par}
  Root = root
  DoneActions = {1, 2, 3, 4, 5, 7, 9, 10, 11, 13, 14, 15}
SYMMETRY Interchangeable
INVARIANTS
  TreeConsistent
  RefsAreHolders
  PendingSynthsAlive
  DueIsFreed
