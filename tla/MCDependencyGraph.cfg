SPECIFICATION Spec
CONSTANTS
  root = root
  a = a
  b = b
  p = p
  s = s
  t = t
  u = u
  Synth = {s, t, u}
  Group = {root, a, b, p}
  Parallel = {p}
  Root = root
SYMMETRY Interchangeable
INVARIANTS
  EachSynthInOneItem
  OrderIsTreeOrder
  LimitIsPredecessors
