SPECIFICATION Spec
CONSTANTS
  rootNode = rootNode
  n1 = n1
  n2 = n2
  n3 = n3
  nullNode = nullNode
  hiddenId = hiddenId
  Node <- MCNode
  Root = rootNode
  Nil = nullNode
  Id = {1, 2, 3}
  RootId = 0
  Hidden = hiddenId
  MaxCmds = 1
  Programs <- MCPrograms
SYMMETRY Addresses
INVARIANTS
  TreeSound
  CalledInOrder
  RefsAreHolders
  EndIsKept
