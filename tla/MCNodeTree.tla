----------------------------- MODULE MCNodeTree ------------------------------
(***************************************************************************)
(* Instances of NodeTree for TLC.  Memory addresses are symmetric.         *)
(***************************************************************************)
EXTENDS NodeTree, TLC

CONSTANTS rootNode, n1, n2, n3, nullNode, hiddenId

MCNode == {rootNode, n1, n2, n3}
Addresses == Permutations({n1, n2, n3})

\* Nodes are moved; units end and free nodes, also from their constructors; nodes
\* are paused and printed; commands outlive their graphs; and what is left when
\* nothing is paused or printed, where every node that was asked to end does.
MCPrograms == {
  [ops |-> {"new", "free", "move"}, actions |-> {}, ids |-> 3, list |-> 2],
  [ops |-> {"new", "free", "constructors"}, actions |-> 1..15, ids |-> 2, list |-> 0],
  [ops |-> {"new", "run", "trace", "plugins"}, actions |-> {2}, ids |-> 1, list |-> 0],
  [ops |-> {"new", "free", "async", "noid"}, actions |-> {2, 14}, ids |-> 1, list |-> 0],
  [ops |-> {"new", "free"}, actions |-> (2..8) \cup (11..13) \cup {15}, ids |-> 2, list |-> 0]}
=============================================================================
