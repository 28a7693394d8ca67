---------------------------- MODULE MCNodeGraph ------------------------------
(***************************************************************************)
(* Instances of NodeGraph.  Nodes of a kind are interchangeable.           *)
(***************************************************************************)
EXTENDS NodeGraph

CONSTANTS root, grp, par, s, t, u

Interchangeable == Permutations(Synth) \cup Permutations(Group \ (Parallel \cup {Root}))

=============================================================================
