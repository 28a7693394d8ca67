------------------------- MODULE MCDependencyGraph ---------------------------
(***************************************************************************)
(* Instances of DependencyGraph.  Nodes of a kind are interchangeable.     *)
(***************************************************************************)
EXTENDS DependencyGraph, TLC

CONSTANTS root, a, b, p, s, t, u

Interchangeable == Permutations(Synth) \cup Permutations(Group \ (Parallel \cup {Root}))

=============================================================================
