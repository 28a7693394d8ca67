------------------------- MODULE MCGarbageCollector -------------------------
(* Instances of GarbageCollector for TLC. *)
EXTENDS GarbageCollector, TLC

CONSTANTS proc, mainThread, routine, mainStack, routineStack, spareStack,
          cellA, cellB, cellC, fin

StackOfThread == [t \in {mainThread, routine} |->
                    IF t = mainThread THEN mainStack ELSE routineStack]

\* One program for each part of the interpreter that moves references.
MCPrograms == {
  [ops |-> {"array"}, cells |-> 2, stack |-> 2],
  [ops |-> {"array", "classvar"}, cells |-> 2, stack |-> 1],
  [ops |-> {"call", "realloc"}, cells |-> 3, stack |-> 1],
  [ops |-> {"call", "classvar"}, cells |-> 2, stack |-> 1],
  [ops |-> {"thread"}, cells |-> 1, stack |-> 2],
  [ops |-> {"primitive", "classvar"}, cells |-> 2, stack |-> 2],
  [ops |-> {"finalizer", "freeze", "classvar"}, cells |-> 2, stack |-> 2]}

CellSymmetry == Permutations(Cells)
=============================================================================
