---------------------------- MODULE MCDspThreads -----------------------------
(***************************************************************************)
(* Instances of DspThreads.  Queue `wide' is two synths in a parallel      *)
(* group between a source and a sink; `chain' is a sequential group        *)
(* without parallelism; `hollow' is a parallel group without synths.       *)
(***************************************************************************)
EXTENDS DspThreads

CONSTANTS a, b, c, d, e, f, wide, chain, hollow

MCItem == {a, b, c, d, e, f}
MCQueue == {wide, chain, hollow}
MCItemsOf == [q \in MCQueue |->
  CASE q = wide -> {a, b, c, d} [] q = chain -> {e, f} [] q = hollow -> {}]
MCSucc == [i \in MCItem |->
  CASE i = a -> {b, c} [] i = b -> {d} [] i = c -> {d} [] i = e -> {f}
    [] OTHER -> {}]
MCParallel == {wide, hollow}

=============================================================================
