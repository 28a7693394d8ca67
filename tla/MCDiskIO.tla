------------------------------ MODULE MCDiskIO ------------------------------
(* Instances of DiskIO for TLC; half a buffer is two blocks.               *)
EXTENDS DiskIO

C(len, unit, loop, record, threads, ops) ==
  [len |-> len, player |-> unit, loop |-> loop,
   record |-> record, threads |-> threads, ops |-> ops]

(* Files shorter and longer than the buffer, played by both units; a       *)
(* looped file longer than the buffer; a recording that wraps around its   *)
(* buffer; both at once in supernova, with the plug-in unloaded.           *)
MCCues ==
  {C(len, unit, FALSE, 0, FALSE, {"close"}) : len \in {2, 3, 5}, unit \in {"DiskIn", "VDiskIn"}}
  \cup {C(len, unit, TRUE, 0, FALSE, {}) : len \in {2, 3}, unit \in {"DiskIn", "VDiskIn"}}
  \cup {C(5, "VDiskIn", TRUE, 0, FALSE, {}), C(2, "DiskIn", TRUE, 5, FALSE, {"close"})}
  \cup {C(3, "VDiskIn", FALSE, 3, TRUE, {"quit"})}
=============================================================================
