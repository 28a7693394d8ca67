------------------------------- MODULE DspTick -------------------------------
(***************************************************************************)
(* What the DSP engine promises, without threads, counters or stacks.  The *)
(* server installs a queue of items between ticks.  In a tick every item   *)
(* of the queue runs exactly once and only after its predecessors have     *)
(* finished; independent items may overlap; the tick ends when all items   *)
(* have finished.                                                          *)
(***************************************************************************)
CONSTANTS
  Queue,    \* the queues the server may build
  Item,     \* the items of all of them
  ItemsOf,  \* the items of each queue
  Succ,     \* the successors of each item
  None      \* no queue

VARIABLES
  queue,    \* the installed queue
  ticking,  \* a tick has begun and not ended
  running,  \* the items being run
  done      \* the items finished in this tick

vars == <<queue, ticking, running, done>>

Items == IF queue = None THEN {} ELSE ItemsOf[queue]

Init ==
  /\ queue = None
  /\ ticking = FALSE
  /\ running = {}
  /\ done = {}

Install(q) ==
  /\ ~ticking
  /\ queue' = q
  /\ done' = {}
  /\ UNCHANGED <<ticking, running>>

Start ==
  /\ ~ticking
  /\ Items # {}
  /\ ticking' = TRUE
  /\ done' = {}
  /\ UNCHANGED <<queue, running>>

Begin(i) ==
  /\ ticking
  /\ i \in Items \ (running \cup done)
  /\ \A p \in Item : i \in Succ[p] => p \in done
  /\ running' = running \cup {i}
  /\ UNCHANGED <<queue, ticking, done>>

End(i) ==
  /\ i \in running
  /\ running' = running \ {i}
  /\ done' = done \cup {i}
  /\ UNCHANGED <<queue, ticking>>

Finish ==
  /\ ticking
  /\ running = {}
  /\ done = Items
  /\ ticking' = FALSE
  /\ UNCHANGED <<queue, running, done>>

Remove ==
  /\ ~ticking
  /\ queue' = None
  /\ done' = {}
  /\ UNCHANGED <<ticking, running>>

Next ==
  \/ \E q \in Queue : Install(q)
  \/ Start
  \/ \E i \in Item : Begin(i) \/ End(i)
  \/ Finish
  \/ Remove

Spec == Init /\ [][Next]_vars

=============================================================================
