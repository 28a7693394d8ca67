----------------------------- MODULE DspThreads ------------------------------
(***************************************************************************)
(* The parallel DSP engine of supernova: one audio thread (thread 0) and   *)
(* NumHelpers helper threads run the items of a dsp_thread_queue once per  *)
(* tick.                                                                   *)
(*                                                                         *)
(* An item is runnable when its activation count, initially the number of  *)
(* its predecessors, has been decremented to zero.  The threads take       *)
(* runnable items from a lock-free stack and count them off node_count;    *)
(* the tick is over when node_count is zero.  Nothing else synchronises    *)
(* the threads: helpers are woken by a semaphore but nobody waits for a    *)
(* helper to wake or to go back to sleep, so a helper woken for one tick   *)
(* may still be polling, or only just waking, in a later one.              *)
(*                                                                         *)
(* Every access of an atomic is one step.  Two lists of the code are       *)
(* unordered here, so every order is covered: the successor list of an     *)
(* item is a set, and the stack of runnable items is a bag (a second push  *)
(* of an item is not absorbed).                                            *)
(***************************************************************************)
EXTENDS Integers, FiniteSets

CONSTANTS
  NumHelpers,          \* dsp_thread_pool::threads.size()
  Queue,               \* the queues the server may build
  Item,                \* the dsp_thread_queue_items of all of them
  ItemsOf,             \* the items of each queue
  Succ,                \* item::successors
  Parallel,            \* the queues with has_parallelism
  None,                \* nullptr
  YieldIfBusy,         \* yield_if_busy: no watchdog
  WatchdogIterations,  \* polls of an empty stack before the watchdog barks
  MaxPosts             \* bound on the pending posts of one semaphore

Main == 0
Helper == 1..NumHelpers
Thread == 0..NumHelpers

Pred(i) == {p \in Item : i \in Succ[p]}

\* activation_limit, as the dependency graph generator sets it: the number of
\* predecessors.
Limit(i) == Cardinality(Pred(i))

\* What the dependency graph generator guarantees of the queues it builds.
ASSUME QueueAssumption ==
  /\ NumHelpers \in Nat
  /\ IsFiniteSet(Item)
  /\ None \notin Item
  /\ None \notin Queue
  /\ ItemsOf \in [Queue -> SUBSET Item]
  /\ Succ \in [Item -> SUBSET Item]
  /\ Parallel \subseteq Queue
  /\ \A q \in Queue : \A i \in ItemsOf[q] :
       Succ[i] \subseteq ItemsOf[q] /\ Pred(i) \subseteq ItemsOf[q]
  /\ YieldIfBusy \in BOOLEAN
  /\ WatchdogIterations \in Nat \ {0}
  /\ MaxPosts \in Nat

VARIABLES
  queue,       \* dsp_queue_interpreter::queue
  used,        \* used_helper_threads
  nodeCount,   \* node_count
  runnable,    \* runnable_items, as a bag
  activation,  \* activation_count of each item
  sem,         \* cycle_sem of each helper
  stop,        \* dsp_thread::stop
  pc,          \* where each thread is
  item,        \* the item the thread is in, in run_next_item
  todo,        \* the successors it has not decremented yet; for the main
               \* thread at "init", the initial items it has not pushed yet
  next,        \* next_item_to_run
  pushing,     \* the item it is about to mark_as_runnable
  consumed,    \* the items run in this run_next_item (the code counts them)
  polls,       \* poll_counts
  runs         \* history: completed runs of each item in this tick

shared == <<queue, used, nodeCount, runnable, activation>>
local == <<pc, item, todo, next, pushing, consumed, polls>>
signals == <<sem, stop>>
vars == <<queue, used, nodeCount, runnable, activation, sem, stop, pc, item,
          todo, next, pushing, consumed, polls, runs>>

\* The items of the installed queue.
Current == IF queue = None THEN {} ELSE ItemsOf[queue]

Init ==
  /\ queue = None
  /\ used = 0
  /\ nodeCount = 0
  /\ runnable = [i \in Item |-> 0]
  /\ activation = [i \in Item |-> 0]
  /\ sem = [h \in Helper |-> 0]
  /\ stop = [h \in Helper |-> FALSE]
  /\ pc = [t \in Thread |-> IF t = Main THEN "idle" ELSE "asleep"]
  /\ item = [t \in Thread |-> None]
  /\ todo = [t \in Thread |-> {}]
  /\ next = [t \in Thread |-> None]
  /\ pushing = [t \in Thread |-> None]
  /\ consumed = [t \in Thread |-> {}]
  /\ polls = [t \in Thread |-> 0]
  /\ runs = [i \in Item |-> 0]

\* A thread is at a label, and the watchdog has not aborted the process.
At(t, label) == pc[t] = label /\ pc[Main] # "aborted"

Goto(t, label) == pc' = [pc EXCEPT ![t] = label]
-----------------------------------------------------------------------------
(* The audio thread between ticks. *)

Smaller(m, n) == IF m < n THEN m ELSE n

\* used_helper_threads is a uint_fast8_t: an empty parallel queue wraps it.
HelpersFor(q) ==
  LET total == Smaller(Cardinality(ItemsOf[q]), 255)
  IN IF q \in Parallel THEN (Smaller(total, NumHelpers + 1) - 1) % 256 ELSE 0

\* server_tick rebuilds the queue before it calls compute_audio.
BetweenTicks == pc[Main] = "idle"

\* reset_queue: the old queue and its items are destroyed, the new queue's
\* activation counts are set.
ResetQueue(q) ==
  /\ BetweenTicks
  /\ queue' = q
  /\ used' = HelpersFor(q)
  /\ activation' = [i \in Item |-> IF i \in ItemsOf[q] THEN Limit(i) ELSE 0]
  /\ runs' = [i \in Item |-> 0]
  /\ UNCHANGED <<nodeCount, runnable>>
  /\ UNCHANGED <<local, signals>>

\* initially_runnable_items.
InitiallyRunnable == {i \in Current : Limit(i) = 0}

\* init_tick: set node_count; the initial items are pushed one by one.
InitTick ==
  /\ pc[Main] = "idle"
  /\ Current # {}
  /\ \A h \in Helper : h <= used => sem[h] < MaxPosts
  /\ nodeCount' = Cardinality(Current)
  /\ todo' = [todo EXCEPT ![Main] = InitiallyRunnable]
  /\ runs' = [i \in Item |-> 0]
  /\ Goto(Main, "init")
  /\ UNCHANGED <<queue, used, runnable, activation, item, next, pushing,
                 consumed, polls>>
  /\ UNCHANGED signals

PushInitial ==
  /\ pc[Main] = "init"
  /\ \E i \in todo[Main] :
       /\ runnable' = [runnable EXCEPT ![i] = @ + 1]
       /\ todo' = [todo EXCEPT ![Main] = @ \ {i}]
  /\ UNCHANGED <<queue, used, nodeCount, activation, pc, item, next, pushing,
                 consumed, polls, runs>>
  /\ UNCHANGED signals

\* wake_threads posts the semaphores of the first `used' helpers.  A helper
\* touches only its own semaphore, so the posts are one step.
WakeThreads ==
  /\ pc[Main] = "init"
  /\ todo[Main] = {}
  /\ sem' = [h \in Helper |-> IF h <= used THEN sem[h] + 1 ELSE sem[h]]
  /\ polls' = [polls EXCEPT ![Main] = 0]
  /\ Goto(Main, "check")
  /\ UNCHANGED <<shared, item, todo, next, pushing, consumed, runs, stop>>

\* Mutation: an empty stack is taken for the end of the tick.
AllDoneEmptyStack == \A i \in Item : runnable[i] = 0

\* What run_item and wait_for_end test.
AllDone == nodeCount = 0

\* wait_for_end, after run_item has returned.
TickEnd ==
  /\ pc[Main] = "wait"
  /\ AllDone
  /\ Goto(Main, "idle")
  /\ UNCHANGED <<shared, item, todo, next, pushing, consumed, polls, runs>>
  /\ UNCHANGED signals

\* terminate_threads, after the audio backend is closed: each helper is told
\* to stop, woken and joined before the next one is.
StopHelper(h) ==
  /\ pc[Main] \in {"idle", "join"}
  /\ ~stop[h]
  /\ \A g \in Helper : g < h => pc[g] = "exited"
  /\ stop' = [stop EXCEPT ![h] = TRUE]
  /\ sem' = [sem EXCEPT ![h] = @ + 1]
  /\ Goto(Main, "join")
  /\ UNCHANGED <<shared, item, todo, next, pushing, consumed, polls, runs>>

\* release_queue, once every helper is joined.
ReleaseQueue ==
  /\ pc[Main] \in {"idle", "join"}
  /\ \A h \in Helper : pc[h] = "exited"
  /\ queue' = None
  /\ Goto(Main, "terminated")
  /\ UNCHANGED <<used, nodeCount, runnable, activation, item, todo, next,
                 pushing, consumed, polls, runs>>
  /\ UNCHANGED signals

-----------------------------------------------------------------------------
(* A helper's loop in dsp_thread::run. *)

Wait(h) ==
  /\ At(h, "asleep")
  /\ sem[h] > 0
  /\ sem' = [sem EXCEPT ![h] = @ - 1]
  /\ Goto(h, "woken")
  /\ UNCHANGED <<shared, item, todo, next, pushing, consumed, polls, runs, stop>>

TestStop(h) ==
  /\ At(h, "woken")
  /\ Goto(h, IF stop[h] THEN "exited" ELSE "check")
  /\ polls' = [polls EXCEPT ![h] = 0]
  /\ UNCHANGED <<shared, item, todo, next, pushing, consumed, runs>>
  /\ UNCHANGED signals
-----------------------------------------------------------------------------
(* run_item and run_next_item, on every thread. *)

\* Mutation: a helper keeps polling node_count instead of going to sleep.
ReturnedSpins(t) == IF t = Main THEN "wait" ELSE "check"

\* Where a thread goes when run_item returns.
Returned(t) == IF t = Main THEN "wait" ELSE "asleep"

CheckNodeCount(t) ==
  /\ At(t, "check")
  /\ Goto(t, IF AllDone THEN Returned(t) ELSE "pop")
  /\ UNCHANGED <<shared, item, todo, next, pushing, consumed, polls, runs>>
  /\ UNCHANGED signals

\* The stack is empty: back off and poll again.  The watchdog aborts the
\* process from the audio thread and sends a helper back to sleep.
PopNothing(t) ==
  /\ At(t, "pop")
  /\ \A i \in Item : runnable[i] = 0
  /\ IF YieldIfBusy
     THEN /\ Goto(t, "check")
          /\ UNCHANGED polls
     ELSE /\ polls' = [polls EXCEPT ![t] = @ + 1]
          /\ Goto(t, IF polls[t] + 1 # WatchdogIterations THEN "check"
                     ELSE IF t = Main THEN "aborted" ELSE "asleep")
  /\ UNCHANGED <<shared, item, todo, next, pushing, consumed, runs>>
  /\ UNCHANGED signals

Popped(i) == [runnable EXCEPT ![i] = @ - 1]

Pop(t) ==
  /\ At(t, "pop")
  /\ \E i \in Item :
       /\ runnable[i] > 0
       /\ runnable' = Popped(i)
       /\ item' = [item EXCEPT ![t] = i]
  /\ consumed' = [consumed EXCEPT ![t] = {}]
  /\ Goto(t, "job")
  /\ UNCHANGED <<queue, used, nodeCount, activation, todo, next, pushing,
                 polls, runs>>
  /\ UNCHANGED signals

\* job(thread_index) returns.
JobDone(t) ==
  /\ At(t, "job")
  /\ runs' = [runs EXCEPT ![item[t]] = @ + 1]
  /\ todo' = [todo EXCEPT ![t] = Succ[item[t]]]
  /\ next' = [next EXCEPT ![t] = None]
  /\ Goto(t, "deps")
  /\ UNCHANGED <<shared, item, pushing, consumed, polls>>
  /\ UNCHANGED signals

\* Mutation: any decrement below the limit makes the item runnable.
LastDecrementEarly(s) == activation[s] <= 2

\* decrement_activation_count found one predecessor left.
LastDecrement(s) == activation[s] = 1

\* decrement_activation_count of one successor.  The first one to reach zero
\* is kept to be run next, the others go to the stack.
DecrementOne(t, s) ==
  /\ activation' = [activation EXCEPT ![s] = @ - 1]
  /\ todo' = [todo EXCEPT ![t] = @ \ {s}]
  /\ \/ /\ ~LastDecrement(s)
        /\ UNCHANGED <<next, pushing, pc>>
     \/ /\ LastDecrement(s)
        /\ next[t] = None
        /\ next' = [next EXCEPT ![t] = s]
        /\ UNCHANGED <<pushing, pc>>
     \/ /\ LastDecrement(s)
        /\ next[t] # None
        /\ pushing' = [pushing EXCEPT ![t] = s]
        /\ Goto(t, "push")
        /\ UNCHANGED next

Decrement(t) ==
  /\ At(t, "deps")
  /\ \E s \in todo[t] : DecrementOne(t, s)
  /\ UNCHANGED <<queue, used, nodeCount, runnable, item, consumed, polls, runs>>
  /\ UNCHANGED signals

MarkAsRunnable(t) ==
  /\ At(t, "push")
  /\ runnable' = [runnable EXCEPT ![pushing[t]] = @ + 1]
  /\ pushing' = [pushing EXCEPT ![t] = None]
  /\ Goto(t, "deps")
  /\ UNCHANGED <<queue, used, nodeCount, activation, item, todo, next,
                 consumed, polls, runs>>
  /\ UNCHANGED signals

\* The count reset_activation_count stores.
FreshCount(i) == Limit(i)

\* reset_activation_count, after all successors are updated; then the next
\* item is run on this thread, if there is one.
ResetActivation(t) ==
  /\ At(t, "deps")
  /\ todo[t] = {}
  /\ activation' = [activation EXCEPT ![item[t]] = FreshCount(item[t])]
  /\ consumed' = [consumed EXCEPT ![t] = @ \cup {item[t]}]
  /\ item' = [item EXCEPT ![t] = next[t]]
  /\ next' = [next EXCEPT ![t] = None]
  /\ Goto(t, IF next[t] = None THEN "count" ELSE "job")
  /\ UNCHANGED <<queue, used, nodeCount, runnable, todo, pushing, polls, runs>>
  /\ UNCHANGED signals

\* Mutation: a call of run_next_item counts as one item.
CountedOne(t) == 1

\* The items run_next_item has run.
Counted(t) == Cardinality(consumed[t])

\* node_count.fetch_sub(consumed).
CountOff(t) ==
  /\ At(t, "count")
  /\ nodeCount' = nodeCount - Counted(t)
  /\ consumed' = [consumed EXCEPT ![t] = {}]
  /\ IF nodeCount = Counted(t)
     THEN Goto(t, Returned(t)) /\ UNCHANGED polls
     ELSE Goto(t, "check") /\ polls' = [polls EXCEPT ![t] = 0]
  /\ UNCHANGED <<queue, used, runnable, activation, item, todo, next, pushing,
                 runs>>
  /\ UNCHANGED signals

-----------------------------------------------------------------------------
RunItem(t) ==
  \/ CheckNodeCount(t) \/ PopNothing(t) \/ Pop(t) \/ JobDone(t)
  \/ Decrement(t) \/ MarkAsRunnable(t) \/ ResetActivation(t) \/ CountOff(t)

HelperStep(h) == Wait(h) \/ TestStop(h) \/ RunItem(h)

\* A tick that has begun goes on; so does a termination that has begun.
MainStep ==
  \/ PushInitial \/ WakeThreads \/ RunItem(Main) \/ TickEnd
  \/ pc[Main] = "join" /\ \E h \in Helper : StopHelper(h)
  \/ pc[Main] = "join" /\ ReleaseQueue

\* The process is gone: the audio thread aborted it, or it was shut down.
Finished == pc[Main] \in {"aborted", "terminated"} /\ UNCHANGED vars

Next ==
  \/ \E q \in Queue : ResetQueue(q)
  \/ InitTick \/ PushInitial \/ WakeThreads \/ TickEnd
  \/ \E h \in Helper : StopHelper(h)
  \/ ReleaseQueue
  \/ \E t \in Thread : RunItem(t)
  \/ \E h \in Helper : Wait(h) \/ TestStop(h)
  \/ Finished

Spec == Init /\ [][Next]_vars

\* Every thread keeps running: the audio thread and its helpers have real-time
\* priority and a CPU each.
Fairness == WF_vars(MainStep) /\ \A h \in Helper : WF_vars(HelperStep(h))

FairSpec == Spec /\ Fairness
-----------------------------------------------------------------------------
(* Properties *)

Labels == {"idle", "init", "wait", "join", "terminated", "aborted", "asleep",
           "woken", "exited", "check", "pop", "job", "deps", "push", "count"}

TypeOK ==
  /\ queue \in Queue \cup {None}
  /\ used \in 0..255
  /\ nodeCount \in Int
  /\ runnable \in [Item -> Nat]
  /\ activation \in [Item -> Int]
  /\ sem \in [Helper -> Nat]
  /\ stop \in [Helper -> BOOLEAN]
  /\ pc \in [Thread -> Labels]
  /\ item \in [Thread -> Item \cup {None}]
  /\ todo \in [Thread -> SUBSET Item]
  /\ next \in [Thread -> Item \cup {None}]
  /\ pushing \in [Thread -> Item \cup {None}]
  /\ consumed \in [Thread -> SUBSET Item]
  /\ polls \in [Thread -> Nat]
  /\ runs \in [Item -> Nat]

\* An item is run at most once per tick and by one thread at a time, although
\* several threads decrement its count and helpers of an earlier tick may join
\* in.
RunsAtMostOnce ==
  \A t \in Thread : pc[t] = "job" =>
    /\ runs[item[t]] = 0
    /\ \A u \in Thread \ {t} : pc[u] = "job" => item[u] # item[t]

\* An item starts only when all its predecessors have been run in this tick:
\* the order of the node tree.
DependencyOrder ==
  \A t \in Thread : pc[t] = "job" => \A p \in Pred(item[t]) : runs[p] = 1

\* When node_count is zero every item of the tick has run, no thread is inside
\* an item or about to push one, and the queue is as reset_queue left it, ready
\* for the next tick.  So the caller of reset_queue, which must not run "if
\* threads are currently accessing the queue", may replace it.
AtRest ==
  nodeCount = 0 =>
    /\ \A t \in Thread : item[t] = None /\ next[t] = None /\ pushing[t] = None
    /\ \A i \in Item : runnable[i] = 0
    /\ \A i \in Current : activation[i] = Limit(i)
    /\ pc[Main] = "wait" => \A i \in Current : runs[i] = 1

\* No thread ever holds an item of a queue that reset_queue or release_queue
\* has destroyed, and the stack never contains one.
NoDanglingItem ==
  /\ \A t \in Thread : {item[t], next[t], pushing[t]} \subseteq Current \cup {None}
  /\ \A i \in Item : runnable[i] > 0 => i \in Current

\* The assertions of the code: run finds the count at zero, a decrement finds
\* it positive, reset_activation_count finds it at zero, fetch_sub does not
\* wrap, and no initial item is pushed twice.
AssertionsHold ==
  /\ \A t \in Thread :
       /\ pc[t] \in {"job", "deps"} => activation[item[t]] = 0
       /\ pc[t] = "deps" => \A s \in todo[t] : activation[s] > 0
       /\ pc[t] = "count" => nodeCount >= Cardinality(consumed[t])
  /\ pc[Main] = "init" => \A i \in todo[Main] : runnable[i] = 0

\* wake_threads indexes only existing helpers, although an empty parallel
\* queue wraps used_helper_threads to 255.
WakesExistingHelpers == pc[Main] = "init" => used <= NumHelpers

-----------------------------------------------------------------------------
(* Why the engine works: the invariant behind the properties above. *)

\* Thread t has run its item and has not yet told s.
Owes(t, s) == pc[t] \in {"deps", "push"} /\ s \in todo[t]

\* The predecessors of s that have not decremented its count in this tick.
Pending(s) ==
  {p \in Pred(s) : runs[p] = 0 \/ \E t \in Thread : item[t] = p /\ Owes(t, s)}

\* The items that node_count still counts.
Uncounted ==
  {i \in Current : runs[i] = 0 \/ \E t \in Thread : item[t] = i \/ i \in consumed[t]}

Ready(i) == runs[i] = 0 /\ Pending(i) = {}

Between == pc[Main] \in {"idle", "join", "terminated"}

\* What a thread holds follows from where it is.
ThreadShape(t) ==
  /\ item[t] # None <=> pc[t] \in {"job", "deps", "push"}
  /\ next[t] # None => pc[t] \in {"deps", "push"}
  /\ pushing[t] # None <=> pc[t] = "push"
  /\ consumed[t] # {} => pc[t] \in {"job", "deps", "push", "count"}
  /\ pc[t] = "count" => consumed[t] # {}
  /\ pc[t] \in {"deps", "push"} => todo[t] \subseteq Succ[item[t]]
  /\ consumed[t] \subseteq Current
  /\ IF t = Main
     THEN pc[t] \notin {"asleep", "woken", "exited"}
     ELSE pc[t] \notin {"idle", "init", "wait", "join", "terminated", "aborted"}

\* Thread t has item i in one of its local variables.
Has(t, i) == i \in {item[t], next[t], pushing[t]}

\* Every item is in at most one place: not yet pushed, on the stack, in one
\* variable of one thread, or consumed by one thread; and it has been made
\* runnable exactly when all its predecessors have told it.
OnePlace(i) ==
  /\ runs[i] \in {0, 1}
  /\ runs[i] = 1 => Pending(i) = {}
  /\ runnable[i] # 0 => runnable[i] = 1 /\ Ready(i) /\ \A t \in Thread : ~Has(t, i)
  /\ \A t \in Thread :
       /\ item[t] = i => Pending(i) = {} /\ (runs[i] = 0 <=> pc[t] = "job")
       /\ i \in {next[t], pushing[t]} => Ready(i)
       /\ i \in {next[t], pushing[t]} => item[t] # i
       /\ next[t] = i => pushing[t] # i
       /\ i \in consumed[t] => runs[i] = 1
       /\ \A u \in Thread :
            /\ i \in consumed[t] => item[u] # i
            /\ t # u => ~(Has(t, i) /\ Has(u, i))
            /\ t # u => ~(i \in consumed[t] /\ i \in consumed[u])
  /\ pc[Main] = "init" /\ i \in todo[Main] =>
       i \in Current /\ Ready(i) /\ runnable[i] = 0 /\ \A t \in Thread : ~Has(t, i)

\* The counters: an item that waits or runs counts its pending predecessors,
\* one that is over has been reset; node_count counts the items not yet
\* counted off.
Counters ==
  /\ \A i \in Current :
       activation[i] = IF runs[i] = 1 /\ \A t \in Thread : item[t] # i
                       THEN Limit(i) ELSE Cardinality(Pending(i))
  /\ nodeCount = IF Between THEN 0 ELSE Cardinality(Uncounted)

\* Between ticks nobody holds anything and the counts are ready for the next.
Quiet ==
  Between => /\ \A t \in Thread : item[t] = None /\ consumed[t] = {}
             /\ \A i \in Item : runnable[i] = 0
             /\ \A i \in Current : activation[i] = Limit(i)

\* The invariant of a tick: each item is in one place, the counts say how much
\* of the tick is left, and nothing is left over between ticks.
TickInv ==
  /\ TypeOK
  /\ NoDanglingItem
  /\ \A t \in Thread : ThreadShape(t)
  /\ \A i \in Item : OnePlace(i)
  /\ Counters
  /\ Quiet

\* used_helper_threads belongs to the installed queue, and init_tick returns
\* early for a queue without items, whose count of helpers has wrapped.
UsedInv ==
  /\ queue # None => used = HelpersFor(queue)
  /\ pc[Main] = "init" => Current # {}

\* The inductive invariant of the engine: the tick and its counts, and no
\* helper woken that was never created.
IndInv == TickInv /\ UsedInv /\ WakesExistingHelpers

-----------------------------------------------------------------------------
\* The tick as seen from outside: which items are being run and which have run.
Tick == INSTANCE DspTick WITH
  ticking <- pc[Main] \notin {"idle", "join", "terminated"},
  running <- {i \in Item : \E t \in Thread : pc[t] = "job" /\ item[t] = i},
  done <- {i \in Current : runs[i] > 0}

\* The threads, with their counters and their stack, do what the sequential
\* description of a tick allows: every item once, in dependency order, and no
\* end of the tick before the last item is done.
ImplementsTick == Tick!Spec

\* A tick that starts ends, with every item run, unless the watchdog aborts.
TickTerminates == (pc[Main] = "init") ~> (pc[Main] \in {"idle", "aborted"})

\* A shutdown that starts joins every helper, however many posts a late
\* helper still has to consume.
ShutdownTerminates == (pc[Main] = "join") ~> (pc[Main] = "terminated")

=============================================================================
