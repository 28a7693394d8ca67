# A TLA+ development for SuperCollider

SuperCollider is a language (`sclang`), two audio servers (`scsynth` and the
multi-threaded `supernova`), an IDE and a class library.  This directory holds
TLA+ models of the parts whose correctness depends on the order in which
threads, ticks or commands happen, TLC configurations that check them on small
instances, and TLAPS proofs for every instance of some of them.

Paths below are relative to the repository.

## Inventory

What the system consists of, the state that each part keeps, how it is operated,
and what makes it correct.

| part | state | operations | hard behaviour | correct when |
|---|---|---|---|---|
| supernova DSP threads (`server/supernova/dsp_thread_queue`) | queue of items with successor lists and activation counts, lock-free stack of runnable items, `node_count`, one semaphore per helper | `reset_queue`, `init_tick`, `tick`, `run_item`, `join` | lock-free hand-over; helpers that wake or sleep late; the queue replaced between ticks | each item once per tick, after its predecessors; the tick ends, and only when nobody holds an item |
| supernova dependency graph generator (`dependency_graph_generator.hpp`, `group.hpp`) | none of its own; reads the node tree | `operator()`, `fill_queue_recursive`, `get_previous_activation_count`, `tail_nodes` | successors and predecessor counts come from two separate walks | the queue orders exactly what the tree orders; counts equal predecessors |
| supernova node graph (`node_graph.*`, `group.hpp`, `server.cpp`) | tree, node set, counters, reference counts, dirty flag | `/s_new`, `/g_new`, `/p_new`, `/n_free`, `/n_before`, `/n_after`, `/n_order`, `/g_head`, `/g_tail`, `/g_freeAll`, `/g_deepFree`, `/n_run` | long command sequences; nodes referenced from tree, set and queue at once | one forest; counters exact; nothing deleted while referenced, everything deleted when not |
| supernova done actions (`sc_plugin_interface.*`) | five lists of plain node pointers | `done_action` while audio runs, `apply_done_actions` at the start of the next tick | entries outlive what they point at; fixed order of application | the documented nodes are freed; no entry points at a deleted node |
| scope buffer (`common/scope_buffer.hpp`) | three regions, their frame counts and flags, stage / in / out indices | `allocate`, `release`, `push`, `pull` | two processes, no locks | the two sides never share a region; the picture only moves forward |
| message fifos of scsynth (`common/MsgFifo.h`) | ring, write / read / free positions | `Write`, `Perform`, `Free` | two threads, no locks | a bounded FIFO: nothing lost, repeated, reordered or overwritten |
| supernova callback interpreter | queue of callbacks, semaphore | `add_callback`, `run`, `join_thread` | hand-over between the audio and the io thread | every callback once, in order |
| scsynth command pipeline (`SC_SequencedCommand.cpp`, `SC_CoreAudio.cpp`) | three fifos, one command object per command | four stages that alternate between audio and NRT thread | a full fifo at any stage; order of replies | every command finishes and is freed once |
| scsynth node tree (`SC_Node.cpp`, `SC_Group.cpp`, `SC_Graph.cpp`) | doubly linked tree, hash table of ids | node commands, done actions during traversal | the tree changes while it is walked | as for the node graph |
| disk streaming (`DiskIO_UGens.cpp`, `SC_SyncCondition.h`) | double buffers, a fifo of requests, a count of signals | `DiskIn`, `VDiskIn`, `DiskOut`, the disk thread | a half buffer requested and not yet delivered; a notification between a test and a sleep | what is heard or recorded is the file, in order |
| OSC packets and scheduler of scsynth (`SC_ComPort.cpp`, `SC_CoreAudio.*`, `PriorityQueue.h`) | packets, fifos, scheduled events | receive, unroll, perform, schedule, free | three threads pass the ownership of packets on | each packet has one owner, is performed once and freed once |
| real-time pool (`SC_AllocPool.cpp`) | bins of chunks | alloc / free | coalescing, limits | no overlap |
| sclang garbage collector (`GC.cpp`) | tricolour object sets, scan credit | allocate, write barrier, incremental scan, flip | mutator interleaved with the collector | no reachable object is freed |
| sclang clocks (`PyrSched.cpp`) | priority queue, condition variable, language lock | `sched`, `clear`, run loop | threads and one big lock | events in order, none lost |
| class library: `Server`, `ServerStatusWatcher` | boot state, client id, responders waiting for replies | boot, quit, alive thread, `/notify` and its replies | late, lost and reordered replies; crash and reboot | ids do not clash; the state settles |
| supernova buffer locks, audio buses and I/O units, node ids; class library allocators | - | - | see PROJECT.json | not modelled |
| interpreter, compiler, other UGens, Qt, IDE, SCDoc, drivers | - | - | sequential, numerical, GUI or i/o code | not modelled |

How they interact.  In supernova everything that touches the tree runs in the
audio callback, `nova_server::tick`: apply the done actions of the last tick, run
the commands that have arrived, rebuild the dsp queue if it is dirty, compute
audio.  Rebuilding turns the tree (NodeGraph) into a queue of items
(DependencyGraph), which the DSP threads run (DspThreads); synths that run may
enter done actions, for the next tick.  ScopeOut2 units write scope buffers that
widgets of the language process read.

In scsynth the audio thread and the other threads exchange messages over fifos
(MsgFifo).  OSC packets come in over one of them (OscPackets); asynchronous commands
travel over two more and back (SequencedCommands); what a packet does to the synths it
does to the node tree (NodeTree), which the callback then walks.  Disk units hand
half buffers to a thread of their own (DiskIO).

In sclang everything runs under one mutex: the threads of the clocks take it to perform
tasks (LangClocks), and the code they run allocates objects and moves references under
the incremental collector (GarbageCollector).  The class library keeps track of a server
by messages that may be lost (ServerLogin).

`PROJECT.json` lists every hazard, at its line, with the properties that
watch it.

## The modules

| module | what it is |
|---|---|
| `DspTick` | abstract: a tick as a set of items run in dependency order |
| `DspThreads` | the threads, atomic access by atomic access |
| `DspThreadsProofs` | the inductive invariant, the safety theorems, the refinement of DspTick |
| `MCDspThreads` | the instances |
| `DependencyGraph`, `MCDependencyGraph` | the generator as recursive operators on the tree; a state machine that grows every tree |
| `NodeGraph`, `MCNodeGraph`, `NodeGraphProofs` | tree, reference counts, node commands, tick phases, done actions; and why tree, counts and queue agree |
| `ScopeBuffer`, `MCScopeBuffer`, `ScopeBufferProofs` | the triple buffer, its instance and its proofs |
| `MsgQueue` | abstract: a bounded FIFO whose messages are accepted, performed, reclaimed |
| `MsgFifo`, `MCMsgFifo`, `MsgFifoProofs` | the ring, both variants; its invariant and the refinement of MsgQueue |
| `SequencedCommands`, `MCSequencedCommands`, `SequencedCommandsProofs` | scsynth's asynchronous buffer commands over their fifos, and why they keep their order and their data |
| `NodeTree`, `MCNodeTree` | scsynth's node tree, walked while commands and done actions change it |
| `OscPackets`, `MCOscPackets` | who owns an OSC packet, from the socket to its deletion |
| `DiskIO`, `MCDiskIO` | the disk units and the disk thread |
| `GarbageCollector`, `MCGarbageCollector`, `GarbageCollectorProofs` | sclang's incremental collector under an arbitrary program, and why it is safe |
| `LangClocks`, `MCLangClocks`, `LangClocksProofs` | the threads of SystemClock and the TempoClocks, and why they are woken and accounted for |
| `ServerLogin`, `MCServerLogin`, `ServerLoginProofs` | server status, login and client ids, and why ids are not given twice |

A definition whose comment begins with "Mutation" or "Mutant" is a plausible error in
the definition below it; no specification uses it.  Replacing the definition by its
mutation makes the property that `PROJECT.json` pairs it with fail.

### DspThreads

Thread 0 is the audio thread, 1..NumHelpers are the helpers; `pc` says where each
is.  `InitTick` and `PushInitial` are `init_tick`; `WakeThreads` posts the
semaphores and enters `run_item_main`; `CheckNodeCount`, `PopNothing`, `Pop` are
the loop of `run_item`; `JobDone`, `Decrement`, `MarkAsRunnable`,
`ResetActivation`, `CountOff` are `run_next_item` with `item::run` and
`update_dependencies` unfolded; `TickEnd` is `wait_for_end`; `StopHelper` and
`ReleaseQueue` are the shutdown; `Wait` and `TestStop` the helper's loop.

Every access of an atomic is one step.  The successor list is a set and the stack
a bag, so every order is covered; the bag also keeps a second push of an item
visible.  `used_helper_threads` has its 8 bits.  An item's activation limit is the
number of its predecessors, which is what DependencyGraph checks of the
generator.  Both builds of the backoff are modelled: with `YieldIfBusy` there is
no watchdog, without it the audio thread's watchdog aborts the process and a
helper's sends it back to sleep.  Left out: CPU pinning, the exponential backoff's
delays, the limit of 32768 stack entries, memory orders weaker than sequential
consistency.

### DependencyGraph

`Fill` is both `fill_queue_recursive` functions, written from the last child to
the first as the code walks; `PreviousActivation` is
`get_previous_activation_count`; `TailNodes` both `tail_nodes`.  An item is named
by its first synth.  The order that a tree prescribes is stated without the
generator: `Precedes`, all pairs of synths that a sequential group separates, and
`Covers`, the pairs with nothing in between.

### NodeGraph

A node is its object, so ids and objects correspond one to one; a freed object
may be created again, which stands for another object.  The reference count is
explicit and a node is allocated when it is not zero.  Actions of phase
"commands" are the OSC handlers with everything they call; `ComputeAudio` is the
end of `tick`; `DoneAction` is `done_action` of a unit, with all the entries it
appends; the `Apply...` actions are the five loops of `apply_done_actions`, an
entry at a time, in the code's order.

Bounds and abstractions: a synth asks for at most one done action per tick
(`asked`), in an order that the dsp queue allows; commands are given a node that
has a parent where the code dereferences it, and no group is moved below itself
(the code checks neither; both are listed as hazards); an entry whose group has
been deleted is applied to the cleared object, which changes nothing.  `due` and
`asked` are history variables.

### ScopeBuffer

The writer's states are none, fill, flag, swap; the reader's idle, load, test,
clear, swap, read.  A region's samples are represented by the serial number of the
push that filled it and of the allocation it belongs to.  `AllocateFails` is the
branch of `allocate` in which the pool is exhausted, after the size has been
stored.

### MsgFifo

The variable `reclaims`, chosen at the start, distinguishes MsgFifo (the writer
reclaims, full is measured against the free position) from MsgFifoNoFree (against the
read position).  Writing an item and publishing it are two steps, so are performing and
advancing, reclaiming and advancing.  The histories `accepted`, `performed` and `freed`
are also the variables of the abstract queue.  `& mask` is `% N`: N is a power of two in
all the code's instances.  `MakeEmpty` is used only in non-realtime synthesis, with
one thread, and is left out.

### GarbageCollector

The state is the colour of every object with `mNumGrey`, the slots of every object, the
stack in use and the frame register.  `Collect()` is a sequence of steps that the program
cannot interrupt (one language mutex), but each may be the last before the credit is used
up: `mNumToScan` is the Boolean `more`.  The other actions are bytecodes and primitives
that move references, with exactly the barrier each one calls.  One treadmill stands for
all size classes; the slots above the stack pointer, which hold stale values, are
dropped; `FlipPeriod` is 4 in the code.  The program is one of `Programs`, a set of
families of operations with bounds.  `removeAt` on the array whose scan is unfinished is
left out of `Next` (see the deviations).  Not modelled: RunAllFinalizers,
SweepBigObjects, reference-counted frames.

### SequencedCommands

One buffer, its entry in the tables of the two threads, the blocks of sample data, and
the commands /b_alloc, /b_allocRead, /b_gen, /b_free, /b_zero, /sync and /b_query with
the completion messages that start further commands.  A message is handled in one step,
which the refinement proved of MsgFifo justifies: between taking a message and
advancing, only the handler sees it.  The code's fifos hold 65536 messages, those of the
run 10, which never fill up with its two packets (`EnoughRoom` is the general bound).  Left out: non-realtime synthesis
(CallEveryStage), synthdef, notify and quit commands, exhaustion of the real-time pool.

### LangClocks

`pc` is where each clock's thread is; everything between acquiring and releasing
`gLangMutex` that others cannot see is one step. A queue keeps only the beats of the
pending tasks, in the order the heap promises. Time is counted in ticks up to `MaxTime`.
Condition variables may wake by themselves; schedStop notifies in a step after it has
released the mutex; undefined behaviour (`fault`) ends the behaviour: two threads that stop
one clock, and a primitive on a clock that TempoClock_stopAll has deleted
(`PrimitiveFault`). A clock that a task makes during TempoClock_stopAll is missed by it;
`newInTask` is the family that does that.

### NodeTree

Only the audio callback: a step is one call of a child's calc function, one done action,
one return to the group, or one command between blocks or in a completion message.
Addresses are interchangeable, generated ids are one value `Hidden`.  `EndIsKept` leaves
out pausing, trace and dump, done actions in constructors, and done action 14 in the root
group, which lose a request (see the deviations).  Left out: world counters, graph
definitions, controls and mappings, queries, memory exhaustion.

### DiskIO

The unit of time and length is a block of samples; half a buffer is two blocks. `cue`,
chosen at the start, says what is played, by which unit, what is recorded and on which
server. `loaded` has, for each unit inside its ++write, the signals it has read: on the
threads of supernova two of them can write the same number. The history `late` remembers
that the disk did not keep up: the promises are about the others. Left out: rates of
VDiskIn other than 1, channel counts, reallocated buffers, files without frames,
non-realtime synthesis.

### OscPackets

A buffer is a sequence of words, because unrolling a bundle copies parts of it; packets
are fresh identities, freed together with their data.  Time is counted in blocks and
stops at `LastBlock`.  Left out: the other messages of the fifos, failing allocations of
completion messages, sockets, non-realtime synthesis.

### ServerLogin

The messages under way are a set, from which any may be taken or lost.  `site`, chosen
at the start, says who runs, who owns the server and which faults happen.  `prompt` is the
assumption that a round trip is shorter than aliveThreadPeriod and than the time an exit
takes to be noticed; without `unnoticed` a server comes back only after it was missed.
`options` is the maxLogins of each client's own ServerOptions: until a /done tells it the
server's, clientID_ (`SetClientID`) refuses ids from there on, and the "already registered"
reply, which brings no maxLogins, leaves such a client with its old id although it counts as
notified.  `NoClash` and `AllLoggedIn` are promised to the clients with `TakesAnyId`; without
it TLC finds both broken at the third site, where a client has the default of 1 (see the
deviations).  Clients start with the id 0; ids chosen by the user are left out.
Left out: TCP, the internal server, supernova's login, prPingApp and prWaitForPidRelease,
doWhenBooted.

## What TLC checks

| run | instance | shows |
|---|---|---|
| `scope_buffer` | 4 pushes, 2 allocations, sizes below, at and above a block | the inductive invariant (`IndInv`: regions apart, what may be pulled is fresher than what is shown, frame counts fit the allocation unless it is less than a block); the view never goes back (`NeverBackwards`); the last picture pushed is shown (`LastPushShown`) |
| `dsp_threads` | 2 helpers; a diamond, a chain and an empty parallel queue, replaced at will; 2 pending posts | `IndInv`; refinement of DspTick (`ImplementsTick`); ticks and shutdowns end (`TickTerminates`, `ShutdownTerminates`) |
| `dependency_graph` | all trees of 3 synths in the root, 2 groups and a parallel group | each synth in one item, in the order of the tree, limits equal predecessors where no group is hollow (`EachSynthInOneItem`, `OrderIsTreeOrder`, `LimitIsPredecessors`) |
| `node_graph` | 3 synths, a group, a parallel group, 12 done actions | tree, counters and queue agree (`TreeConsistent`), reference counts equal holders (`RefsAreHolders`), pending synths live (`PendingSynthsAlive`), what the help says is freed is freed (`DueIsFreed`) |
| `msg_fifo` | ring of 4, 9 messages of 2 kinds, both variants | messages stay intact until reclaimed (`HeldIntact`), refinement of MsgQueue (`ImplementsQueue`) |
| `gc` | 3 cells, a finalizer, 2 threads, a spare stack; 7 programs | `ColorsSound`, `NoDangling`, `FinalizedUnreachable` |
| `commands` | 2 packets and their completion commands, 7 kinds | `NoDanglingBuffer`, `TablesAgree`, `SyncedAfterAll`, `CommandsEnd` |
| `clocks` | SystemClock, 2 TempoClocks, time to 2, 2 tasks per queue | `SleepersAreNotNeeded`, `ClocksAccounted`, `DueIsServed`, `StopEnds` |
| `tree` | root and 3 nodes, every command and done action | `TreeSound`, `CalledInOrder`, `RefsAreHolders`, `EndIsKept` |
| `disk` | half buffers of 2 blocks, a fifo of 2, files of 2 to 5 blocks, 5 blocks recorded | `HeardIsFile`, `RecordingIntact`, `DoneComes` |
| `packets` | 2 packets received, an OSC fifo of 2, 3 blocks | `OneOwner`, `PerformedAsSent`, `AllPerformed` |
| `login` | 2 clients, 5 sites, at one a client with the default options | `NoClash`, `ExitIsKnown`, `AllLoggedIn` |

### Bounds, and why they are enough

Two helpers and the audio thread are the fewest that let two late helpers meet
in one tick; a diamond is the smallest queue with a fork, a join and an item kept
as the next one to run; two pending posts let a helper be a whole tick late.
The build with the watchdog (`YieldIfBusy` FALSE) has the theorems and no run of its own.
Four pushes are one more than there are regions.  Nine writes go more than twice
around the ring of four.  Three synths and three groups below the root contain
every nesting of depth three and every pair of neighbours of the generator.  Done actions
interact through neighbours and enclosing groups: three synths give a synth both
neighbours.  Three cells are a parent, a child and what the child refers to, the
smallest heap in which a barrier that is missing loses something.  Two commands with
completions are four commands in flight.  Two TempoClocks give the list a head and a
tail.  Three nodes give a node both neighbours or a group with a grandchild.  The disk
fifo of 2 fills up when the disk is late.  Two clients compete for one id.

Interchangeable synths, groups, cells and addresses are symmetry sets; no property of a
run with symmetry is a liveness property.  Bounds are in guards and are constants.
Deadlock is checked except in `msg_fifo` and `gc` (the writer and the program may stop),
`disk` (after quit) and `login` (the owner may quit for good).

### Fairness

* `DspThreads`: weak fairness of the audio thread once a tick or a shutdown has
  begun, and of each helper.  They are real-time threads, one per CPU, and none
  waits for a lock.  Nothing is assumed of when ticks begin or queues change.
* `ScopeBuffer`: weak fairness of the rest of a push that has begun (it runs in
  the audio callback) and of the reader (the widget is driven by a timer).
* `MsgFifo`: weak fairness of the reader: the audio callback performs its fifos in
  each period and the other thread loops.  The writer owes nothing.
* `SequencedCommands`: weak fairness of the callback and of the non-realtime thread.
* `LangClocks`: weak fairness of time and of code that returns; strong fairness of the
  threads, each of which needs the mutex: one that is free again and again is
  eventually obtained.
* `DiskIO`: weak fairness of the units, of the end of a recording, of the disk thread
  and of the thread that unloads the plug-in.  `DoneComes` is conditional on the fifo
  not staying full.
* `OscPackets`: weak fairness of the network thread, of the callback and of the
  non-realtime thread; strong fairness of commands coming back and of a callback ending,
  which compete with other steps of the callback.
* `ServerLogin`: weak fairness of the server, of each client's steps, and of the restart
  of a server that crashed.  The number of lost messages is bounded.

## What is proved

TLAPS checks these for every value of the constants that satisfies the named
assumptions.  They only say what the constants stand for:

* `QueueAssumption` (finitely many items; successors and predecessors stay within a
  queue) and `ScopeAssumption` (the sizes are naturals, a block is not empty);
* `FifoAssumption`: the ring has at least two slots.  The code's sizes are powers of two
  and its positions are masked; the theorems need no power, because the model
  takes remainders;
* `ClocksAssumption` and `BoundsAssumption`: the names are different, and the length of a
  beat, 1 / mTempo, is not zero (it is not for any finite tempo; a tempo of zero, whose
  beats never end, is not modelled);
* `SequencedCommandsAssumption`: the fifos hold a message at least, and the kinds of
  commands are those that are modelled;
* `GCAssumption` and `ObjectsAssumption`: finitely many objects, of disjoint kinds; each
  thread has a stack of its own; an object has room for two slots;
* `ServerLoginAssumption`: what a site is, and that no client is called `NoClient`;
* `NodeAssumption`: finitely many synths and groups, which are different, a root that is not
  a parallel group, and done actions from 1 to 15.

`DspThreadsProofs`.  None of the safety properties is inductive: that an item is
run once depends on who made it runnable, this on the counts, and these on which
predecessors have finished.  `TickInv` says all of it at once, and `IndInv` adds how many
helpers are woken.

* `OnePlace`: an item is at any time in at most one place - not yet pushed, on the
  stack, in one local variable of one thread, consumed by one thread - and it is in
  one of the first three only if it has not run and nothing is pending for it.
* `Counters`: the activation count of an item that has not been reset is the number
  of its `Pending` predecessors, those that have not run or whose thread has
  not told it yet; `node_count` is the number of `Uncounted` items.
* `ThreadShape` and `NoDanglingItem` tie the local variables to `pc` and to the
  installed queue; `Quiet` says that nothing is left between ticks.

The step that carries the argument is `DecrementStep`: a decrement removes exactly
one element of `Pending`, so it reads 1 exactly if the set becomes empty, and then
the item is in no other place.  `CountOffStep` is its counterpart for `node_count`:
the consumed sets of the threads are disjoint, so a subtraction to zero means that
nothing is left (`NothingLeft`).  Each action has its lemma; `IndStep` collects
them.  From it follow `TypeCorrect`, `RunsOnce`, `Ordered`, `RestReached`, `NoDangling` and
`Assertions`.  `WakesExisting` needs that an empty queue, whose `used_helper_threads` has
wrapped, never begins a tick (`UsedInv`).  `Inductive` is `Spec => []IndInv`.  `Implements`
proves that the threads implement `DspTick`: `Pop` and the hand-over in
`ResetActivation` begin an item, `JobDone` ends one, `TickEnd` finishes the tick,
and every other step of a thread is a stutter.

`ScopeBufferProofs`.  `Inv` adds to the indices being apart that pushes are
numbered (`PushesNumbered`) and that the stage is fresher than the reader's region
whenever `pull` may exchange (`StageIsFresh`): a push between the reader's test and
its exchange can only put a newer region on the stage.  From it `RegionsDisjoint`,
`FramesBounded` (a frame count exceeds its allocation exactly when that is smaller than a
block), `StageFresh`, and the two action properties `ExchangeFresh` and
`PictureForward`.

`MsgFifoProofs`.  That a slot is not overwritten depends on the distance of positions
that are only known modulo N.  `IndInv` therefore ties them to the histories:
`Positions` (each position is the length of a history modulo N; while a message is
performed or reclaimed, one less), `Chase` (the histories follow one another, less than
a round apart) and `InOrder` (what was performed and reclaimed is what was accepted).
`ModApart`, that different messages less than a round apart are in different slots, is
what makes a write harmless.  `Intact` is `Spec => []HeldIntact`; `Implements` is the
refinement of `MsgQueue`: publishing, performing and reclaiming a message are the
queue's steps, the others stutter.

`LangClocksProofs`.  `NoLostWakeUp` is `Spec => []SleepersAreNotNeeded`, for any number of
clocks, any queues, tempos (negative ones too) and programs; it is almost inductive, and
needs types and that no length of a beat becomes zero (`Settled`).  The
argument is that whoever changes a queue's head, a tempo or a flag notifies before the
mutex is released, and that a thread computes its deadline under the same mutex
(`Undisturbed` collects what a step must leave alone).  `Accounted` is
`Spec => []ClocksAccounted`.  The list of clocks is doubly linked; `ListIsRunning` is
preserved by the constructor only because a clock that is not made yet has a null
`mPrev` (`FreshUnlinked`), and by unlinking because `mPrev` is the inverse of `mNext` on
the list (`ListNew`, `ListUnlink`).  What is on the list is the least set that has the
head and follows `mNext`, so that both can be proved without induction.

`GarbageCollectorProofs`.  `ColorsTrusted`, `NothingLost` and `FinalizedLate` say that
`ColorsSound`, `NoDangling` and `FinalizedUnreachable` hold under every program, of any
number of objects, threads and stacks, and for every flip period.  None is inductive.
`IndInv` says of each object that its references are live, that those in its scanned
slots are not white when it is black, and permanent when it is permanent (`Sound`; the
stack in use and stacks that reallocStack replaced are the exceptions that the code
makes).  To this it adds

* `ThreadsShaped` and `StacksUnshared`: a stack is referred to by the one thread that will
  return to it.  This is why SwitchToThread may colour the two stacks without a barrier,
  and why a replaced stack, which stays black with white references, does no harm: no
  live object refers to it;
* `FramesShaped`: frames are live, are never frozen, and are linked through their first slot;
* `TempsHeld`: the locals of a primitive are live because no collection runs meanwhile;
* `FinalizersLinked`: a finalizer and its object refer to each other, so one flip takes both;
* `RootsScanned`: from the scan of the stack and the frames until the flip, what they refer
  to is not white.

`Mutates`, `MovesSafe` and `Allocated` are the three ways in which a step of the program may
change the heap; each bytecode and primitive is shown to be an instance.  `ScanSafe` is the same for
the collector.  `FlipStep` is where everything meets: without grey objects and with the
roots scanned, the objects that are not white are closed under references
(`ReadyToFlip`), so what the flip frees is not referred to.

`SequencedCommandsProofs`.  The commands are told apart by their numbers, and how far each
is (`stage`) says where it can be.  `Pipeline`, in `IndInv`, says that a command is in one
fifo at most, that each fifo has the commands for one stage in the order of their
creation, and that no command has passed a stage that an earlier one is on its way to.
It holds whatever the fifos drop.  A completion message creates a command between the
third stage of its own command and the message that passes this one on, which is the case
that the order per stage, and not per fifo, is stated for.  On it rest

* `DataIsHeld`: what a command on its way has to free is not in a table that is
  newer, nor brought by a later command (`Apart`), so the fourth stage frees nothing that is
  in use.  `NothingDangles` is `Spec => []NoDanglingBuffer`, for fifos of any size.  It assumes
  `~EmptyReads` and `~MemoryFails`, because the code breaks it otherwise (see the deviations);
  only that a buffer with samples has data needs the second;
* `SyncIsHonest`: `Spec /\ []NotFull => []SyncedAfterAll`.  While nothing is dropped, each
  command that has not ended is in a fifo (`OnTheWay`), and is not overtaken by the /sync;
* `TablesMeet`: `Spec /\ []NotFull => []TablesAgree`, under the same two assumptions.  The last of
  the commands that install something brings what the non-realtime thread has (`Mirrored`), and each
  block is in use or owed by one command (`Accounted`).

`NotFull` is what the code takes for granted when it ignores the result of SendMsgFromEngine
and SendMsgToEngine.  `EnoughRoom` proves it from a bound on the packets, by counting: a
packet makes at most two commands, and each goes through fromEngine twice.

`ServerLoginProofs`.  `IdsKept` and `NeverEmpty` need no hypotheses.  The free ids have no
repetitions and are what the users do not have (`RemoveOne`, `AppendNew`); while fewer users are
registered than there are ids, one of them is not taken (`OneIsFree`), so `front` is never
called on an empty list.  `NeverClash` is `[]NoClash`, for any number of clients, losses,
crashes and restarted clients, `prompt` or not.  `LoginInv` says that there is an injective
assignment of ids with which every client that takes itself for logged in, or has a routine
that will (`Enters`), and every reply under way agree; while the server is up it is
mClientIDdict, and after a crash it is what that was.  A client agrees with it as long as its
clientID_ refuses no id of the server: `TakesAnyId`, in `NoClash` itself.  The other
hypotheses are that nobody is switched off (`toggling`), and `NoticedFirst`: a server comes
back when nobody has anything left of the one before.  Without either, TLC finds a clash with
two clients; with the first, the sites of the run keep the second.  `ExitKnown` is
`[]ExitIsKnown` at `prompt` sites, and TLC finds it broken elsewhere (see the deviations):
from the call of prOnServerProcessExit on nothing of the owner is under way (`Silent`).

`NodeGraphProofs`.  `TreeIsConsistent`, `ReferencesAreHolders` and `PendingAreAlive` hold for
any number of nodes and every done action.  They rest on `GraphInvariant`, `Spec => []GraphInv`:

* `TreeInv`: a group lists exactly the nodes whose parent it is, each once (`Forest`), no group
  is under itself (`Acyclic`), nodes with a parent are in the node set (`Registered`), the
  counters are exact, `refs` counts the holders, and the queue has the synths of the tree
  unless it is dirty (`QueueCurrent`).  The counts are not inductive without the forest:
  a free subtracts what it finds in a subtree, which must have each node once;
* `ListTypes` and `PendingHeld`: what the lists of done actions name.  A pending synth is
  alive because the queue that computed it still holds it: the queue is replaced by commands only,
  and these come when the lists are empty.

A subtree is computed level by level.  That it is the least set that has the node and,
with a group, its children (`UnderLeast`, `UnderClosed`) is proved once, by induction
over a set of numbers.  Everything else uses only this: that putting a node under a group that is
not below it makes no cycle (`GraftAcyclic`), that taking a node out changes no other subtree
(`PruneAcyclic`), and that a free removes from the tree exactly what it takes from the counters
(`FreedFacts`, `LessCount`).  Each command and each entry of the done actions is add,
replace, move, order or free, and there is a lemma for each of these.

`DueAreFreed` is `Spec => []DueIsFreed`.  `DueCovered` says that a node that is due to be freed
and is still in the tree is covered by an entry that is not yet applied: one for the node
itself, or for a group above it.  What makes this hard is that an entry can be applied late,
when others have emptied its group.  The hypothesis is that no unit uses
the done actions 6, 8 and 12, which the code gives another meaning than their
documentation (see the deviations).

Only model-checked:

* liveness, because fairness and ENABLED are out of the prover's reach;
* everything about `DependencyGraph`: its operators are recursive, and what they compute
  for every tree needs an induction over data that these provers cannot do;
* `NodeTree`, `DiskIO` and `OscPackets`.  `NodeTree` walks its tree recursively while it
  changes, and `DiskIO` folds over sequences; for `OscPackets` see the plan.

## Known deviations

Places where the code does something else than a comment, a help file or a test says.
The models contain what the code does; where a deviation breaks a property, the run
leaves the case out by a constant, a guard or a hypothesis that is named here.

* `common/scope_buffer.hpp:103`: a reallocation keeps the old frame counts and flags, and
  `plugins/DelayUGens.cpp:4506` writes a whole block even if less was allocated.  The
  invariant says when a count is too large, of those announced since the allocation.
* `supernova/server/group.hpp:309`: a group whose last non-empty child group contains
  only empty groups is taken to have no tail nodes; the next item's activation limit is
  too small.  Smallest tree: `root[a[t, b[c[]]], s]`.  Excluded by `~HasHollow`.
* `supernova/server/node_graph.hpp:97`: a node replaced with add action 4 stays in the
  node set and cannot be freed any more.
* `supernova/sc/sc_plugin_interface.cpp:228`: done actions 6, 8 and 12 act on the
  preceding nodes.  Left out of `DoneActions`.
* `supernova/sc/sc_plugin_interface.cpp:782`: the done list can hold a group that an
  earlier entry has deleted.  `PendingSynthsAlive` is about synths.
* `lang/LangPrimSource/PyrArrayPrimitives.cpp:218`: removeAt gives the barrier one
  element; in a partially scanned array another one can cross the scan position.
  Excluded by `RemoveAtSettled`.
* `lang/LangPrimSource/PyrPrimitive.cpp:838`: reallocStack leaves the old stack black
  with white references (harmless, but a sanity check of the collector reports it);
  `retired`.
* `scsynth/SC_SequencedCommand.cpp:489`: /b_allocRead of no frames frees the data that is
  in use (`EmptyReads`).  `:292`: without memory the tables differ and the old data is
  leaked (`MemoryFails`).  `:214`: a full fifo drops a command (`FifoSize` = 2), and a
  later /sync still replies.
* `lang/LangPrimSource/PyrSched.cpp:789`: a task that sets its clock's beats back does not
  postpone tasks that were due with it.  `:687`: a clock that is told to stop goes on
  until its stop thread has the mutex.  `:633`: TempoClock_stopAll and a stop thread can
  both join and delete a clock (`fault`).  `:635`: it deletes clocks that objects still point
  to, and later primitives (`:982`, `:1007`) use them (`PrimitiveFault`).  `:66`, `:77`:
  addheap can write two slots past its array, and its stability count wraps (not modelled).
* `scsynth/SC_Node.cpp:156`: a node put before, after or in place of the root is in no
  group.  `:277`: pausing a node that is to be deleted keeps it.  `:474`: done action 14
  in the root group stops the server's audio.  `scsynth/SC_Graph.cpp:799` and `:683`:
  tracing, and constructors, undo a request to free the node.  `:120`: /n_end can carry an
  id that is in use again.
* `plugins/DiskIO_UGens.cpp:131`: a loop of a file shorter than a third of the half buffer
  is read to the wrong places.  `:393`: /b_close can come before the last chunk.
  `common/SC_SyncCondition.h:62`, `:69`: signals get lost between the threads of
  supernova, and between a test and a sleep.
* `scsynth/SC_CoreAudio.h:223`, `:207`, `SC_CoreAudio.cpp:408`: packets are leaked when the
  scheduler or the fifo is full, and by /clearSched.  `SC_ComPort.cpp:88`: messages beside
  nested bundles are copied to wrong places.  `:110`, `:108`: an outer packet is freed
  twice when an inner one is refused, and cloned after it may have been freed.  The run
  has no mixed bundles and fifos that hold what is needed.
* `SCClassLibrary/Common/Control/Server.sc:386`: a client whose options allow fewer logins
  (by default 1) than the server refuses the id it had there, and `ServerStatus.sc:281` takes
  it for registered with its old one: after a lost /done or a restart two clients can have id
  0.  `MultiClient_Setups.schelp:34` says that the client will use the id it had.  `TakesAnyId`.
* `SCClassLibrary/Common/Control/ServerStatus.sc:246`: serverRunning before ServerTree has
  run.  `:14`: unresponsive after one ping.  `:132`: a late reply revives a server that has
  exited (needs `~prompt`).  `:216`, `:127`: a reboot that is not noticed leaves a client
  unregistered, and its id is given to another (`unnoticed`).  `:230`: reordered replies
  skip ServerBoot and ServerTree.
* Parts that were read and are not modelled: `supernova/server/node_graph.cpp:62` and `:82`
  (searches for a free id that never end), `plugins/DemandUGens.cpp:2290` and
  `DelayUGens.cpp:979` (buffer locks taken twice or not released), reblocked I/O units in
  `plugins/IOUGens.cpp`, and `common/SC_AllocPool.cpp` (Realloc backwards frees the
  remainder before it moves the data; LargestFreeChunk of a full pool reads `mBins[-1]`).

## Not modelled

Memory orders weaker than sequential consistency.  Numerical code, GUI, IDE, SCDoc,
drivers and sockets.  The parser and the byte code interpreter, which are sequential.
supernova's buffer locks, callback interpreter and node ids, the audio buses, the
class library's allocators and the real-time pool: closed protocols or sequential data
structures on which no module here depends.

## Plan

1. Proofs about `OscPackets` (`OneOwner`).
2. Proofs about `NodeTree`, along the lines of `NodeGraphProofs`.
3. A composition of tree, generator and threads: a tick runs exactly the synths of
   the tree, in its order.
4. supernova's callback interpreter and its asynchronous commands.
5. Store buffers for the scope buffer and the fifos.

## Running

    tlc -config MCDspThreads.cfg MCDspThreads
    tlapm DspThreadsProofs.tla

Every run takes less than four minutes on two cores; the longest are `gc`, `node_graph`
and `clocks`.
