-------------------------- MODULE DspThreadsProofs ---------------------------
(***************************************************************************)
(* Proofs that the parallel DSP engine is safe for every number of helpers *)
(* and every family of finite queues: TickInv is inductive, it implies the *)
(* safety properties, and the engine implements DspTick.                   *)
(***************************************************************************)
EXTENDS DspThreads, FiniteSetTheorems, TLAPS

LEMMA ThreadFacts == Main \in Thread /\ Helper = Thread \ {Main}
BY QueueAssumption DEF Main, Thread, Helper

LEMMA FiniteParts ==
  ASSUME NEW S \in SUBSET Item
  PROVE  /\ IsFiniteSet(S)
         /\ Cardinality(S) \in Nat
         /\ Cardinality(S) = 0 <=> S = {}
BY QueueAssumption, FS_Subset, FS_CardinalityType, FS_EmptySet

LEMMA RemoveOne ==
  ASSUME NEW S \in SUBSET Item, NEW x \in S
  PROVE  Cardinality(S \ {x}) = Cardinality(S) - 1
<1>1. IsFiniteSet(S)
  BY FiniteParts
<1> QED
  BY <1>1, FS_RemoveElement

LEMMA RemovePart ==
  ASSUME NEW S \in SUBSET Item, NEW T \in SUBSET S
  PROVE  Cardinality(S \ T) = Cardinality(S) - Cardinality(T)
<1>1. IsFiniteSet(S) /\ S \cap T = T
  BY FiniteParts
<1> QED
  BY <1>1, FS_Difference

LEMMA CurrentItems ==
  ASSUME TypeOK
  PROVE  /\ Current \subseteq Item
         /\ \A i \in Current : Succ[i] \subseteq Current /\ Pred(i) \subseteq Current
BY QueueAssumption DEF Current, TypeOK

LEMMA PendingItems ==
  ASSUME TypeOK, NEW s \in Item
  PROVE  Pending(s) \subseteq Pred(s) /\ Pred(s) \subseteq Item /\ Pending(s) \subseteq Item
BY DEF Pending, Pred

LEMMA LimitType == ASSUME NEW i \in Item PROVE Limit(i) \in Nat
BY FiniteParts DEF Limit, Pred

LEMMA HelpersForType == ASSUME NEW q \in Queue PROVE HelpersFor(q) \in 0..255
<1>1. Cardinality(ItemsOf[q]) \in Nat
  BY QueueAssumption, FiniteParts
<1>2. Smaller(Smaller(Cardinality(ItemsOf[q]), 255), NumHelpers + 1) - 1 \in Int
  BY <1>1, QueueAssumption DEF Smaller
<1> QED
  BY <1>2 DEF HelpersFor

LEMMA InitInd == Init => TickInv
<1> SUFFICES ASSUME Init PROVE TickInv
  OBVIOUS
<1> USE ThreadFacts
<1>1. TypeOK
  BY QueueAssumption DEF Init, TypeOK, Labels
<1>2. Current = {} /\ Uncounted = {}
  BY DEF Init, Current, Uncounted
<1>3. NoDanglingItem /\ Quiet
  BY <1>2 DEF Init, NoDanglingItem, Quiet
<1>4. \A t \in Thread : ThreadShape(t)
  BY <1>2 DEF Init, ThreadShape
<1>5. \A i \in Item : OnePlace(i)
  BY QueueAssumption DEF Init, OnePlace, Has
<1>6. Counters
  BY <1>2, FS_EmptySet DEF Init, Counters, Between
<1> QED
  BY <1>1, <1>3, <1>4, <1>5, <1>6 DEF TickInv

\* Every action keeps the types.
LEMMA TypeStep == ASSUME TickInv, [Next]_vars PROVE TypeOK'
<1>0. TypeOK
  BY DEF TickInv
<1> USE <1>0, ThreadFacts DEF TypeOK, Goto, At
<1>1. ASSUME NEW q \in Queue, ResetQueue(q) PROVE TypeOK'
  BY <1>1, HelpersForType, LimitType DEF ResetQueue, local, signals
<1>2. CASE InitTick
  <2>1. Cardinality(Current) \in Nat /\ InitiallyRunnable \in SUBSET Item
    BY CurrentItems, FiniteParts DEF InitiallyRunnable
  <2> QED
    BY <1>2, <2>1 DEF InitTick, signals, Labels
<1>3. CASE PushInitial
  BY <1>3 DEF PushInitial, signals
<1>4. CASE WakeThreads
  BY <1>4 DEF WakeThreads, shared, Labels
<1>5. CASE TickEnd
  BY <1>5 DEF TickEnd, shared, signals, Labels
<1>6. ASSUME NEW h \in Helper, StopHelper(h) PROVE TypeOK'
  BY <1>6 DEF StopHelper, shared, Labels
<1>7. CASE ReleaseQueue
  BY <1>7 DEF ReleaseQueue, signals, Labels
<1>8. ASSUME NEW h \in Helper, Wait(h) PROVE TypeOK'
  BY <1>8 DEF Wait, shared, signals, Labels
<1>12. ASSUME NEW h \in Helper, TestStop(h) PROVE TypeOK'
  BY <1>12 DEF TestStop, shared, signals, Labels
<1>9. ASSUME NEW t \in Thread, RunItem(t) PROVE TypeOK'
  <2>1. CASE CheckNodeCount(t)
    BY <2>1 DEF CheckNodeCount, Returned, shared, signals, Labels
  <2>2. CASE PopNothing(t)
    BY <2>2 DEF PopNothing, shared, signals, Labels
  <2>3. CASE Pop(t)
    BY <2>3 DEF Pop, Popped, signals, Labels
  <2>4. CASE JobDone(t)
    <3>1. item[t] \in Item
      BY <2>4 DEF JobDone, ThreadShape, TickInv
    <3>2. Succ[item[t]] \in SUBSET Item
      BY <3>1, QueueAssumption
    <3> QED
      BY <2>4, <3>1, <3>2 DEF JobDone, shared, signals, Labels
  <2>5. CASE Decrement(t)
    <3>1. PICK s \in todo[t] : DecrementOne(t, s)
      BY <2>5 DEF Decrement, DecrementOne
    <3>2. /\ UNCHANGED <<queue, used, nodeCount, runnable, item, consumed, polls, runs>>
          /\ UNCHANGED <<sem, stop>>
      BY <2>5 DEF Decrement, signals
    <3>3. next' \in [Thread -> Item \cup {None}] /\ pushing' \in [Thread -> Item \cup {None}]
      BY <3>1 DEF DecrementOne
    <3>4. pc' \in [Thread -> Labels]
      BY <3>1 DEF DecrementOne, Labels
    <3>5. activation' \in [Item -> Int] /\ todo' \in [Thread -> SUBSET Item]
      BY <3>1 DEF DecrementOne
    <3> QED
      BY <3>2, <3>3, <3>4, <3>5
  <2>6. CASE MarkAsRunnable(t)
    <3>1. pushing[t] \in Item
      BY <2>6 DEF MarkAsRunnable, ThreadShape, TickInv
    <3> QED
      BY <2>6, <3>1 DEF MarkAsRunnable, signals, Labels
  <2>7. CASE ResetActivation(t)
    <3>1. item[t] \in Item
      BY <2>7 DEF ResetActivation, ThreadShape, TickInv
    <3> QED
      BY <2>7, <3>1, LimitType DEF ResetActivation, FreshCount, signals, Labels
  <2>8. CASE CountOff(t)
    <3>1. Counted(t) \in Nat
      BY FiniteParts DEF Counted
    <3> QED
      BY <2>8, <3>1 DEF CountOff, Returned, signals, Labels
  <2> QED
    BY <1>9, <2>1, <2>2, <2>3, <2>4, <2>5, <2>6, <2>7, <2>8 DEF RunItem
<1>10. CASE UNCHANGED vars
  BY <1>10 DEF vars
<1>11. CASE Finished
  BY <1>10, <1>11 DEF Finished
<1> QED
  BY <1>1, <1>2, <1>3, <1>4, <1>5, <1>6, <1>7, <1>8, <1>9, <1>10, <1>11, <1>12 DEF Next

-----------------------------------------------------------------------------
\* When node_count is zero nobody holds an item and every item has run.
LEMMA NothingLeft ==
  ASSUME TickInv, nodeCount = 0
  PROVE  /\ \A t \in Thread : /\ item[t] = None /\ next[t] = None /\ pushing[t] = None
                              /\ consumed[t] = {}
         /\ \A i \in Item : runnable[i] = 0
         /\ \A i \in Current : activation[i] = Limit(i)
         /\ ~Between => \A i \in Current : runs[i] = 1
<1> USE DEF TickInv
<1>0. Current \subseteq Item /\ None \notin Item
  BY CurrentItems, QueueAssumption
<1>1. CASE Between
  <2>1. \A t \in Thread : item[t] = None /\ consumed[t] = {}
    BY <1>1 DEF Quiet
  <2>2. \A t \in Thread : next[t] = None /\ pushing[t] = None
    BY <2>1 DEF ThreadShape
  <2> QED
    BY <1>1, <2>1, <2>2 DEF Quiet
<1>2. CASE ~Between
  <2>1. Uncounted = {}
    BY <1>0, <1>2, FiniteParts DEF Counters, Uncounted
  <2>2. \A i \in Current : runs[i] = 1
    BY <1>0, <2>1 DEF Uncounted, OnePlace
  <2>3. \A t \in Thread : item[t] = None /\ consumed[t] = {}
    BY <2>1 DEF Uncounted, NoDanglingItem, ThreadShape
  <2>4. \A t \in Thread : next[t] = None /\ pushing[t] = None
    BY <2>3 DEF ThreadShape
  <2>5. \A i \in Item : runnable[i] = 0
    <3> SUFFICES ASSUME NEW i \in Item, runnable[i] # 0 PROVE FALSE
      OBVIOUS
    <3>1. i \in Current
      BY DEF NoDanglingItem, TypeOK
    <3> QED
      BY <3>1, <2>2 DEF OnePlace, Ready
  <2>6. \A i \in Current : activation[i] = Limit(i)
    BY <1>0, <2>2, <2>3 DEF Counters
  <2> QED
    BY <2>2, <2>3, <2>4, <2>5, <2>6
<1> QED
  BY <1>1, <1>2

\* A step that moves one thread between labels at which it holds nothing.
LEMMA PassiveStep ==
  ASSUME TickInv, TypeOK', NEW t \in Thread, NEW l \in Labels,
         UNCHANGED <<queue, nodeCount, runnable, activation, item, todo, next,
                     pushing, consumed, runs>>,
         pc' = [pc EXCEPT ![t] = l],
         pc[t] \notin {"job", "deps", "push", "count"},
         l \notin {"job", "deps", "push", "count", "init"},
         IF t = Main
         THEN l \notin {"asleep", "woken", "exited"}
         ELSE l \notin {"idle", "init", "wait", "join", "terminated", "aborted"},
         Between' => nodeCount = 0,
         Between => Between'
  PROVE  TickInv'
<1> USE ThreadFacts DEF TickInv
<1>1. Current' = Current
  BY DEF Current
<1>2. \A s \in Item : Pending(s)' = Pending(s)
  <2>1. \A u \in Thread, s \in Item : Owes(u, s)' <=> Owes(u, s)
    BY DEF Owes, TypeOK
  <2> QED
    BY <2>1 DEF Pending
<1>3. Uncounted' = Uncounted
  BY <1>1 DEF Uncounted
<1>4. NoDanglingItem'
  BY <1>1 DEF NoDanglingItem
<1>5. \A u \in Thread : ThreadShape(u)'
  BY <1>1 DEF ThreadShape, TypeOK
<1>6. \A i \in Item : OnePlace(i)'
  <2> SUFFICES ASSUME NEW i \in Item PROVE OnePlace(i)'
    OBVIOUS
  <2>1. \A u \in Thread : pc'[u] = "job" <=> pc[u] = "job"
    BY DEF TypeOK
  <2>2. \A u \in Thread : Has(u, i)' <=> Has(u, i)
    BY DEF Has
  <2>3. Ready(i)' <=> Ready(i)
    BY <1>2 DEF Ready
  <2>4. pc'[Main] = "init" => pc[Main] = "init"
    BY DEF TypeOK
  <2> QED
    BY <1>1, <1>2, <2>1, <2>2, <2>3, <2>4 DEF OnePlace
<1>7. Counters'
  BY <1>1, <1>2, <1>3, CurrentItems DEF Counters
<1>8. Quiet'
  BY <1>1, NothingLeft DEF Quiet
<1> QED
  BY <1>4, <1>5, <1>6, <1>7, <1>8

\* The steps of PassiveStep's kind.
LEMMA PassiveActions ==
  ASSUME TickInv, TypeOK',
         \/ WakeThreads \/ TickEnd
         \/ \E h \in Helper : StopHelper(h) \/ Wait(h) \/ TestStop(h)
         \/ \E t \in Thread : CheckNodeCount(t) \/ PopNothing(t)
  PROVE  TickInv'
<1> USE ThreadFacts DEF TickInv, TypeOK, Between, Goto, At, shared, signals, Labels
<1>0. Between => nodeCount = 0
  BY DEF Counters
<1>1. CASE WakeThreads
  <2>1. /\ pc[Main] = "init" /\ pc' = [pc EXCEPT ![Main] = "check"]
        /\ UNCHANGED <<queue, nodeCount, runnable, activation, item, todo, next,
                       pushing, consumed, runs>>
    BY <1>1 DEF WakeThreads
  <2>2. ~Between /\ ~Between'
    BY <2>1
  <2> QED
    BY <2>1, <2>2, PassiveStep
<1>2. CASE TickEnd
  BY <1>2, PassiveStep DEF TickEnd, AllDone
<1>3. ASSUME NEW h \in Helper, StopHelper(h) PROVE TickInv'
  <2>1. /\ pc[Main] \in {"idle", "join"} /\ pc' = [pc EXCEPT ![Main] = "join"]
        /\ UNCHANGED <<queue, nodeCount, runnable, activation, item, todo, next,
                       pushing, consumed, runs>>
    BY <1>3 DEF StopHelper
  <2>2. Between /\ Between'
    BY <2>1
  <2> QED
    BY <1>0, <2>1, <2>2, PassiveStep
<1>4. ASSUME NEW h \in Helper, Wait(h) PROVE TickInv'
  BY <1>0, <1>4, PassiveStep DEF Wait
<1>5. ASSUME NEW h \in Helper, TestStop(h) PROVE TickInv'
  BY <1>0, <1>5, PassiveStep DEF TestStop
<1>6. ASSUME NEW t \in Thread, CheckNodeCount(t) PROVE TickInv'
  BY <1>0, <1>6, PassiveStep DEF CheckNodeCount, Returned
<1>7. ASSUME NEW t \in Thread, PopNothing(t) PROVE TickInv'
  BY <1>0, <1>7, PassiveStep DEF PopNothing
<1> QED
  BY <1>1, <1>2, <1>3, <1>4, <1>5, <1>6, <1>7

\* Installing or removing a queue between ticks.
LEMMA QueueActions ==
  ASSUME TickInv, TypeOK', ReleaseQueue \/ \E q \in Queue : ResetQueue(q)
  PROVE  TickInv'
<1> USE ThreadFacts DEF TickInv
<1>0. Between /\ nodeCount = 0 /\ nodeCount' = 0
  BY DEF ReleaseQueue, ResetQueue, BetweenTicks, Between, Counters
<1>1. /\ \A t \in Thread : /\ item[t] = None /\ next[t] = None /\ pushing[t] = None
                           /\ consumed[t] = {}
      /\ \A i \in Item : runnable[i] = 0
  BY <1>0, NothingLeft
<1>2. /\ UNCHANGED <<item, next, pushing, consumed, runnable, todo>>
      /\ Between'
      /\ pc'[Main] # "init"
      /\ \A t \in Thread : pc'[t] = pc[t] \/ (t = Main /\ pc'[t] = "terminated")
  <2>1. UNCHANGED <<item, next, pushing, consumed, runnable, todo>>
    BY DEF ReleaseQueue, ResetQueue, local
  <2>2. CASE ReleaseQueue
    <3>1. pc' = [pc EXCEPT ![Main] = "terminated"]
      BY <2>2 DEF ReleaseQueue, Goto
    <3> QED
      BY <2>1, <3>1 DEF TypeOK, Between
  <2>3. CASE \E q \in Queue : ResetQueue(q)
    <3>1. pc' = pc /\ pc[Main] = "idle"
      BY <2>3 DEF ResetQueue, BetweenTicks, local
    <3> QED
      BY <2>1, <3>1 DEF Between
  <2> QED
    BY <2>2, <2>3
<1>3. NoDanglingItem'
  BY <1>1, <1>2 DEF NoDanglingItem
<1>4. \A t \in Thread : ThreadShape(t)'
  BY <1>1, <1>2 DEF ThreadShape
<1>5. \A t \in Thread, i \in Item : ~Has(t, i) /\ ~Has(t, i)'
  BY <1>1, <1>2, QueueAssumption DEF Has
<1>6. CASE ReleaseQueue
  <2>1. Current' = {}
    BY <1>6 DEF ReleaseQueue, Current
  <2>2. \A s \in Item : Pending(s)' = Pending(s)
    <3>1. \A t \in Thread, s \in Item : ~Owes(t, s) /\ ~Owes(t, s)'
      BY <1>1, <1>2, <1>4 DEF Owes, ThreadShape
    <3> QED
      BY <3>1, <1>6 DEF Pending, ReleaseQueue
  <2>3. \A i \in Item : OnePlace(i)'
    <3>1. UNCHANGED runs
      BY <1>6 DEF ReleaseQueue
    <3> QED
      BY <1>1, <1>2, <1>5, <2>2, <3>1, QueueAssumption DEF OnePlace, Ready
  <2>4. Quiet' /\ Counters'
    BY <1>0, <1>1, <1>2, <2>1 DEF Counters, Quiet
  <2> QED
    BY <1>3, <1>4, <2>3, <2>4
<1>7. ASSUME NEW q \in Queue, ResetQueue(q) PROVE TickInv'
  <2>1. Current' = ItemsOf[q] /\ ItemsOf[q] \subseteq Item
    BY <1>7, QueueAssumption DEF ResetQueue, Current
  <2>2. runs' = [i \in Item |-> 0]
    BY <1>7 DEF ResetQueue
  <2>3. \A s \in Item : Pending(s)' = Pred(s)
    BY <2>2 DEF Pending, Pred
  <2>4. \A i \in Item : OnePlace(i)'
    BY <1>1, <1>2, <1>5, <2>2, QueueAssumption DEF OnePlace
  <2>5. \A i \in Current' : activation'[i] = Cardinality(Pending(i)')
    BY <1>7, <2>1, <2>3 DEF ResetQueue, Limit
  <2>6. Counters'
    BY <1>0, <1>2, <2>1, <2>2, <2>5 DEF Counters
  <2>7. Quiet'
    BY <1>1, <1>2, <1>7, <2>1 DEF ResetQueue, Quiet
  <2> QED
    BY <1>3, <1>4, <2>4, <2>6, <2>7
<1> QED
  BY <1>6, <1>7

\* The beginning of a tick.
LEMMA InitTickStep ==
  ASSUME TickInv, TypeOK', InitTick
  PROVE  TickInv'
<1> USE ThreadFacts DEF TickInv
<1>0. Between /\ nodeCount = 0 /\ pc[Main] = "idle"
  BY DEF InitTick, Between, Counters
<1>1. /\ \A t \in Thread : /\ item[t] = None /\ next[t] = None /\ pushing[t] = None
                           /\ consumed[t] = {}
      /\ \A i \in Item : runnable[i] = 0
  BY <1>0, NothingLeft
<1>2. /\ UNCHANGED <<item, next, pushing, consumed, runnable, queue, activation>>
      /\ pc' = [pc EXCEPT ![Main] = "init"]
      /\ todo' = [todo EXCEPT ![Main] = InitiallyRunnable]
      /\ runs' = [i \in Item |-> 0]
      /\ nodeCount' = Cardinality(Current)
  BY DEF InitTick, Goto
<1>3. Current' = Current /\ Current \subseteq Item
  BY <1>2, CurrentItems DEF Current
<1>4. \A t \in Thread, i \in Item : ~Has(t, i) /\ ~Has(t, i)'
  BY <1>1, <1>2, QueueAssumption DEF Has
<1>5. ~Between'
  BY <1>2 DEF TypeOK, Between
<1>6. NoDanglingItem' /\ Quiet'
  BY <1>1, <1>2, <1>5 DEF NoDanglingItem, Quiet
<1>7. \A t \in Thread : ThreadShape(t)'
  BY <1>0, <1>1, <1>2 DEF ThreadShape, TypeOK
<1>8. \A s \in Item : Pending(s)' = Pred(s)
  BY <1>2 DEF Pending, Pred
<1>9. \A i \in Item : OnePlace(i)'
  <2> SUFFICES ASSUME NEW i \in Item PROVE OnePlace(i)'
    OBVIOUS
  <2>1. i \in todo'[Main] => i \in Current /\ Pred(i) = {}
    BY <1>2, FiniteParts DEF InitiallyRunnable, Limit, Pred, TypeOK
  <2> QED
    BY <1>1, <1>2, <1>3, <1>4, <1>8, <2>1, QueueAssumption DEF OnePlace, Ready
<1>10. Counters'
  <2>1. \A i \in Current : activation[i] = Cardinality(Pred(i))
    BY <1>0 DEF Quiet, Limit
  <2>2. Uncounted' = Current
    BY <1>2, <1>3 DEF Uncounted
  <2> QED
    BY <1>2, <1>3, <1>5, <1>8, <2>1, <2>2 DEF Counters
<1> QED
  BY <1>6, <1>7, <1>9, <1>10

\* Pushing an initial item.
LEMMA PushInitialStep ==
  ASSUME TickInv, TypeOK', PushInitial
  PROVE  TickInv'
<1> USE ThreadFacts DEF TickInv
<1>1. PICK j \in todo[Main] : /\ runnable' = [runnable EXCEPT ![j] = @ + 1]
                              /\ todo' = [todo EXCEPT ![Main] = @ \ {j}]
  BY DEF PushInitial
<1>2. /\ UNCHANGED <<queue, nodeCount, activation, pc, item, next, pushing, consumed, runs>>
      /\ pc[Main] = "init"
  BY DEF PushInitial
<1>3. /\ j \in Item /\ j \in Current /\ Ready(j) /\ runnable[j] = 0
      /\ \A t \in Thread : ~Has(t, j)
  BY <1>2 DEF OnePlace, TypeOK
<1>4. Current' = Current
  BY <1>2 DEF Current
<1>5. \A s \in Item : Pending(s)' = Pending(s)
  <2>1. \A t \in Thread, s \in Item : Owes(t, s)' <=> Owes(t, s)
    BY <1>1, <1>2 DEF Owes, TypeOK
  <2> QED
    BY <1>2, <2>1 DEF Pending
<1>6. Uncounted' = Uncounted
  BY <1>2, <1>4 DEF Uncounted
<1>7. NoDanglingItem'
  BY <1>1, <1>2, <1>3, <1>4 DEF NoDanglingItem, TypeOK
<1>8. \A t \in Thread : ThreadShape(t)'
  BY <1>1, <1>2, <1>4 DEF ThreadShape, TypeOK
<1>9. \A i \in Item : OnePlace(i)'
  <2> SUFFICES ASSUME NEW i \in Item PROVE OnePlace(i)'
    OBVIOUS
  <2>1. /\ \A t \in Thread : Has(t, i)' <=> Has(t, i)
        /\ Ready(i)' <=> Ready(i)
    BY <1>2, <1>5 DEF Has, Ready
  <2>2. i # j => runnable'[i] = runnable[i]
    BY <1>1 DEF TypeOK
  <2>3. runnable'[j] = 1 /\ j \notin todo'[Main]
    BY <1>1, <1>3 DEF TypeOK
  <2>4. i \in todo'[Main] => i \in todo[Main]
    BY <1>1 DEF TypeOK
  <2> QED
    BY <1>2, <1>3, <1>4, <1>5, <2>1, <2>2, <2>3, <2>4 DEF OnePlace
<1>10. Counters' /\ Quiet'
  BY <1>2, <1>4, <1>5, <1>6, CurrentItems DEF Counters, Quiet, Between
<1> QED
  BY <1>7, <1>8, <1>9, <1>10

\* A thread takes an item off the stack.
LEMMA PopStep ==
  ASSUME TickInv, TypeOK', NEW t \in Thread, Pop(t)
  PROVE  TickInv'
<1> USE ThreadFacts DEF TickInv
<1>1. PICK j \in Item : /\ runnable[j] > 0
                        /\ runnable' = [runnable EXCEPT ![j] = @ - 1]
                        /\ item' = [item EXCEPT ![t] = j]
  BY DEF Pop, Popped
<1>2. /\ pc[t] = "pop"
      /\ pc' = [pc EXCEPT ![t] = "job"]
      /\ UNCHANGED <<queue, nodeCount, activation, todo, next, pushing, runs>>
      /\ consumed' = [consumed EXCEPT ![t] = {}]
  BY DEF Pop, At, Goto
<1>3. /\ item[t] = None /\ next[t] = None /\ pushing[t] = None /\ consumed[t] = {}
      /\ consumed' = consumed
  BY <1>2 DEF ThreadShape, TypeOK
<1>4. runnable[j] = 1 /\ Ready(j) /\ j \in Current /\ \A u \in Thread : ~Has(u, j)
  BY <1>1 DEF OnePlace, NoDanglingItem, TypeOK
<1>5. Current' = Current /\ None \notin Item
  BY <1>2, QueueAssumption DEF Current
<1>6. ~Between /\ ~Between'
  <2>1. ~Between
    BY <1>1 DEF Quiet, TypeOK
  <2> QED
    BY <1>2, <2>1 DEF Between, TypeOK
<1>7. \A s \in Item : Pending(s)' = Pending(s)
  <2>1. \A u \in Thread, s \in Item : /\ Owes(u, s)' <=> Owes(u, s)
                                      /\ ~Owes(t, s)
    BY <1>2 DEF Owes, TypeOK
  <2>2. \A u \in Thread : u # t => item'[u] = item[u]
    BY <1>1 DEF TypeOK
  <2> QED
    BY <1>2, <2>1, <2>2 DEF Pending
<1>8. Uncounted' = Uncounted
  <2>1. \A i \in Current :
          runs[i] = 0 \/ (\E u \in Thread : item'[u] = i \/ i \in consumed[u])
            <=> runs[i] = 0 \/ (\E u \in Thread : item[u] = i \/ i \in consumed[u])
    <3>1. \A u \in Thread : item'[u] = IF u = t THEN j ELSE item[u]
      BY <1>1 DEF TypeOK
    <3>2. runs[j] = 0 /\ \A i \in Current : i # None
      BY <1>4, <1>5, CurrentItems DEF Ready
    <3> QED
      BY <1>3, <3>1, <3>2
  <2> QED
    BY <1>2, <1>3, <1>5, <2>1 DEF Uncounted
<1>9. NoDanglingItem'
  BY <1>1, <1>2, <1>4, <1>5 DEF NoDanglingItem, TypeOK
<1>10. \A u \in Thread : ThreadShape(u)'
  BY <1>1, <1>2, <1>3, <1>5 DEF ThreadShape, TypeOK
<1>11. \A i \in Item : OnePlace(i)'
  <2> SUFFICES ASSUME NEW i \in Item PROVE OnePlace(i)'
    OBVIOUS
  <2>1. Ready(i)' <=> Ready(i)
    BY <1>2, <1>7 DEF Ready
  <2>2. \A u \in Thread : Has(u, i)' <=> Has(u, i) \/ (u = t /\ i = j)
    BY <1>1, <1>2, <1>3, <1>5 DEF Has, TypeOK
  <2>3. /\ \A u \in Thread : item'[u] = IF u = t THEN j ELSE item[u]
        /\ \A u \in Thread : pc'[u] = IF u = t THEN "job" ELSE pc[u]
        /\ runnable'[i] = IF i = j THEN 0 ELSE runnable[i]
    BY <1>1, <1>2, <1>4 DEF TypeOK
  <2>4. pc'[Main] = "init" => pc[Main] = "init" /\ t # Main
    BY <2>3
  <2> QED
    BY <1>2, <1>3, <1>4, <1>5, <1>7, <2>1, <2>2, <2>3, <2>4 DEF OnePlace, Ready, Has
<1>12. Counters'
  <2>1. \A i \in Current : i \in Item
    BY CurrentItems
  <2>2. \A i \in Item : (runs[i] = 1 /\ \A u \in Thread : item'[u] # i)
                        <=> (runs[i] = 1 /\ \A u \in Thread : item[u] # i)
    BY <1>1, <1>3, <1>4, <1>5 DEF Ready, TypeOK
  <2> QED
    BY <1>2, <1>5, <1>6, <1>7, <1>8, <2>1, <2>2 DEF Counters
<1>13. Quiet'
  BY <1>6 DEF Quiet
<1> QED
  BY <1>9, <1>10, <1>11, <1>12, <1>13

\* The job of an item returns.
LEMMA JobDoneStep ==
  ASSUME TickInv, TypeOK', NEW t \in Thread, JobDone(t)
  PROVE  TickInv'
<1> USE ThreadFacts DEF TickInv
<1> DEFINE j == item[t]
<1>1. /\ pc[t] = "job"
      /\ pc' = [pc EXCEPT ![t] = "deps"]
      /\ runs' = [runs EXCEPT ![j] = @ + 1]
      /\ todo' = [todo EXCEPT ![t] = Succ[j]]
      /\ next' = [next EXCEPT ![t] = None]
      /\ UNCHANGED <<queue, nodeCount, runnable, activation, item, pushing, consumed>>
  BY DEF JobDone, At, Goto, shared
<1>2. /\ j \in Item /\ j # None /\ next[t] = None /\ next' = next /\ pushing[t] = None
      /\ \A u \in Thread : item[u] = j => u = t
      /\ \A u \in Thread : j \notin {next[u], pushing[u]} /\ j \notin consumed[u]
      /\ runs[j] = 0 /\ runnable[j] = 0 /\ Pending(j) = {}
  <2>1. j \in Item /\ j # None /\ next[t] = None /\ pushing[t] = None
    BY <1>1 DEF ThreadShape, TypeOK
  <2>2. next' = next
    BY <1>1, <2>1 DEF TypeOK
  <2>3. \A u \in Thread : item[u] = j => u = t
    BY <2>1 DEF OnePlace, Has
  <2>4. \A u \in Thread : j \notin {next[u], pushing[u]}
    BY <2>1, QueueAssumption DEF OnePlace, Has
  <2>5. \A u \in Thread : j \notin consumed[u]
    BY <2>1 DEF OnePlace
  <2>6. runs[j] = 0 /\ Pending(j) = {} /\ runnable[j] = 0
    BY <1>1, <2>1 DEF OnePlace, Has
  <2> QED
    BY <2>1, <2>2, <2>3, <2>4, <2>5, <2>6
<1>3. Current' = Current /\ Current \subseteq Item
  BY <1>1, CurrentItems DEF Current
<1>4. /\ \A u \in Thread : pc'[u] = IF u = t THEN "deps" ELSE pc[u]
      /\ \A u \in Thread : todo'[u] = IF u = t THEN Succ[j] ELSE todo[u]
      /\ \A i \in Item : runs'[i] = IF i = j THEN 1 ELSE runs[i]
  BY <1>1, <1>2 DEF TypeOK
<1>5. Between' <=> Between
  BY <1>1, <1>4 DEF Between
<1>6. \A s \in Item : Pending(s)' = Pending(s)
  <2> SUFFICES ASSUME NEW s \in Item PROVE Pending(s)' = Pending(s)
    OBVIOUS
  <2>1. \A u \in Thread : Owes(u, s)' <=> IF u = t THEN s \in Succ[j] ELSE Owes(u, s)
    BY <1>4 DEF Owes
  <2>2. \A p \in Pred(s) : p \in Item /\ s \in Succ[p]
    BY DEF Pred
  <2>3. ~Owes(t, s)
    BY <1>1 DEF Owes
  <2>4. \A p \in Pred(s) :
          runs'[p] = 0 \/ (\E u \in Thread : item'[u] = p /\ Owes(u, s)')
            <=> runs[p] = 0 \/ (\E u \in Thread : item[u] = p /\ Owes(u, s))
    BY <1>1, <1>2, <1>4, <2>1, <2>2, <2>3
  <2> QED
    BY <2>4 DEF Pending
<1>7. Uncounted' = Uncounted
  BY <1>1, <1>2, <1>3, <1>4 DEF Uncounted
<1>8. NoDanglingItem'
  BY <1>1, <1>2, <1>3 DEF NoDanglingItem
<1>9. \A u \in Thread : ThreadShape(u)'
  BY <1>1, <1>2, <1>3, <1>4 DEF ThreadShape
<1>10. \A i \in Item : OnePlace(i)'
  <2> SUFFICES ASSUME NEW i \in Item PROVE OnePlace(i)'
    OBVIOUS
  <2>1. \A u \in Thread : Has(u, i)' <=> Has(u, i)
    BY <1>1, <1>2 DEF Has
  <2>2. Ready(i)' <=> Ready(i) /\ i # j
    BY <1>4, <1>6 DEF Ready
  <2>3. CASE i = j
    <3>1. pc'[Main] = "init" => j \notin todo'[Main]
      BY <1>4, <1>2 DEF OnePlace, Has
    <3> QED
      BY <1>1, <1>2, <1>4, <1>6, <2>1, <2>3, <3>1 DEF OnePlace, Has
  <2>4. CASE i # j
    BY <1>1, <1>2, <1>3, <1>4, <1>6, <2>1, <2>2, <2>4 DEF OnePlace
  <2> QED
    BY <2>3, <2>4
<1>11. Counters' /\ Quiet'
  BY <1>1, <1>2, <1>3, <1>4, <1>5, <1>6, <1>7 DEF Counters, Quiet
<1> QED
  BY <1>8, <1>9, <1>10, <1>11

\* A thread pushes a successor that became runnable.
LEMMA MarkAsRunnableStep ==
  ASSUME TickInv, TypeOK', NEW t \in Thread, MarkAsRunnable(t)
  PROVE  TickInv'
<1> USE ThreadFacts DEF TickInv
<1> DEFINE j == pushing[t]
<1>1. /\ pc[t] = "push"
      /\ pc' = [pc EXCEPT ![t] = "deps"]
      /\ runnable' = [runnable EXCEPT ![j] = @ + 1]
      /\ pushing' = [pushing EXCEPT ![t] = None]
      /\ UNCHANGED <<queue, nodeCount, activation, item, todo, next, consumed, runs>>
  BY DEF MarkAsRunnable, At, Goto
<1>2. /\ j \in Item /\ j # None /\ j \in Current
      /\ Ready(j) /\ runnable[j] = 0
      /\ \A u \in Thread : j \notin {item[u], next[u]} /\ (pushing[u] = j => u = t)
  <2>1. j \in Item /\ j # None /\ j \in Current
    BY <1>1 DEF ThreadShape, TypeOK, NoDanglingItem
  <2>2. Ready(j) /\ item[t] # j /\ next[t] # j
    BY <2>1 DEF OnePlace
  <2>3. runnable[j] = 0
    BY <2>1 DEF OnePlace, Has
  <2>4. \A u \in Thread : u # t => j \notin {item[u], next[u], pushing[u]}
    BY <2>1 DEF OnePlace, Has
  <2> QED
    BY <2>1, <2>2, <2>3, <2>4
<1>3. Current' = Current /\ Current \subseteq Item
  BY <1>1, CurrentItems DEF Current
<1>4. /\ \A u \in Thread : pc'[u] = IF u = t THEN "deps" ELSE pc[u]
      /\ \A u \in Thread : pushing'[u] = IF u = t THEN None ELSE pushing[u]
      /\ \A i \in Item : runnable'[i] = IF i = j THEN 1 ELSE runnable[i]
  BY <1>1, <1>2 DEF TypeOK
<1>5. Between' <=> Between
  BY <1>1, <1>4 DEF Between
<1>6. \A s \in Item : Pending(s)' = Pending(s)
  <2>1. \A u \in Thread, s \in Item : Owes(u, s)' <=> Owes(u, s)
    BY <1>1, <1>4 DEF Owes
  <2> QED
    BY <1>1, <2>1 DEF Pending
<1>7. Uncounted' = Uncounted
  BY <1>1, <1>3 DEF Uncounted
<1>8. NoDanglingItem'
  BY <1>1, <1>2, <1>3, <1>4 DEF NoDanglingItem
<1>9. \A u \in Thread : ThreadShape(u)'
  BY <1>1, <1>3, <1>4 DEF ThreadShape
<1>10. \A i \in Item : OnePlace(i)'
  <2> SUFFICES ASSUME NEW i \in Item PROVE OnePlace(i)'
    OBVIOUS
  <2>1. \A u \in Thread : Has(u, i)' <=> Has(u, i) /\ i # j
    BY <1>1, <1>2, <1>4, QueueAssumption DEF Has
  <2>2. Ready(i)' <=> Ready(i)
    BY <1>1, <1>6 DEF Ready
  <2>3. pc'[Main] = "init" => pc[Main] = "init" /\ j \notin todo[Main]
    BY <1>2, <1>4 DEF OnePlace, Has
  <2> QED
    BY <1>1, <1>2, <1>3, <1>4, <1>6, <2>1, <2>2, <2>3, QueueAssumption DEF OnePlace
<1>11. Counters' /\ Quiet'
  <2>1. ~Between
    BY <1>1 DEF Quiet, ThreadShape
  <2> QED
    BY <1>1, <1>3, <1>5, <1>6, <1>7, <2>1 DEF Counters, Quiet
<1> QED
  BY <1>8, <1>9, <1>10, <1>11

\* A thread decrements the count of one successor.
LEMMA DecrementStep ==
  ASSUME TickInv, TypeOK', NEW t \in Thread, Decrement(t)
  PROVE  TickInv'
<1> USE ThreadFacts DEF TickInv
<1> DEFINE j == item[t]
<1>1. PICK s \in todo[t] : DecrementOne(t, s)
  BY DEF Decrement
<1>2. /\ pc[t] = "deps"
      /\ UNCHANGED <<queue, nodeCount, runnable, item, consumed, runs>>
  BY DEF Decrement, At
<1>3. /\ activation' = [activation EXCEPT ![s] = @ - 1]
      /\ todo' = [todo EXCEPT ![t] = @ \ {s}]
  BY <1>1 DEF DecrementOne
<1>4. /\ j \in Item /\ j \in Current /\ s \in Item /\ s \in Current /\ j \in Pred(s)
      /\ s # None /\ runs[j] = 1 /\ pushing[t] = None
      /\ \A u \in Thread : item[u] = j => u = t
  <2>1. j \in Item /\ j \in Current /\ s \in Succ[j] /\ s \in Item /\ pushing[t] = None
    BY <1>2 DEF ThreadShape, TypeOK, NoDanglingItem
  <2>2. s \in Current /\ j \in Pred(s) /\ s # None
    BY <2>1, CurrentItems, QueueAssumption DEF Pred
  <2>3. runs[j] = 1
    BY <1>2, <2>1 DEF OnePlace
  <2>4. \A u \in Thread : item[u] = j => u = t
    BY <2>1 DEF OnePlace, Has
  <2> QED
    BY <2>1, <2>2, <2>3, <2>4
\* The successor has been nowhere until now.
<1>5. /\ j \in Pending(s) /\ runs[s] = 0 /\ runnable[s] = 0
      /\ \A u \in Thread : ~Has(u, s) /\ s \notin consumed[u]
      /\ ~(pc[Main] = "init" /\ s \in todo[Main])
      /\ activation[s] = Cardinality(Pending(s))
  <2>1. j \in Pending(s)
    BY <1>1, <1>2, <1>4 DEF Pending, Owes
  <2>2. runs[s] = 0 /\ runnable[s] = 0 /\ ~(pc[Main] = "init" /\ s \in todo[Main])
    BY <1>4, <2>1 DEF OnePlace, Ready
  <2>3. \A u \in Thread : ~Has(u, s) /\ s \notin consumed[u]
    BY <1>4, <2>1, <2>2 DEF OnePlace, Ready, Has
  <2>4. activation[s] = Cardinality(Pending(s))
    BY <1>4, <2>2 DEF Counters
  <2> QED
    BY <2>1, <2>2, <2>3, <2>4
<1>6. /\ \A u \in Thread : todo'[u] = IF u = t THEN todo[t] \ {s} ELSE todo[u]
      /\ \A i \in Item : activation'[i] = IF i = s THEN activation[s] - 1 ELSE activation[i]
  BY <1>3, <1>4 DEF TypeOK
\* What becomes of the thread: it has s exactly when the count was one.
<1>7. /\ \A u \in Thread : u # t => /\ pc'[u] = pc[u] /\ next'[u] = next[u]
                                    /\ pushing'[u] = pushing[u]
      /\ \/ activation[s] # 1 /\ pc'[t] = "deps" /\ next'[t] = next[t] /\ pushing'[t] = None
         \/ activation[s] = 1 /\ pc'[t] = "deps" /\ next'[t] = s /\ next[t] = None
            /\ pushing'[t] = None
         \/ activation[s] = 1 /\ pc'[t] = "push" /\ next'[t] = next[t] /\ pushing'[t] = s
            /\ next[t] # None
  <2>1. CASE activation[s] # 1
    BY <1>1, <1>2, <1>4, <2>1 DEF DecrementOne, LastDecrement
  <2>2. CASE activation[s] = 1 /\ next[t] = None
    BY <1>1, <1>2, <1>4, <2>2 DEF DecrementOne, LastDecrement, TypeOK
  <2>3. CASE activation[s] = 1 /\ next[t] # None
    BY <1>1, <1>2, <1>4, <2>3 DEF DecrementOne, LastDecrement, TypeOK, Goto
  <2> QED
    BY <2>1, <2>2, <2>3
<1>8. Current' = Current /\ Current \subseteq Item
  BY <1>2, CurrentItems DEF Current
<1>9. \A u \in Thread, i \in Item :
        Owes(u, i)' <=> Owes(u, i) /\ ~(u = t /\ i = s)
  BY <1>2, <1>6, <1>7 DEF Owes
<1>10. \A i \in Item : Pending(i)' = IF i = s THEN Pending(s) \ {j} ELSE Pending(i)
  <2> SUFFICES ASSUME NEW i \in Item
               PROVE  Pending(i)' = IF i = s THEN Pending(s) \ {j} ELSE Pending(i)
    OBVIOUS
  <2>1. CASE i # s
    BY <1>2, <1>9, <2>1 DEF Pending
  <2>2. CASE i = s
    <3>1. \A p \in Pred(s) :
            runs'[p] = 0 \/ (\E u \in Thread : item'[u] = p /\ Owes(u, s)')
              <=> p # j /\ (runs[p] = 0 \/ (\E u \in Thread : item[u] = p /\ Owes(u, s)))
      BY <1>2, <1>4, <1>9
    <3> QED
      BY <2>2, <3>1 DEF Pending
  <2> QED
    BY <2>1, <2>2
<1>11. /\ Cardinality(Pending(s) \ {j}) = activation[s] - 1
       /\ activation[s] = 1 <=> Pending(s) \ {j} = {}
  <2>1. IsFiniteSet(Pending(s)) /\ Pending(s) \in SUBSET Item
    BY <1>4, PendingItems, FiniteParts
  <2>2. Cardinality(Pending(s) \ {j}) = Cardinality(Pending(s)) - 1
    BY <1>5, <2>1, RemoveOne
  <2>3. Cardinality(Pending(s) \ {j}) = 0 <=> Pending(s) \ {j} = {}
    BY <2>1, FiniteParts
  <2>4. Cardinality(Pending(s)) \in Nat
    BY <2>1, FiniteParts
  <2> QED
    BY <1>5, <2>2, <2>3, <2>4
<1>12. Between' <=> Between
  BY <1>2, <1>7 DEF Between
<1>13. Uncounted' = Uncounted
  BY <1>2, <1>8 DEF Uncounted
<1>14. NoDanglingItem'
  BY <1>2, <1>4, <1>7, <1>8 DEF NoDanglingItem
<1>15. \A u \in Thread : ThreadShape(u)'
  <2>1. ThreadShape(t)'
    BY <1>2, <1>4, <1>6, <1>7, <1>8 DEF ThreadShape
  <2>2. \A u \in Thread : u # t => ThreadShape(u)'
    BY <1>2, <1>6, <1>7, <1>8 DEF ThreadShape
  <2> QED
    BY <2>1, <2>2
<1>16. \A i \in Item : OnePlace(i)'
  <2> SUFFICES ASSUME NEW i \in Item PROVE OnePlace(i)'
    OBVIOUS
  <2>1. \A u \in Thread : pc'[u] = "job" <=> pc[u] = "job"
    BY <1>2, <1>7
  <2>2. pc'[Main] = "init" => pc[Main] = "init" /\ todo'[Main] = todo[Main]
    BY <1>6, <1>7
  <2>3. CASE i # s
    <3>1. \A u \in Thread : /\ Has(u, i)' <=> Has(u, i)
                            /\ next'[u] = i <=> next[u] = i
                            /\ pushing'[u] = i <=> pushing[u] = i
      BY <1>2, <1>4, <1>7, <2>3, QueueAssumption DEF Has
    <3>2. Pending(i)' = Pending(i) /\ (Ready(i)' <=> Ready(i))
      BY <1>2, <1>10, <2>3 DEF Ready
    <3> QED
      BY <1>2, <1>8, <2>1, <2>2, <3>1, <3>2 DEF OnePlace
  <2>4. CASE i = s
    <3>1. \A u \in Thread : u # t => ~Has(u, s)'
      BY <1>2, <1>5, <1>7 DEF Has
    <3>2. \A u \in Thread : item'[u] # s
      BY <1>2, <1>5 DEF Has
    <3>3. next'[t] = s \/ pushing'[t] = s => Pending(s)' = {} /\ Ready(s)'
      BY <1>2, <1>4, <1>5, <1>7, <1>10, <1>11 DEF Ready, Has
    <3>4. next'[t] = s => pushing'[t] # s
      BY <1>4, <1>5, <1>7 DEF Has
    <3>5. \A u \in Thread : u # t => s \notin {next'[u], pushing'[u]}
      BY <3>1 DEF Has
    <3> QED
      BY <1>2, <1>5, <2>2, <2>4, <3>1, <3>2, <3>3, <3>4, <3>5 DEF OnePlace
  <2> QED
    BY <2>3, <2>4
<1>17. Counters'
  <2>1. \A i \in Current \ {s} :
          activation'[i] = IF runs'[i] = 1 /\ \A u \in Thread : item'[u] # i
                           THEN Limit(i) ELSE Cardinality(Pending(i)')
    BY <1>2, <1>6, <1>8, <1>10 DEF Counters
  <2>2. activation'[s] = Cardinality(Pending(s)') /\ runs'[s] = 0
    BY <1>2, <1>4, <1>5, <1>6, <1>10, <1>11
  <2>3. nodeCount' = IF Between' THEN 0 ELSE Cardinality(Uncounted')
    BY <1>2, <1>12, <1>13 DEF Counters
  <2> QED
    BY <1>8, <2>1, <2>2, <2>3 DEF Counters
<1>18. Quiet'
  <2>1. ~Between
    BY <1>2 DEF Quiet, ThreadShape
  <2> QED
    BY <1>12, <2>1 DEF Quiet
<1> QED
  BY <1>14, <1>15, <1>16, <1>17, <1>18

\* A thread has told all successors: the count is reset, the next item begins.
LEMMA ResetActivationStep ==
  ASSUME TickInv, TypeOK', NEW t \in Thread, ResetActivation(t)
  PROVE  TickInv'
<1> USE ThreadFacts DEF TickInv
<1> DEFINE j == item[t]
           n == next[t]
<1>1. /\ pc[t] = "deps" /\ todo[t] = {}
      /\ activation' = [activation EXCEPT ![j] = Limit(j)]
      /\ consumed' = [consumed EXCEPT ![t] = @ \cup {j}]
      /\ item' = [item EXCEPT ![t] = n]
      /\ next' = [next EXCEPT ![t] = None]
      /\ pc' = [pc EXCEPT ![t] = IF n = None THEN "count" ELSE "job"]
      /\ UNCHANGED <<queue, nodeCount, runnable, todo, pushing, runs>>
  BY DEF ResetActivation, FreshCount, At, Goto
<1>2. /\ j \in Item /\ j # None /\ j \in Current /\ runs[j] = 1 /\ n # j
      /\ pushing[t] = None
      /\ n # None => n \in Item /\ n \in Current /\ Ready(n)
      /\ \A u \in Thread : item[u] = j => u = t
      /\ \A u \in Thread : j \notin consumed[u] /\ next[u] # j /\ pushing[u] # j
  <2>1. j \in Item /\ j # None /\ j \in Current /\ pushing[t] = None
    BY <1>1 DEF ThreadShape, TypeOK, NoDanglingItem
  <2>2. n # None => n \in Item /\ n \in Current /\ Ready(n) /\ n # j
    BY DEF OnePlace, TypeOK, NoDanglingItem
  <2>3. runs[j] = 1 /\ \A u \in Thread : j \notin consumed[u]
    BY <1>1, <2>1 DEF OnePlace
  <2>4. \A u \in Thread : (item[u] = j => u = t) /\ next[u] # j /\ pushing[u] # j
    BY <2>1, <2>2 DEF OnePlace, Has
  <2> QED
    BY <2>1, <2>2, <2>3, <2>4
<1>3. Current' = Current /\ Current \subseteq Item /\ None \notin Item
  BY <1>1, CurrentItems, QueueAssumption DEF Current
<1>4. /\ \A u \in Thread : /\ pc'[u] = IF u = t THEN (IF n = None THEN "count" ELSE "job") ELSE pc[u]
                           /\ item'[u] = IF u = t THEN n ELSE item[u]
                           /\ next'[u] = IF u = t THEN None ELSE next[u]
                           /\ consumed'[u] = IF u = t THEN consumed[t] \cup {j} ELSE consumed[u]
      /\ \A i \in Item : activation'[i] = IF i = j THEN Limit(j) ELSE activation[i]
  BY <1>1, <1>2 DEF TypeOK
<1>5. ~Between /\ ~Between'
  <2>1. ~Between
    BY <1>2 DEF Quiet
  <2> QED
    BY <1>4, <2>1 DEF Between
<1>6. \A s \in Item : Pending(s)' = Pending(s)
  <2> SUFFICES ASSUME NEW s \in Item PROVE Pending(s)' = Pending(s)
    OBVIOUS
  <2>1. \A u \in Thread : (Owes(u, s)' <=> Owes(u, s)) /\ ~Owes(t, s)
    BY <1>1, <1>4 DEF Owes
  <2> QED
    BY <1>1, <1>4, <2>1 DEF Pending
<1>7. Uncounted' = Uncounted
  <2>1. \A i \in Current :
          runs[i] = 0 \/ (\E u \in Thread : item'[u] = i \/ i \in consumed'[u])
            <=> runs[i] = 0 \/ (\E u \in Thread : item[u] = i \/ i \in consumed[u])
    <3>1. n # None => runs[n] = 0
      BY <1>2 DEF Ready
    <3> QED
      BY <1>3, <1>4, <3>1
  <2> QED
    BY <1>1, <1>3, <2>1 DEF Uncounted
<1>8. NoDanglingItem'
  BY <1>1, <1>2, <1>3, <1>4 DEF NoDanglingItem
<1>9. \A u \in Thread : ThreadShape(u)'
  <2>1. ThreadShape(t)'
    BY <1>1, <1>2, <1>3, <1>4 DEF ThreadShape
  <2>2. \A u \in Thread : u # t => ThreadShape(u)'
    BY <1>1, <1>3, <1>4 DEF ThreadShape
  <2> QED
    BY <2>1, <2>2
<1>10. \A i \in Item : OnePlace(i)'
  <2> SUFFICES ASSUME NEW i \in Item PROVE OnePlace(i)'
    OBVIOUS
  <2>1. \A u \in Thread : Has(u, i)' <=> Has(u, i) /\ i # j
    BY <1>1, <1>2, <1>3, <1>4 DEF Has
  <2>2. Ready(i)' <=> Ready(i)
    BY <1>1, <1>6 DEF Ready
  <2>3. pc'[Main] = "init" => pc[Main] = "init"
    BY <1>4
  <2>4. CASE i = j
    <3>1. \A u \in Thread : item'[u] # j /\ next'[u] # j /\ pushing'[u] # j
      BY <1>1, <1>2, <1>4
    <3>2. runnable[j] = 0
      BY <1>2 DEF OnePlace, Has
    <3>3. pc[Main] = "init" => j \notin todo[Main]
      BY <1>2 DEF OnePlace, Has
    <3> QED
      BY <1>1, <1>2, <1>4, <1>6, <2>1, <2>2, <2>3, <2>4, <3>1, <3>2, <3>3 DEF OnePlace
  <2>5. CASE i # j
    <3>1. \A u \in Thread : i \in consumed'[u] <=> i \in consumed[u]
      BY <1>4, <2>5
    <3>2. CASE i = n
      <4>1. \A u \in Thread : /\ u # t => ~Has(u, i)
                              /\ i \notin consumed[u]
                              /\ i \notin {next'[u], pushing'[u]}
        BY <1>1, <1>2, <1>3, <1>4, <3>2 DEF OnePlace, Has, Ready
      <4>2. runs[i] = 0 /\ Pending(i) = {} /\ runnable[i] = 0
        BY <1>2, <1>3, <3>2 DEF OnePlace, Has, Ready
      <4>3. pc'[t] = "job" /\ item'[t] = i /\ \A u \in Thread : u # t => item'[u] # i
        BY <1>3, <1>4, <3>2, <4>1 DEF Has
      <4>4. ~(pc[Main] = "init" /\ i \in todo[Main])
        BY <1>2, <3>2 DEF OnePlace, Has
      <4> QED
        BY <1>1, <1>4, <1>6, <2>1, <2>3, <2>5, <3>1, <4>1, <4>2, <4>3, <4>4 DEF OnePlace
    <3>3. CASE i # n
      <4>1. \A u \in Thread : /\ item'[u] = i => item[u] = i /\ u # t
                              /\ next'[u] = i => next[u] = i
        BY <1>3, <1>4, <3>3
      <4> QED
        BY <1>1, <1>3, <1>4, <1>6, <2>1, <2>2, <2>3, <2>5, <3>1, <4>1 DEF OnePlace
    <3> QED
      BY <3>2, <3>3
  <2> QED
    BY <2>4, <2>5
<1>11. Counters'
  <2>1. \A i \in Current \ {j} :
          (runs[i] = 1 /\ \A u \in Thread : item'[u] # i)
             <=> (runs[i] = 1 /\ \A u \in Thread : item[u] # i)
    BY <1>2, <1>3, <1>4 DEF Ready
  <2>2. \A i \in Current \ {j} :
          activation'[i] = IF runs'[i] = 1 /\ \A u \in Thread : item'[u] # i
                           THEN Limit(i) ELSE Cardinality(Pending(i)')
    BY <1>1, <1>3, <1>4, <1>6, <2>1 DEF Counters
  <2>3. activation'[j] = Limit(j) /\ runs'[j] = 1 /\ \A u \in Thread : item'[u] # j
    BY <1>1, <1>2, <1>4
  <2>4. nodeCount' = Cardinality(Uncounted')
    BY <1>1, <1>5, <1>7 DEF Counters
  <2> QED
    BY <1>3, <1>5, <2>2, <2>3, <2>4 DEF Counters
<1>12. Quiet'
  BY <1>5 DEF Quiet
<1> QED
  BY <1>8, <1>9, <1>10, <1>11, <1>12

\* A thread counts off the items it has consumed.
LEMMA CountOffStep ==
  ASSUME TickInv, TypeOK', NEW t \in Thread, CountOff(t)
  PROVE  TickInv'
<1> USE ThreadFacts DEF TickInv
<1>1. /\ pc[t] = "count"
      /\ nodeCount' = nodeCount - Cardinality(consumed[t])
      /\ consumed' = [consumed EXCEPT ![t] = {}]
      /\ UNCHANGED <<queue, runnable, activation, item, todo, next, pushing, runs>>
      /\ \E l \in {Returned(t), "check"} : pc' = [pc EXCEPT ![t] = l]
  BY DEF CountOff, Counted, At, Goto
<1>2. PICK l : /\ l \in {"wait", "asleep", "check"}
               /\ pc' = [pc EXCEPT ![t] = l]
               /\ t = Main => l # "asleep"
               /\ t # Main => l # "wait"
  BY <1>1 DEF Returned
<1>3. /\ item[t] = None /\ next[t] = None /\ pushing[t] = None /\ consumed[t] # {}
      /\ consumed[t] \subseteq Current
  BY <1>1 DEF ThreadShape
<1>4. Current' = Current /\ Current \subseteq Item /\ None \notin Item
  BY <1>1, CurrentItems, QueueAssumption DEF Current
<1>5. /\ \A u \in Thread : pc'[u] = IF u = t THEN l ELSE pc[u]
      /\ \A u \in Thread : consumed'[u] = IF u = t THEN {} ELSE consumed[u]
  BY <1>1, <1>2 DEF TypeOK
<1>6. ~Between /\ ~Between'
  <2>1. ~Between
    BY <1>3 DEF Quiet
  <2> QED
    BY <1>2, <1>5, <2>1 DEF Between
<1>7. \A s \in Item : Pending(s)' = Pending(s)
  <2>1. \A u \in Thread, s \in Item : Owes(u, s)' <=> Owes(u, s)
    BY <1>1, <1>2, <1>5 DEF Owes
  <2> QED
    BY <1>1, <2>1 DEF Pending
<1>8. Uncounted' = Uncounted \ consumed[t] /\ consumed[t] \subseteq Uncounted
  <2>1. \A i \in consumed[t] :
          /\ i \in Item /\ runs[i] = 1
          /\ \A u \in Thread : item[u] # i /\ (u # t => i \notin consumed[u])
    BY <1>3, <1>4 DEF OnePlace
  <2>2. \A i \in Current :
          runs[i] = 0 \/ (\E u \in Thread : item[u] = i \/ i \in consumed'[u])
            <=> /\ runs[i] = 0 \/ (\E u \in Thread : item[u] = i \/ i \in consumed[u])
                /\ i \notin consumed[t]
    BY <1>5, <2>1
  <2> QED
    BY <1>1, <1>3, <1>4, <2>2 DEF Uncounted
<1>9. NoDanglingItem'
  BY <1>1, <1>4 DEF NoDanglingItem
<1>10. \A u \in Thread : ThreadShape(u)'
  <2>1. ThreadShape(t)'
    BY <1>1, <1>2, <1>3, <1>4, <1>5 DEF ThreadShape
  <2>2. \A u \in Thread : u # t => ThreadShape(u)'
    BY <1>1, <1>4, <1>5 DEF ThreadShape
  <2> QED
    BY <2>1, <2>2
<1>11. \A i \in Item : OnePlace(i)'
  <2> SUFFICES ASSUME NEW i \in Item PROVE OnePlace(i)'
    OBVIOUS
  <2>1. /\ \A u \in Thread : Has(u, i)' <=> Has(u, i)
        /\ Ready(i)' <=> Ready(i)
    BY <1>1, <1>7 DEF Has, Ready
  <2>2. \A u \in Thread : /\ pc'[u] = "job" <=> pc[u] = "job"
                          /\ i \in consumed'[u] => i \in consumed[u]
    BY <1>1, <1>2, <1>5
  <2>3. pc'[Main] = "init" => pc[Main] = "init"
    BY <1>2, <1>5
  <2> QED
    BY <1>1, <1>4, <1>7, <2>1, <2>2, <2>3 DEF OnePlace
<1>12. Counters'
  <2>1. Uncounted \in SUBSET Item
    BY <1>4 DEF Uncounted
  <2>2. nodeCount' = Cardinality(Uncounted')
    BY <1>1, <1>6, <1>8, <2>1, RemovePart DEF Counters
  <2> QED
    BY <1>1, <1>4, <1>6, <1>7, <2>2 DEF Counters
<1>13. Quiet'
  BY <1>6 DEF Quiet
<1> QED
  BY <1>9, <1>10, <1>11, <1>12, <1>13

LEMMA StutterStep ==
  ASSUME TickInv, TypeOK', UNCHANGED vars
  PROVE  TickInv'
<1> USE DEF vars, TickInv
<1>1. NoDanglingItem' /\ Current' = Current
  BY DEF NoDanglingItem, Current
<1>2. \A t \in Thread : ThreadShape(t)'
  BY <1>1 DEF ThreadShape
<1>3. \A s \in Item : Pending(s)' = Pending(s)
  BY DEF Pending, Owes
<1>4. \A i \in Item : OnePlace(i)'
  BY <1>1, <1>3 DEF OnePlace, Ready, Has
<1>5. Uncounted' = Uncounted /\ (Between' <=> Between)
  BY <1>1 DEF Uncounted, Between
<1>6. Counters' /\ Quiet'
  BY <1>1, <1>3, <1>5, CurrentItems DEF Counters, Quiet
<1> QED
  BY <1>1, <1>2, <1>4, <1>6

LEMMA IndStep == TickInv /\ [Next]_vars => TickInv'
<1> SUFFICES ASSUME TickInv, [Next]_vars PROVE TickInv'
  OBVIOUS
<1>1. TypeOK'
  BY TypeStep
<1>2. CASE UNCHANGED vars
  BY <1>1, <1>2, StutterStep
<1>3. CASE Finished
  BY <1>2, <1>3 DEF Finished
<1>4. CASE ReleaseQueue \/ \E q \in Queue : ResetQueue(q)
  BY <1>1, <1>4, QueueActions
<1>5. CASE InitTick
  BY <1>1, <1>5, InitTickStep
<1>6. CASE PushInitial
  BY <1>1, <1>6, PushInitialStep
<1>7. CASE \/ WakeThreads \/ TickEnd
           \/ \E h \in Helper : StopHelper(h) \/ Wait(h) \/ TestStop(h)
  BY <1>1, <1>7, PassiveActions
<1>8. ASSUME NEW t \in Thread, RunItem(t) PROVE TickInv'
  <2>1. CASE CheckNodeCount(t) \/ PopNothing(t)
    BY <1>1, <2>1, PassiveActions
  <2>2. CASE Pop(t)
    BY <1>1, <2>2, PopStep
  <2>3. CASE JobDone(t)
    BY <1>1, <2>3, JobDoneStep
  <2>4. CASE Decrement(t)
    BY <1>1, <2>4, DecrementStep
  <2>5. CASE MarkAsRunnable(t)
    BY <1>1, <2>5, MarkAsRunnableStep
  <2>6. CASE ResetActivation(t)
    BY <1>1, <2>6, ResetActivationStep
  <2>7. CASE CountOff(t)
    BY <1>1, <2>7, CountOffStep
  <2> QED
    BY <1>8, <2>1, <2>2, <2>3, <2>4, <2>5, <2>6, <2>7 DEF RunItem
<1> QED
  BY <1>2, <1>3, <1>4, <1>5, <1>6, <1>7, <1>8 DEF Next

\* Every item is in one place and the counters say how much of the tick is
\* left, in every reachable state of the dsp_queue_interpreter.
LEMMA TickInductive == Spec => []TickInv
BY InitInd, IndStep, PTL DEF Spec

-----------------------------------------------------------------------------
\* Every variable of the engine keeps its type.
THEOREM TypeCorrect == Spec => []TypeOK
<1>1. TickInv => TypeOK
  BY DEF TickInv
<1> QED
  BY TickInductive, <1>1, PTL

\* No item is run twice in a tick, nor by two threads at once.
THEOREM RunsOnce == Spec => []RunsAtMostOnce
<1>1. TickInv => RunsAtMostOnce
  <2> SUFFICES ASSUME TickInv, NEW t \in Thread, pc[t] = "job"
               PROVE  /\ runs[item[t]] = 0
                      /\ \A u \in Thread \ {t} : pc[u] = "job" => item[u] # item[t]
    BY DEF RunsAtMostOnce
  <2>1. item[t] \in Item
    BY DEF TickInv, ThreadShape, TypeOK
  <2>2. OnePlace(item[t])
    BY <2>1 DEF TickInv
  <2> QED
    BY <2>2 DEF OnePlace, Has
<1> QED
  BY TickInductive, <1>1, PTL

\* An item starts only after all its predecessors have finished.
THEOREM Ordered == Spec => []DependencyOrder
<1>1. TickInv => DependencyOrder
  <2> SUFFICES ASSUME TickInv, NEW t \in Thread, pc[t] = "job", NEW p \in Pred(item[t])
               PROVE  runs[p] = 1
    BY DEF DependencyOrder
  <2>1. item[t] \in Item /\ p \in Item
    BY DEF TickInv, ThreadShape, TypeOK, Pred
  <2>2. OnePlace(item[t]) /\ OnePlace(p)
    BY <2>1 DEF TickInv
  <2>3. Pending(item[t]) = {}
    BY <2>2 DEF OnePlace
  <2> QED
    BY <2>2, <2>3 DEF OnePlace, Pending
<1> QED
  BY TickInductive, <1>1, PTL

\* At node_count zero the tick is complete and the queue may be replaced.
THEOREM RestReached == Spec => []AtRest
<1>1. TickInv => AtRest
  <2> SUFFICES ASSUME TickInv, nodeCount = 0 PROVE AtRest
    BY DEF AtRest
  <2>1. pc[Main] = "wait" => ~Between
    BY DEF Between
  <2> QED
    BY <2>1, NothingLeft DEF AtRest
<1> QED
  BY TickInductive, <1>1, PTL

\* No thread holds an item of a queue that has been replaced.
THEOREM NoDangling == Spec => []NoDanglingItem
<1>1. TickInv => NoDanglingItem
  BY DEF TickInv
<1> QED
  BY TickInductive, <1>1, PTL

\* The assertions of dsp_thread_queue_item and dsp_queue_interpreter hold.
THEOREM Assertions == Spec => []AssertionsHold
<1>1. TickInv => AssertionsHold
  <2> SUFFICES ASSUME TickInv PROVE AssertionsHold
    OBVIOUS
  <2> USE DEF TickInv
  <2>0. Current \subseteq Item
    BY CurrentItems
  <2>1. ASSUME NEW t \in Thread, pc[t] \in {"job", "deps"} PROVE activation[item[t]] = 0
    <3>1. item[t] \in Item /\ item[t] \in Current
      BY <2>1 DEF ThreadShape, TypeOK, NoDanglingItem
    <3>2. Pending(item[t]) = {}
      BY <3>1 DEF OnePlace
    <3> QED
      BY <3>1, <3>2, FS_EmptySet DEF Counters
  <2>2. ASSUME NEW t \in Thread, pc[t] = "deps", NEW s \in todo[t] PROVE activation[s] > 0
    <3>1. item[t] \in Item /\ item[t] \in Current /\ s \in Succ[item[t]]
      BY <2>2 DEF ThreadShape, TypeOK, NoDanglingItem
    <3>2. s \in Current /\ s \in Item /\ item[t] \in Pred(s)
      BY <3>1, <2>0, CurrentItems DEF Pred
    <3>3. item[t] \in Pending(s)
      BY <2>2, <3>2 DEF Pending, Owes
    <3>4. activation[s] = Cardinality(Pending(s))
      BY <3>2, <3>3 DEF Counters, OnePlace
    <3> QED
      BY <3>2, <3>3, <3>4, FiniteParts, PendingItems
  <2>3. ASSUME NEW t \in Thread, pc[t] = "count" PROVE nodeCount >= Cardinality(consumed[t])
    <3>1. consumed[t] # {} /\ consumed[t] \subseteq Current
      BY <2>3 DEF ThreadShape
    <3>2. ~Between /\ consumed[t] \in SUBSET Uncounted /\ Uncounted \in SUBSET Item
      BY <2>0, <3>1 DEF Quiet, Uncounted
    <3>3. Cardinality(Uncounted \ consumed[t]) = Cardinality(Uncounted) - Cardinality(consumed[t])
      BY <3>2, RemovePart
    <3>4. /\ Cardinality(Uncounted \ consumed[t]) \in Nat /\ Cardinality(Uncounted) \in Nat
          /\ Cardinality(consumed[t]) \in Nat
      BY <3>2, FiniteParts
    <3> QED
      BY <3>2, <3>3, <3>4 DEF Counters
  <2>4. pc[Main] = "init" => \A i \in todo[Main] : runnable[i] = 0
    BY ThreadFacts DEF OnePlace, TypeOK
  <2> QED
    BY <2>1, <2>2, <2>3, <2>4 DEF AssertionsHold
<1> QED
  BY TickInductive, <1>1, PTL

\* The number of helpers to wake is that of the installed queue, empty queues
\* never get as far as waking any.
LEMMA UsedInductive == Spec => []UsedInv
<1>1. Init => UsedInv
  BY ThreadFacts DEF Init, UsedInv
<1>2. TickInv /\ UsedInv /\ [Next]_vars => UsedInv'
  <2> SUFFICES ASSUME TickInv, UsedInv, [Next]_vars PROVE UsedInv'
    OBVIOUS
  <2>0. TypeOK
    BY DEF TickInv
  <2> USE ThreadFacts, <2>0 DEF UsedInv, TypeOK, Goto, Current
  <2>1. ASSUME NEW q \in Queue, ResetQueue(q) PROVE UsedInv'
    BY <2>1 DEF ResetQueue, BetweenTicks, local
  <2>2. CASE InitTick
    BY <2>2 DEF InitTick
  <2>3. CASE PushInitial
    BY <2>3 DEF PushInitial
  <2>4. CASE WakeThreads
    BY <2>4 DEF WakeThreads, shared
  <2>5. CASE TickEnd
    BY <2>5 DEF TickEnd, shared
  <2>6. CASE ReleaseQueue
    BY <2>6 DEF ReleaseQueue
  <2>7. ASSUME NEW h \in Helper, StopHelper(h) \/ Wait(h) \/ TestStop(h) PROVE UsedInv'
    BY <2>7 DEF StopHelper, Wait, TestStop, shared
  <2>8. ASSUME NEW t \in Thread, RunItem(t) PROVE UsedInv'
    <3>1. UNCHANGED <<queue, used>>
      BY <2>8 DEF RunItem, CheckNodeCount, PopNothing, Pop, JobDone, Decrement,
                  MarkAsRunnable, ResetActivation, CountOff, shared
    <3>2. pc'[Main] = "init" => pc[Main] = "init"
      <4>1. CASE Decrement(t)
        BY <4>1 DEF Decrement, DecrementOne
      <4>2. CASE ~Decrement(t)
        BY <2>8, <4>2 DEF RunItem, CheckNodeCount, PopNothing, Pop, JobDone,
                  MarkAsRunnable, ResetActivation, CountOff, Returned
      <4> QED
        BY <4>1, <4>2
    <3> QED
      BY <3>1, <3>2
  <2>9. CASE UNCHANGED vars \/ Finished
    BY <2>9 DEF Finished, vars
  <2> QED
    BY <2>1, <2>2, <2>3, <2>4, <2>5, <2>6, <2>7, <2>8, <2>9 DEF Next
<1> QED
  BY TickInductive, <1>1, <1>2, PTL DEF Spec

\* wake_threads never indexes a helper that does not exist.
THEOREM WakesExisting == Spec => []WakesExistingHelpers
<1>1. TickInv /\ UsedInv => WakesExistingHelpers
  <2> SUFFICES ASSUME TickInv, UsedInv, pc[Main] = "init" PROVE used <= NumHelpers
    BY DEF WakesExistingHelpers
  <2>1. queue \in Queue /\ ItemsOf[queue] # {} /\ used = HelpersFor(queue)
    BY DEF UsedInv, Current, TickInv, TypeOK
  <2>2. Cardinality(ItemsOf[queue]) \in Nat \ {0}
    BY <2>1, QueueAssumption, FiniteParts
  <2>3. NumHelpers \in Nat
    BY QueueAssumption
  <2> DEFINE m == Smaller(Smaller(Cardinality(ItemsOf[queue]), 255), NumHelpers + 1) - 1
  <2>4. m \in 0..254 /\ m <= NumHelpers
    BY <2>2, <2>3 DEF Smaller
  <2>5. m % 256 = m
    <3> HIDE DEF m
    <3> QED
      BY <2>4
  <2> QED
    BY <2>1, <2>3, <2>4, <2>5 DEF HelpersFor
<1> QED
  BY TickInductive, UsedInductive, <1>1, PTL

\* Every item is in one place, the counters say how much of the tick is left
\* and no helper is woken that does not exist, in every reachable state of the
\* dsp_queue_interpreter.
THEOREM Inductive == Spec => []IndInv
BY TickInductive, UsedInductive, WakesExisting, PTL DEF IndInv

-----------------------------------------------------------------------------
(* The engine implements DspTick. *)

Running == {i \in Item : \E t \in Thread : pc[t] = "job" /\ item[t] = i}
Done == {i \in Current : runs[i] > 0}

\* A step that begins or ends no item, and neither starts nor ends the tick.
LEMMA TickStutter ==
  ASSUME TypeOK, TypeOK',
         UNCHANGED <<queue, runs>>,
         \A t \in Thread : /\ pc'[t] = "job" <=> pc[t] = "job"
                           /\ pc[t] = "job" => item'[t] = item[t],
         Between' <=> Between
  PROVE  UNCHANGED Tick!vars
<1>1. Running' = Running
  <2>1. \A i \in Item : (\E t \in Thread : pc'[t] = "job" /\ item'[t] = i)
                        <=> (\E t \in Thread : pc[t] = "job" /\ item[t] = i)
    OBVIOUS
  <2> QED
    BY <2>1 DEF Running
<1>2. Done' = Done
  BY DEF Done, Current
<1>3. (pc'[Main] \notin {"idle", "join", "terminated"}) = (pc[Main] \notin {"idle", "join", "terminated"})
  BY DEF Between
<1> QED
  BY <1>1, <1>2, <1>3 DEF Tick!vars, Running, Done

\* Thread t enters the job of item j and nothing else changes.
Begins(t, j) ==
  /\ UNCHANGED <<queue, runs>>
  /\ \A u \in Thread : /\ pc'[u] = IF u = t THEN "job" ELSE pc[u]
                       /\ item'[u] = IF u = t THEN j ELSE item[u]
  /\ pc[t] # "job"
  /\ \A u \in Thread : item[u] # j

LEMMA BeginStep ==
  ASSUME TickInv, NEW t \in Thread, NEW j \in Item, j \in Current, Ready(j),
         ~Between, Begins(t, j)
  PROVE  Tick!Begin(j)
<1> USE ThreadFacts DEF Begins
<1>1. Running' = Running \cup {j}
  BY DEF Running
<1>2. Done' = Done /\ j \notin Running \cup Done
  BY DEF Running, Done, Ready, Current
<1>3. \A p \in Item : j \in Succ[p] => p \in Done
  <2> SUFFICES ASSUME NEW p \in Item, j \in Succ[p] PROVE p \in Done
    OBVIOUS
  <2>1. p \in Pred(j) /\ p \in Current
    BY CurrentItems DEF Pred, TickInv
  <2>2. runs[p] # 0 /\ runs[p] \in {0, 1}
    BY <2>1 DEF Ready, Pending, TickInv, OnePlace
  <2> QED
    BY <2>1, <2>2 DEF Done
<1>4. ~Between'
  BY DEF Between
<1> QED
  BY <1>1, <1>2, <1>3, <1>4 DEF Tick!Begin, Tick!Items, Current, Running, Done, Between

LEMMA TickStep ==
  ASSUME TickInv, TickInv', Next
  PROVE  [Tick!Next]_(Tick!vars)
<1> USE ThreadFacts
<1>t. TypeOK /\ TypeOK'
  BY DEF TickInv
<1>1. ASSUME NEW q \in Queue, ResetQueue(q) PROVE Tick!Install(q)
  <2>1. /\ pc[Main] = "idle" /\ UNCHANGED <<pc, item>> /\ queue' = q
        /\ runs' = [i \in Item |-> 0]
    BY <1>1 DEF ResetQueue, BetweenTicks, local
  <2>2. Running' = Running
    BY <2>1 DEF Running
  <2>3. ItemsOf[q] \subseteq Item /\ Current' = ItemsOf[q]
    BY <2>1, QueueAssumption DEF Current
  <2>4. Done' = {}
    BY <2>1, <2>3 DEF Done
  <2> QED
    BY <2>1, <2>2, <2>4 DEF Tick!Install, Running, Done
<1>2. CASE InitTick
  <2>1. pc[Main] = "idle" /\ pc' = [pc EXCEPT ![Main] = "init"]
        /\ UNCHANGED <<queue, item>> /\ runs' = [i \in Item |-> 0] /\ Current # {}
    BY <1>2 DEF InitTick, Goto
  <2>2. \A t \in Thread : pc'[t] = IF t = Main THEN "init" ELSE pc[t]
    BY <2>1, <1>t DEF TypeOK
  <2>3. Running' = Running /\ Done' = {}
    BY <2>1, <2>2, <1>t, CurrentItems DEF Running, Done, Current
  <2> QED
    BY <2>1, <2>2, <2>3 DEF Tick!Next, Tick!Start, Tick!Items, Current, Running, Done
<1>3. CASE PushInitial
  BY <1>3, <1>t, TickStutter DEF PushInitial, Between
<1>4. CASE WakeThreads
  <2>1. /\ pc[Main] = "init" /\ pc' = [pc EXCEPT ![Main] = "check"]
        /\ UNCHANGED <<queue, item, runs>>
    BY <1>4 DEF WakeThreads, Goto, shared
  <2>2. \A t \in Thread : pc'[t] = IF t = Main THEN "check" ELSE pc[t]
    BY <2>1, <1>t DEF TypeOK
  <2> QED
    BY <2>1, <2>2, <1>t, TickStutter DEF Between
<1>5. CASE TickEnd
  <2>1. /\ pc[Main] = "wait" /\ pc' = [pc EXCEPT ![Main] = "idle"] /\ nodeCount = 0
        /\ UNCHANGED <<queue, item, runs>>
    BY <1>5 DEF TickEnd, Goto, shared, AllDone
  <2>2. \A t \in Thread : pc'[t] = IF t = Main THEN "idle" ELSE pc[t]
    BY <2>1, <1>t DEF TypeOK
  <2>3. /\ \A t \in Thread : item[t] = None
        /\ \A i \in Current : runs[i] = 1
    BY <2>1, NothingLeft DEF Between
  <2>4. Running = {} /\ Running' = {}
    BY <2>1, <2>3, QueueAssumption DEF Running
  <2>5. Done = Current /\ Done' = Done /\ Current' = Current
    BY <2>1, <2>3 DEF Done, Current
  <2> QED
    BY <2>1, <2>2, <2>4, <2>5 DEF Tick!Next, Tick!Finish, Tick!Items, Current, Running, Done
<1>6. ASSUME NEW h \in Helper, StopHelper(h) PROVE UNCHANGED Tick!vars
  <2>1. /\ pc[Main] \in {"idle", "join"} /\ pc' = [pc EXCEPT ![Main] = "join"]
        /\ UNCHANGED <<queue, item, runs>>
    BY <1>6 DEF StopHelper, Goto, shared
  <2>2. \A t \in Thread : pc'[t] = IF t = Main THEN "join" ELSE pc[t]
    BY <2>1, <1>t DEF TypeOK
  <2> QED
    BY <2>1, <2>2, <1>t, TickStutter DEF Between
<1>7. CASE ReleaseQueue
  <2>1. /\ pc[Main] \in {"idle", "join"} /\ pc' = [pc EXCEPT ![Main] = "terminated"]
        /\ UNCHANGED <<item, runs>> /\ queue' = None
    BY <1>7 DEF ReleaseQueue, Goto
  <2>2. \A t \in Thread : pc'[t] = IF t = Main THEN "terminated" ELSE pc[t]
    BY <2>1, <1>t DEF TypeOK
  <2>3. Running' = Running /\ Done' = {}
    BY <2>1, <2>2 DEF Running, Done, Current
  <2> QED
    BY <2>1, <2>2, <2>3 DEF Tick!Next, Tick!Remove, Running, Done
<1>8. ASSUME NEW h \in Helper, Wait(h) \/ TestStop(h) PROVE UNCHANGED Tick!vars
  <2>1. /\ pc[h] \in {"asleep", "woken"} /\ UNCHANGED <<queue, item, runs>>
        /\ \E l \in {"woken", "exited", "check"} : pc' = [pc EXCEPT ![h] = l]
    BY <1>8 DEF Wait, TestStop, Goto, At, shared
  <2>2. PICK l \in {"woken", "exited", "check"} : \A t \in Thread : pc'[t] = IF t = h THEN l ELSE pc[t]
    BY <2>1, <1>t DEF TypeOK
  <2> QED
    BY <2>1, <2>2, <1>t, TickStutter DEF Between
<1>9. ASSUME NEW t \in Thread, Pop(t) PROVE \E i \in Item : Tick!Begin(i)
  <2>1. PICK j \in Item : runnable[j] > 0 /\ item' = [item EXCEPT ![t] = j]
    BY <1>9 DEF Pop
  <2>2. /\ pc[t] = "pop" /\ pc' = [pc EXCEPT ![t] = "job"] /\ UNCHANGED <<queue, runs>>
    BY <1>9 DEF Pop, At, Goto
  <2>3. Ready(j) /\ j \in Current /\ \A u \in Thread : item[u] # j
    BY <2>1, <1>t DEF TickInv, OnePlace, NoDanglingItem, TypeOK, Has
  <2>4. Begins(t, j)
    BY <2>1, <2>2, <2>3, <1>t DEF Begins, TypeOK
  <2>5. ~Between
    BY <2>1, <1>t DEF TickInv, Quiet, TypeOK
  <2> QED
    BY <1>t, <2>3, <2>4, <2>5, BeginStep
<1>10. ASSUME NEW t \in Thread, JobDone(t) PROVE \E i \in Item : Tick!End(i)
  <2>1. /\ pc[t] = "job" /\ pc' = [pc EXCEPT ![t] = "deps"]
        /\ runs' = [runs EXCEPT ![item[t]] = @ + 1] /\ UNCHANGED <<queue, item>>
    BY <1>10 DEF JobDone, At, Goto, shared
  <2>2. item[t] \in Item /\ item[t] \in Current /\ runs[item[t]] = 0
    BY <2>1 DEF TickInv, ThreadShape, TypeOK, NoDanglingItem, OnePlace
  <2>3. \A u \in Thread : u # t => item[u] # item[t]
    BY <2>2 DEF TickInv, OnePlace, Has
  <2>4. /\ \A u \in Thread : pc'[u] = IF u = t THEN "deps" ELSE pc[u]
        /\ \A i \in Item : runs'[i] = IF i = item[t] THEN 1 ELSE runs[i]
    BY <2>1, <2>2, <1>t DEF TypeOK
  <2>5. item[t] \in Running /\ Running' = Running \ {item[t]}
    BY <2>1, <2>2, <2>3, <2>4 DEF Running
  <2>6. Done' = Done \cup {item[t]}
    BY <2>1, <2>2, <2>4, <1>t, CurrentItems DEF Done, Current
  <2>7. Between' <=> Between
    BY <2>1, <2>4 DEF Between
  <2>8. PICK j \in Item : j = item[t]
    BY <2>2
  <2>9. Tick!End(j)
    BY <2>1, <2>5, <2>6, <2>7, <2>8 DEF Tick!End, Running, Done, Between
  <2> QED
    BY <2>9
<1>11. ASSUME NEW t \in Thread, ResetActivation(t), next[t] # None
       PROVE  \E i \in Item : Tick!Begin(i)
  <2> DEFINE j == next[t]
  <2>1. /\ pc[t] = "deps" /\ pc' = [pc EXCEPT ![t] = "job"] /\ UNCHANGED <<queue, runs>>
        /\ item' = [item EXCEPT ![t] = j]
    BY <1>11 DEF ResetActivation, At, Goto
  <2>2. j \in Item /\ j \in Current /\ Ready(j)
    BY <1>11 DEF TickInv, OnePlace, NoDanglingItem, TypeOK
  <2>3. \A u \in Thread : item[u] # j
    BY <2>2 DEF TickInv, OnePlace, Has
  <2>4. Begins(t, j)
    BY <2>1, <2>3, <1>t DEF Begins, TypeOK
  <2>5. ~Between
    BY <2>1 DEF TickInv, Quiet, ThreadShape
  <2> QED
    BY <1>t, <2>2, <2>4, <2>5, BeginStep
<1>12. ASSUME NEW t \in Thread, RunItem(t), ~Pop(t), ~JobDone(t),
              ~(ResetActivation(t) /\ next[t] # None)
       PROVE  UNCHANGED Tick!vars
  <2>1. UNCHANGED <<queue, runs>> /\ pc[t] \in {"check", "pop", "deps", "push", "count"}
    BY <1>12 DEF RunItem, CheckNodeCount, PopNothing, Decrement, MarkAsRunnable,
                 ResetActivation, CountOff, At, shared
  <2>2. \A u \in Thread : u # t => item'[u] = item[u]
    BY <1>12, <1>t DEF RunItem, CheckNodeCount, PopNothing, Decrement, MarkAsRunnable,
                 ResetActivation, CountOff, shared, TypeOK
  <2>3. \E l \in {"check", "pop", "deps", "push", "count", "wait", "asleep", "aborted"} :
          pc' = [pc EXCEPT ![t] = l]
    <3>1. CASE Decrement(t)
      <4>1. pc' = pc \/ pc' = [pc EXCEPT ![t] = "push"]
        BY <3>1 DEF Decrement, DecrementOne, Goto
      <4>2. pc = [pc EXCEPT ![t] = pc[t]]
        BY <1>t DEF TypeOK
      <4> QED
        BY <2>1, <4>1, <4>2
    <3>2. CASE ~Decrement(t)
      BY <1>12, <3>2 DEF RunItem, CheckNodeCount, PopNothing, MarkAsRunnable,
                 ResetActivation, CountOff, Returned, Goto
    <3> QED
      BY <3>1, <3>2
  <2>4. PICK l \in {"check", "pop", "deps", "push", "count", "wait", "asleep", "aborted"} :
          \A u \in Thread : pc'[u] = IF u = t THEN l ELSE pc[u]
    BY <2>3, <1>t DEF TypeOK
  <2>5. Between' <=> Between
    BY <2>1, <2>4 DEF Between
  <2>6. \A u \in Thread : /\ pc'[u] = "job" <=> pc[u] = "job"
                          /\ pc[u] = "job" => item'[u] = item[u]
    BY <2>1, <2>2, <2>4
  <2> QED
    BY <2>1, <2>5, <2>6, <1>t, TickStutter
<1>13. CASE Finished
  BY <1>13, <1>t, TickStutter DEF Finished, vars, Between
<1>14. ASSUME NEW t \in Thread, RunItem(t) PROVE [Tick!Next]_(Tick!vars)
  <2>1. CASE Pop(t)
    BY <1>9, <2>1 DEF Tick!Next
  <2>2. CASE JobDone(t)
    BY <1>10, <2>2 DEF Tick!Next
  <2>3. CASE ResetActivation(t) /\ next[t] # None
    BY <1>11, <2>3 DEF Tick!Next
  <2> QED
    BY <1>12, <1>14, <2>1, <2>2, <2>3
<1>15. ASSUME NEW q \in Queue, ResetQueue(q) PROVE [Tick!Next]_(Tick!vars)
  BY <1>1, <1>15 DEF Tick!Next
<1> QED
  BY <1>2, <1>3, <1>4, <1>5, <1>6, <1>7, <1>8, <1>13, <1>14, <1>15 DEF Next

\* The dsp_queue_interpreter with its threads implements the abstract tick.
THEOREM Implements == Spec => ImplementsTick
<1>1. Init => Tick!Init
  BY ThreadFacts, QueueAssumption DEF Init, Tick!Init, Current
<1>2. TickInv /\ TickInv' /\ [Next]_vars => [Tick!Next]_(Tick!vars)
  <2>1. CASE Next
    BY <2>1, TickStep
  <2>2. CASE UNCHANGED vars
    BY <2>2 DEF vars, Tick!vars, Current
  <2> QED
    BY <2>1, <2>2
<1> QED
  BY TickInductive, <1>1, <1>2, PTL DEF Spec, ImplementsTick, Tick!Spec

=============================================================================
