------------------------- MODULE LangClocksProofs -------------------------
(* Proofs about LangClocks, for any number of clocks, queue sizes, tempos  *)
(* and programs: no sleeping clock thread has missed its notification, and *)
(* the list of clocks is exact until shutdown throws it away.              *)
EXTENDS LangClocks, TLAPS

-----------------------------------------------------------------------------
(* The inductive invariant *)

(* The length of a beat is never zero, and the main thread is in           *)
(* TempoClock::Stop only for the clock its walk is at.                     *)
Settled ==
  /\ program \in Programs
  /\ \A c \in AllClocks : base[c].dur # 0
  /\ stage[Main] \in {"lock", "join", "delete"} =>
       mainpc = "stop" /\ walk[1] \in Clocks

(* A clock that runs has been made, and a thread that was joined has ended. *)
LivesAreOrdered ==
  /\ \A c \in Clocks :
       /\ run[c] => life[c] # "none"
       /\ life[c] \in {"joined", "deleted"} => pc[c] = "ended"
  /\ mainpc = "shutdown" => pc[Sys] = "ended"

(* The constructor relies on mPrev being null in a clock not made yet.     *)
FreshUnlinked ==
  mainpc \notin {"free", "down"} =>
    \A c \in Clocks : life[c] = "none" => prev[c] = Nil

IndInv ==
  /\ TypeOK /\ Settled
  /\ SleepersAreNotNeeded
  /\ LivesAreOrdered /\ ThreadsEndFirst
  /\ FreshUnlinked /\ ListIsRunning

-----------------------------------------------------------------------------
(* Operators *)

(* Every queue stays a sequence of beats: Insert adds one. *)
LEMMA InsertType ==
  ASSUME NEW q \in Seq(Int), NEW b \in Int
  PROVE  Insert(q, b) \in Seq(Int) /\ Insert(q, b) # << >>
<1> DEFINE early(i) == i <= Len(q) /\ q[i] <= b
           s == [i \in 1..(Len(q) + 1) |->
                   IF early(i) THEN q[i] ELSE IF i = 1 \/ early(i - 1) THEN b ELSE q[i - 1]]
<1>1. s = Insert(q, b)
  BY DEF Insert
<1>2. ASSUME NEW i \in 1..(Len(q) + 1)
      PROVE  s[i] \in Int
  OBVIOUS
<1>3. s \in [1..(Len(q) + 1) -> Int]
  BY <1>2
<1> HIDE DEF s
<1>4. Len(q) + 1 \in Nat
  OBVIOUS
<1>5. s \in Seq(Int)
  BY <1>3, <1>4
<1>6. Len(s) = Len(q) + 1
  BY <1>3, <1>4
<1> QED
  BY <1>1, <1>5, <1>6

(* Division by the length of a beat is defined for a negative tempo too.   *)
LEMMA QuotientType ==
  ASSUME NEW n \in Int, NEW d \in Int, d # 0
  PROVE  Quotient(n, d) \in Int
  BY DEF Quotient

(* Beats and seconds convert to integers. *)
LEMMA Conversions ==
  ASSUME TypeOK, Settled, NEW c \in AllClocks, NEW x \in Int
  PROVE  /\ BeatsToSecs(c, x) \in Int
         /\ SecsToBeats(c, x) \in Int
         /\ ElapsedBeats(c) \in Int
         /\ Logical(c) \in Int
<1> base[c] \in [dur : Int, beats : Int, seconds : Int] /\ base[c].dur # 0
  BY DEF TypeOK, Settled, TempoBase
<1>1. \A s \in Int : SecsToBeats(c, s) \in Int
  BY QuotientType DEF SecsToBeats
<1>2. BeatsToSecs(c, x) \in Int
  BY DEF BeatsToSecs
<1>3. now \in Int /\ thread.seconds \in Int /\ thread.beats \in Int
  BY BoundsAssumption DEF TypeOK, LogicalTime
<1> QED
  BY <1>1, <1>2, <1>3 DEF ElapsedBeats, Logical

(* A notification only ever wakes a thread that sleeps. *)
LEMMA NotifiedWakes ==
  ASSUME TypeOK, NEW c \in AllClocks
  PROVE  /\ Notified(c) \in [AllClocks -> {"none", "start", "empty", "timed", "woken",
                                           "perform", "awake", "ended"}]
         /\ Notified(c)[c] \notin {"empty", "timed"}
         /\ \A k \in AllClocks : pc[k] = "ended" <=> Notified(c)[k] = "ended"
         /\ \A k \in AllClocks : Notified(c)[k] \in {"empty", "timed"} =>
              k # c /\ Notified(c)[k] = pc[k]
  BY DEF TypeOK, Notified, Asleep

(* Stop acts on a TempoClock. *)
LEMMA TargetType ==
  ASSUME Settled, NEW a \in Clocks \cup {Main},
         stage[a] \in {"lock", "join", "delete"}
  PROVE  Target(a) \in Clocks
  BY DEF Settled, Target

-----------------------------------------------------------------------------
(* Types *)

USE DEF time, tempo, list, object, shutdown, calling, Sane

(* What an action of each kind writes is of its type.                      *)
LEMMA TypeThread ==
  ASSUME TypeOK, Settled, NEW c \in AllClocks, ClockThread(c) \/ SpuriousWakeUp(c)
  PROVE  TypeOK' /\ Settled'
<1>1. CASE WaitForTask(c)
  BY <1>1 DEF WaitForTask, Sleep, TypeOK, Settled
<1>2. CASE WaitForTime(c)
  <2>1. BeatsToSecs(c, Head(queue[c])) \in Int
    BY <1>2, Conversions DEF WaitForTime, TypeOK
  <2> QED
    BY <1>2, <2>1 DEF WaitForTime, Sleep, TypeOK, Settled
<1>3. CASE FindReady(c)
  <2>1. ElapsedBeats(c) \in Int
    BY Conversions, 0 \in Int
  <2> QED
    BY <1>3, <2>1 DEF FindReady, TypeOK, Settled
<1>4. CASE Perform(c)
  <2>1. queue[c] \in Seq(Int) /\ queue[c] # << >>
    BY <1>4 DEF Perform, Ready, TypeOK
  <2>2. Head(queue[c]) \in Int /\ Tail(queue[c]) \in Seq(Int)
    BY <2>1
  <2>3. BeatsToSecs(c, Head(queue[c])) \in Int
    BY <2>2, Conversions
  <2>4. thread' \in LogicalTime
    BY <1>4, <2>2, <2>3 DEF Perform, LogicalTime
  <2> QED
    BY <1>4, <2>2, <2>4 DEF Perform, TypeOK, Settled
<1>5. CASE AwakeReturns(c)
  <2>1. NoCode \in LogicalTime
    BY DEF NoCode, LogicalTime
  <2>2. queue' \in [AllClocks -> Seq(Int)]
    <3>1. CASE queue' = queue
      BY <3>1 DEF TypeOK
    <3>2. ASSUME NEW d \in Deltas, queue' = Added(c, thread.beats + d)
          PROVE  queue' \in [AllClocks -> Seq(Int)]
      <4>1. thread.beats + d \in Int /\ queue[c] \in Seq(Int)
        BY BoundsAssumption DEF TypeOK, LogicalTime
      <4>2. Insert(queue[c], thread.beats + d) \in Seq(Int)
        BY <4>1, InsertType
      <4> QED
        BY <3>2, <4>2 DEF Added, TypeOK
    <3> QED
      BY <1>5, <3>1, <3>2 DEF AwakeReturns
  <2> QED
    BY <1>5, <2>1, <2>2 DEF AwakeReturns, TypeOK, Settled
<1>6. CASE WakeUp(c) \/ SpuriousWakeUp(c)
  BY <1>6 DEF WakeUp, SpuriousWakeUp, TypeOK, Settled
<1>7. CASE Leave(c)
  BY <1>7 DEF Leave, TypeOK, Settled
<1> QED
  BY <1>1, <1>2, <1>3, <1>4, <1>5, <1>6, <1>7 DEF ClockThread

\* A call of a primitive keeps the types.
LEMMA TypeCall ==
  ASSUME TypeOK, Settled, NEW family, Call(family)
  PROVE  calls' \in 0..program'.calls
<1> program.calls \in Nat
  BY BoundsAssumption DEF Settled
<1> QED
  BY DEF Call, TypeOK

\* So does scheduling.
LEMMA TypeSched ==
  ASSUME TypeOK, Settled, NEW c \in AllClocks, NEW b \in Int, prSched(c, b)
  PROVE  TypeOK' /\ Settled'
<1>1. Insert(queue[c], b) \in Seq(Int)
  BY InsertType DEF TypeOK
<1>2. queue' \in [AllClocks -> Seq(Int)]
  BY <1>1 DEF prSched, Added, TypeOK
<1>3. pc' \in [AllClocks -> {"none", "start", "empty", "timed", "woken",
                              "perform", "awake", "ended"}]
  BY NotifiedWakes DEF prSched, NotifiedByAdd, TypeOK
<1>4. calls' \in 0..program'.calls
  BY TypeCall DEF prSched
<1> QED
  BY <1>2, <1>3, <1>4 DEF prSched, Call, TypeOK, Settled

\* So does a change of tempo or beats.
LEMMA TypeSetAll ==
  ASSUME TypeOK, Settled, NEW c \in Clocks, NEW d \in Int, d # 0, NEW b \in Int,
         NEW s \in Int, NEW family, Call(family), SetAll(c, d, b, s)
  PROVE  TypeOK' /\ Settled'
<1>1. d \in Int /\ d # 0
  BY BoundsAssumption
<1>2. base' \in [AllClocks -> TempoBase]
  <2>1. [dur |-> d, beats |-> b, seconds |-> s] \in TempoBase
    BY <1>1 DEF TempoBase
  <2> QED
    BY <2>1 DEF SetAll, TypeOK
<1>3. \A k \in AllClocks : base'[k].dur # 0
  BY <1>1 DEF SetAll, TypeOK, Settled
<1>4. pc' \in [AllClocks -> {"none", "start", "empty", "timed", "woken",
                              "perform", "awake", "ended"}]
  BY NotifiedWakes DEF SetAll, AllClocks
<1>5. calls' \in 0..program'.calls
  BY TypeCall
<1> QED
  BY <1>2, <1>3, <1>4, <1>5 DEF SetAll, Call, TypeOK, Settled

\* So does every primitive.
LEMMA TypePrimitive ==
  ASSUME TypeOK, Settled, Primitive
  PROVE  TypeOK' /\ Settled'
<1>1. ASSUME NEW c \in AllClocks, prClock_Sched(c)
      PROVE  TypeOK' /\ Settled'
  <2>1. PICK d \in Deltas : prSched(c, Logical(c) + d)
    BY <1>1 DEF prClock_Sched
  <2>2. Logical(c) + d \in Int
    BY Conversions, BoundsAssumption, 0 \in Int
  <2> QED
    BY <2>1, <2>2, TypeSched
<1>2. ASSUME NEW c \in AllClocks, prClock_SchedAbs(c)
      PROVE  TypeOK' /\ Settled'
  BY <1>2, TypeSched, BoundsAssumption DEF prClock_SchedAbs
<1>3. ASSUME NEW c \in AllClocks, prClock_Clear(c)
      PROVE  TypeOK' /\ Settled'
  <2>1. calls' \in 0..program'.calls
    BY <1>3, TypeCall DEF prClock_Clear
  <2>2. queue' \in [AllClocks -> Seq(Int)]
    <3>1. << >> \in Seq(Int)
      OBVIOUS
    <3> QED
      BY <1>3, <3>1 DEF prClock_Clear, TypeOK
  <2>3. pc' \in [AllClocks -> {"none", "start", "empty", "timed", "woken",
                                "perform", "awake", "ended"}]
    BY <1>3, NotifiedWakes DEF prClock_Clear, TypeOK
  <2> QED
    BY <1>3, <2>1, <2>2, <2>3 DEF prClock_Clear, Call, TypeOK, Settled
<1>4. ASSUME NEW c \in Clocks, prClock_New(c)
      PROVE  TypeOK' /\ Settled'
  <2>1. calls' \in 0..program'.calls
    BY <1>4, TypeCall DEF prClock_New
  <2>2. PICK d \in {x \in BeatDurs : x > 0} :
          base' = [base EXCEPT ![c] = [dur |-> d, beats |-> 0, seconds |-> thread.seconds]]
    BY <1>4 DEF prClock_New
  <2>3. d \in Int /\ d # 0 /\ thread.seconds \in Int
    BY BoundsAssumption DEF TypeOK, LogicalTime
  <2>4. [dur |-> d, beats |-> 0, seconds |-> thread.seconds] \in TempoBase
    BY <2>3 DEF TempoBase
  <2>5. base' \in [AllClocks -> TempoBase] /\ \A k \in AllClocks : base'[k].dur # 0
    BY <2>2, <2>3, <2>4 DEF TypeOK, Settled
  <2> QED
    BY <1>4, <2>1, <2>5 DEF prClock_New, Call, TypeOK, Settled
<1>5. ASSUME NEW c \in Clocks, prTempoClock_Free(c)
      PROVE  TypeOK' /\ Settled'
  <2>1. calls' \in 0..program'.calls
    BY <1>5, TypeCall DEF prTempoClock_Free
  <2> QED
    BY <1>5, <2>1, ClocksAssumption DEF prTempoClock_Free, Call, TypeOK, Settled, AllClocks
<1>6. ASSUME NEW c \in Clocks,
             prClock_SetBeats(c) \/ prClock_SetTempoAtBeat(c) \/ prClock_SetTempoAtTime(c)
      PROVE  TypeOK' /\ Settled'
  <2>1. c \in AllClocks
    BY DEF AllClocks
  <2>2. now \in Int /\ thread.seconds \in Int /\ base[c].dur \in Int /\ base[c].dur # 0
    BY <2>1, BoundsAssumption DEF TypeOK, Settled, TempoBase, LogicalTime
  <2>3. Logical(c) \in Int /\ ElapsedBeats(c) \in Int
    BY <2>1, Conversions, 0 \in Int
  <2>4. BeatsToSecs(c, Logical(c)) \in Int
    BY <2>1, <2>3, Conversions
  <2>5. CASE prClock_SetBeats(c)
    BY <2>2, <2>5, TypeSetAll, BoundsAssumption DEF prClock_SetBeats
  <2>6. CASE prClock_SetTempoAtBeat(c)
    BY <2>3, <2>4, <2>6, TypeSetAll, BoundsAssumption DEF prClock_SetTempoAtBeat
  <2>7. CASE prClock_SetTempoAtTime(c)
    BY <2>2, <2>3, <2>7, TypeSetAll, BoundsAssumption DEF prClock_SetTempoAtTime
  <2> QED
    BY <1>6, <2>5, <2>6, <2>7
<1>7. CASE PrimitiveFault
  BY <1>7 DEF PrimitiveFault, TypeOK, Settled
<1> QED
  BY <1>1, <1>2, <1>3, <1>4, <1>5, <1>6, <1>7 DEF Primitive

\* So does every step of stopping a clock.
LEMMA TypeStop ==
  ASSUME TypeOK, Settled, NEW a \in Clocks \cup {Main}, Stop(a)
  PROVE  TypeOK' /\ Settled'
<1> DEFINE c == Target(a)
<1>1. CASE StopLock(a)
  <2>1. c \in Clocks /\ c \in AllClocks
    BY <1>1, TargetType DEF StopLock, AllClocks
  <2>2. pc' \in [AllClocks -> {"none", "start", "empty", "timed", "woken",
                                "perform", "awake", "ended"}]
    BY <1>1, <2>1, NotifiedWakes DEF StopLock, TypeOK
  <2>3. run' \in [AllClocks -> BOOLEAN]
    BY <1>1 DEF StopLock, TypeOK
  <2>4. /\ sAll' \in Clocks \cup {Nil}
        /\ next' \in [Clocks -> Clocks \cup {Nil}]
        /\ prev' \in [Clocks -> Clocks \cup {Nil}]
    <3>1. CASE UNCHANGED list
      BY <3>1 DEF TypeOK
    <3>2. CASE Unlink(c)
      <4> HIDE DEF c
      <4> QED
        BY <3>2, <2>1 DEF Unlink, TypeOK
    <3> QED
      BY <1>1, <3>1, <3>2 DEF StopLock
  <2> QED
    BY <1>1, <2>2, <2>3, <2>4 DEF StopLock, TypeOK, Settled
<1>2. CASE StopJoin(a)
  BY <1>2 DEF StopJoin, TypeOK, Settled
<1>3. CASE StopDelete(a)
  <2>1. walk[1] \in Clocks \cup {Nil} /\ walk[2] \in Clocks \cup {Nil}
    BY DEF TypeOK
  <2>2. a = Main => stage'[Main] = "done"
    BY <1>3 DEF StopDelete, TypeOK
  <2>3. walk' \in (Clocks \cup {Nil}) \X (Clocks \cup {Nil})
    BY <1>3, <2>1 DEF StopDelete, TypeOK
  <2> QED
    BY <1>3, <2>2, <2>3 DEF StopDelete, TypeOK, Settled
<1>4. CASE StopFault(a)
  BY <1>4 DEF StopFault, TypeOK, Settled
<1> QED
  BY <1>1, <1>2, <1>3, <1>4 DEF Stop

\* So does the main thread.
LEMMA TypeMain ==
  ASSUME TypeOK, Settled,
         Tick \/ RunCode \/ CodeReturns \/ SchedStop \/ SchedNotify \/ SchedJoin
         \/ RunShutdown \/ ShutdownReturns \/ StopAllBegin \/ StopAllNext
         \/ StopAllFault \/ StopAllEnd \/ FreeAll
  PROVE  TypeOK' /\ Settled'
<1>1. Sys \in AllClocks
  BY DEF AllClocks
<1>2. now \in Int
  BY BoundsAssumption DEF TypeOK
<1>3. CASE Tick
  BY <1>3, BoundsAssumption DEF Tick, TypeOK, Settled
<1>4. CASE RunCode \/ RunShutdown
  <2>1. [clock |-> Sys, beats |-> now, seconds |-> now] \in LogicalTime
    BY <1>1, <1>2 DEF LogicalTime
  <2> QED
    BY <1>4, <2>1 DEF RunCode, RunShutdown, StartCode, Goto, TypeOK, Settled
<1>5. CASE CodeReturns \/ ShutdownReturns
  <2>1. NoCode \in LogicalTime
    BY DEF NoCode, LogicalTime
  <2> QED
    BY <1>5, <2>1 DEF CodeReturns, ShutdownReturns, EndCode, Goto, TypeOK, Settled
<1>6. CASE SchedStop
  BY <1>6 DEF SchedStop, Goto, TypeOK, Settled
<1>7. CASE SchedNotify
  BY <1>1, <1>7, NotifiedWakes DEF SchedNotify, Goto, TypeOK, Settled
<1>8. CASE SchedJoin \/ FreeAll
  BY <1>8 DEF SchedJoin, FreeAll, Goto, TypeOK, Settled
<1>9. CASE StopAllBegin
  BY <1>9 DEF StopAllBegin, Goto, TypeOK, Settled
<1>10. CASE StopAllNext
  <2>1. walk[1] \in Clocks
    BY <1>10 DEF StopAllNext, TypeOK
  <2> QED
    BY <1>10, <2>1 DEF StopAllNext, Goto, TypeOK, Settled
<1>11. CASE StopAllFault \/ StopAllEnd
  BY <1>11 DEF StopAllFault, StopAllEnd, Goto, TypeOK, Settled
<1> QED
  BY <1>3, <1>4, <1>5, <1>6, <1>7, <1>8, <1>9, <1>10, <1>11

\* Every step keeps the types.
LEMMA TypeStep ==
  ASSUME TypeOK, Settled, [Next]_vars
  PROVE  TypeOK' /\ Settled'
<1>1. CASE UNCHANGED vars
  BY <1>1 DEF vars, TypeOK, Settled
<1>2. CASE Next
  BY <1>1, <1>2, TypeThread, TypePrimitive, TypeStop, TypeMain
  DEF Next, Shutdown, Finished
<1> QED
  BY <1>1, <1>2

-----------------------------------------------------------------------------
(* No notification is missed *)

(* The thread of k sleeps on, and nothing that its sleep rests on changed. *)
Undisturbed(k) ==
  /\ pc'[k] = pc[k] /\ deadline'[k] = deadline[k] /\ base'[k] = base[k]
  /\ queue'[k] # << >> => queue[k] # << >> /\ Head(queue'[k]) = Head(queue[k])
  /\ run[k] => run'[k]
  /\ k = Sys /\ mainpc = "notify" => mainpc' = "notify"

\* A step that leaves the clocks' queues, tempos and flags alone, or wakes
\* whom it concerns, leaves no sleeper in need.
LEMMA SleepersUndisturbed ==
  ASSUME SleepersAreNotNeeded,
         \A k \in AllClocks : pc'[k] \in {"empty", "timed"} => Undisturbed(k)
  PROVE  SleepersAreNotNeeded'
<1> SUFFICES ASSUME NEW k \in AllClocks, Asleep(k)'
             PROVE  /\ run'[k] \/ (k = Sys /\ mainpc' = "notify")
                    /\ queue'[k] # << >> =>
                         pc'[k] = "timed" /\ deadline'[k] <= BeatsToSecs(k, Head(queue[k]))'
  BY DEF SleepersAreNotNeeded
<1>1. Undisturbed(k) /\ Asleep(k)
  BY DEF Asleep, Undisturbed
<1>2. run[k] \/ (k = Sys /\ mainpc = "notify")
  BY <1>1 DEF SleepersAreNotNeeded
<1>3. ASSUME queue'[k] # << >>
      PROVE  pc'[k] = "timed" /\ deadline'[k] <= BeatsToSecs(k, Head(queue[k]))'
  <2>1. pc[k] = "timed" /\ deadline[k] <= BeatsToSecs(k, Head(queue[k]))
    BY <1>1, <1>3 DEF SleepersAreNotNeeded, Undisturbed
  <2>2. BeatsToSecs(k, Head(queue[k]))' = BeatsToSecs(k, Head(queue[k]))
    BY <1>1, <1>3 DEF BeatsToSecs, Undisturbed
  <2> QED
    BY <1>1, <2>1, <2>2 DEF Undisturbed
<1> QED
  BY <1>1, <1>2, <1>3 DEF Undisturbed

(* A thread goes to sleep only when it is not needed: the clock runs, and  *)
(* it sleeps until its first task is due.                                  *)
LEMMA SleepersThread ==
  ASSUME TypeOK, Settled, SleepersAreNotNeeded,
         NEW c \in AllClocks, ClockThread(c) \/ SpuriousWakeUp(c)
  PROVE  SleepersAreNotNeeded'
<1>1. CASE WaitForTask(c)
  <2> SUFFICES ASSUME NEW k \in AllClocks, Asleep(k)'
               PROVE  /\ run'[k] \/ (k = Sys /\ mainpc' = "notify")
                      /\ queue'[k] # << >> =>
                           pc'[k] = "timed" /\ deadline'[k] <= BeatsToSecs(k, Head(queue[k]))'
    BY DEF SleepersAreNotNeeded
  <2>1. CASE k = c
    BY <1>1, <2>1 DEF WaitForTask, Sleep
  <2>2. CASE k # c
    BY <1>1, <2>2 DEF WaitForTask, Sleep, TypeOK, SleepersAreNotNeeded, Asleep, BeatsToSecs
  <2> QED
    BY <2>1, <2>2
<1>2. CASE WaitForTime(c)
  <2> SUFFICES ASSUME NEW k \in AllClocks, Asleep(k)'
               PROVE  /\ run'[k] \/ (k = Sys /\ mainpc' = "notify")
                      /\ queue'[k] # << >> =>
                           pc'[k] = "timed" /\ deadline'[k] <= BeatsToSecs(k, Head(queue[k]))'
    BY DEF SleepersAreNotNeeded
  <2>1. CASE k = c
    <3>1. BeatsToSecs(c, Head(queue[c])) \in Int
      <4>1. queue[c] \in Seq(Int) /\ queue[c] # << >>
        BY <1>2 DEF WaitForTime, TypeOK
      <4>2. Head(queue[c]) \in Int
        BY <4>1
      <4> QED
        BY <4>2, Conversions
    <3>2. BeatsToSecs(c, Head(queue[c]))' = BeatsToSecs(c, Head(queue[c]))
      BY <1>2 DEF WaitForTime, Sleep, BeatsToSecs
    <3>3. deadline'[c] = BeatsToSecs(c, Head(queue[c]))
      BY <1>2 DEF WaitForTime, Sleep, TypeOK
    <3>4. pc'[c] = "timed"
      BY <1>2 DEF WaitForTime, Sleep, TypeOK
    <3>5. run'[c]
      BY <1>2 DEF WaitForTime, Sleep
    <3>6. deadline'[c] <= BeatsToSecs(c, Head(queue[c]))'
      BY <3>1, <3>2, <3>3
    <3> QED
      BY <2>1, <3>4, <3>5, <3>6
  <2>2. CASE k # c
    BY <1>2, <2>2 DEF WaitForTime, Sleep, TypeOK, SleepersAreNotNeeded, Asleep, BeatsToSecs
  <2> QED
    BY <2>1, <2>2
<1>3. CASE FindReady(c)
  BY <1>3, SleepersUndisturbed DEF FindReady, TypeOK, Undisturbed
<1>4. CASE Perform(c)
  BY <1>4, SleepersUndisturbed DEF Perform, TypeOK, Undisturbed
<1>5. CASE AwakeReturns(c)
  <2>1. \A k \in AllClocks \ {c} : queue'[k] = queue[k]
    BY <1>5 DEF AwakeReturns, Added, TypeOK
  <2> QED
    BY <1>5, <2>1, SleepersUndisturbed DEF AwakeReturns, TypeOK, Undisturbed
<1>6. CASE WakeUp(c) \/ SpuriousWakeUp(c)
  BY <1>6, SleepersUndisturbed DEF WakeUp, SpuriousWakeUp, TypeOK, Undisturbed
<1>7. CASE Leave(c)
  BY <1>7, SleepersUndisturbed DEF Leave, TypeOK, Undisturbed
<1> QED
  BY <1>1, <1>2, <1>3, <1>4, <1>5, <1>6, <1>7 DEF ClockThread

(* Whoever changes the first task or the tempo of a clock notifies it.     *)
LEMMA SleepersPrimitive ==
  ASSUME TypeOK, SleepersAreNotNeeded, Primitive
  PROVE  SleepersAreNotNeeded'
<1>1. ASSUME NEW c \in AllClocks, NEW b, prSched(c, b)
      PROVE  SleepersAreNotNeeded'
  <2>1. \A k \in AllClocks \ {c} : queue'[k] = queue[k]
    BY <1>1 DEF prSched, Added, TypeOK
  <2>2. CASE pc' = Notified(c)
    BY <1>1, <2>1, <2>2, NotifiedWakes, SleepersUndisturbed DEF prSched, Call, Undisturbed
  <2>3. CASE pc' # Notified(c)
    <3>1. pc' = pc /\ (Full(c) \/ (queue[c] # << >> /\ Head(Insert(queue[c], b)) = Head(queue[c])))
      BY <1>1, <2>3 DEF prSched, NotifiedByAdd
    <3>2. queue'[c] = queue[c] \/ (queue[c] # << >> /\ Head(queue'[c]) = Head(queue[c]))
      BY <1>1, <3>1 DEF prSched, Added, TypeOK
    <3> QED
      BY <1>1, <2>1, <3>1, <3>2, SleepersUndisturbed DEF prSched, Call, Undisturbed
  <2> QED
    BY <2>2, <2>3
<1>2. ASSUME NEW c \in AllClocks, prClock_Clear(c)
      PROVE  SleepersAreNotNeeded'
  <2>1. \A k \in AllClocks \ {c} : queue'[k] = queue[k]
    BY <1>2 DEF prClock_Clear, TypeOK
  <2>2. CASE run[c]
    BY <1>2, <2>1, <2>2, NotifiedWakes, SleepersUndisturbed DEF prClock_Clear, Call, Undisturbed
  <2>3. CASE ~run[c]
    BY <1>2, <2>3, SleepersUndisturbed DEF prClock_Clear, Call, Undisturbed
  <2> QED
    BY <2>2, <2>3
<1>3. ASSUME NEW c \in Clocks, prClock_New(c)
      PROVE  SleepersAreNotNeeded'
  <2>1. \A k \in AllClocks \ {c} :
          queue'[k] = queue[k] /\ base'[k] = base[k] /\ run'[k] = run[k] /\ pc'[k] = pc[k]
    BY <1>3 DEF prClock_New, TypeOK
  <2>2. pc'[c] = "start"
    BY <1>3 DEF prClock_New, TypeOK, AllClocks
  <2> QED
    BY <1>3, <2>1, <2>2, SleepersUndisturbed DEF prClock_New, Call, Undisturbed
<1>4. ASSUME NEW c \in Clocks, prTempoClock_Free(c)
      PROVE  SleepersAreNotNeeded'
  BY <1>4, SleepersUndisturbed DEF prTempoClock_Free, Call, Undisturbed
<1>5. ASSUME NEW c \in Clocks, NEW d, NEW b, NEW s, NEW family, Call(family), SetAll(c, d, b, s)
      PROVE  SleepersAreNotNeeded'
  <2>1. \A k \in AllClocks \ {c} : base'[k] = base[k]
    BY <1>5 DEF SetAll, TypeOK
  <2>2. c \in AllClocks
    BY DEF AllClocks
  <2> QED
    BY <1>5, <2>1, <2>2, NotifiedWakes, SleepersUndisturbed DEF SetAll, Call, Undisturbed
<1>6. ASSUME NEW c \in Clocks,
             prClock_SetBeats(c) \/ prClock_SetTempoAtBeat(c) \/ prClock_SetTempoAtTime(c)
      PROVE  SleepersAreNotNeeded'
  BY <1>5, <1>6 DEF prClock_SetBeats, prClock_SetTempoAtBeat, prClock_SetTempoAtTime
<1>7. CASE PrimitiveFault
  BY <1>7, SleepersUndisturbed DEF PrimitiveFault, Undisturbed
<1> QED
  BY <1>1, <1>2, <1>3, <1>4, <1>6, <1>7 DEF Primitive, prClock_Sched, prClock_SchedAbs

(* Stop notifies the thread of the clock it stops, and schedStop the one   *)
(* of SystemClock as its next step.                                        *)
LEMMA SleepersStop ==
  ASSUME TypeOK, Settled, SleepersAreNotNeeded, NEW a \in Clocks \cup {Main}, Stop(a)
  PROVE  SleepersAreNotNeeded'
<1>1. CASE StopLock(a)
  <2> DEFINE c == Target(a)
  <2>1. c \in Clocks /\ c \in AllClocks
    BY <1>1, TargetType DEF StopLock, AllClocks
  <2>2. CASE run[c]
    <3>1. run' = [run EXCEPT ![c] = FALSE] /\ pc' = Notified(c)
      BY <1>1, <2>2 DEF StopLock
    <3>2. UNCHANGED <<queue, base, deadline, mainpc>>
      BY <1>1 DEF StopLock
    <3> HIDE DEF c
    <3>3. \A k \in AllClocks \ {c} : run'[k] = run[k]
      BY <3>1 DEF TypeOK
    <3> QED
      BY <2>1, <3>1, <3>2, <3>3, NotifiedWakes, SleepersUndisturbed DEF Undisturbed
  <2>3. CASE ~run[c]
    BY <1>1, <2>3, SleepersUndisturbed DEF StopLock, Undisturbed
  <2> QED
    BY <2>2, <2>3
<1>2. CASE StopJoin(a) \/ StopFault(a)
  BY <1>2, SleepersUndisturbed DEF StopJoin, StopFault, Undisturbed
<1>3. CASE StopDelete(a)
  <2>1. mainpc # "notify" \/ mainpc' = mainpc
    BY <1>3 DEF StopDelete, Settled
  <2> QED
    BY <1>3, <2>1, SleepersUndisturbed DEF StopDelete, Undisturbed
<1> QED
  BY <1>1, <1>2, <1>3 DEF Stop

\* The steps of the main thread leave no sleeper in need.
LEMMA SleepersMain ==
  ASSUME TypeOK, SleepersAreNotNeeded,
         Tick \/ RunCode \/ CodeReturns \/ SchedStop \/ SchedNotify \/ SchedJoin
         \/ RunShutdown \/ ShutdownReturns \/ StopAllBegin \/ StopAllNext
         \/ StopAllFault \/ StopAllEnd \/ FreeAll
  PROVE  SleepersAreNotNeeded'
<1>1. CASE SchedStop
  BY <1>1 DEF SchedStop, Goto, TypeOK, SleepersAreNotNeeded, Asleep, BeatsToSecs
<1>2. CASE SchedNotify
  <2>1. Sys \in AllClocks
    BY DEF AllClocks
  <2> QED
    BY <1>2, <2>1, NotifiedWakes, SleepersUndisturbed DEF SchedNotify, Goto, Undisturbed
<1>3. CASE Tick \/ RunCode \/ CodeReturns \/ RunShutdown \/ ShutdownReturns
  BY <1>3, SleepersUndisturbed
  DEF Tick, RunCode, CodeReturns, RunShutdown, ShutdownReturns, StartCode, EndCode,
      Goto, Undisturbed
<1>4. CASE SchedJoin \/ StopAllBegin \/ StopAllNext \/ StopAllFault \/ StopAllEnd \/ FreeAll
  BY <1>4, SleepersUndisturbed
  DEF SchedJoin, StopAllBegin, StopAllNext, StopAllFault, StopAllEnd, FreeAll,
      Goto, Undisturbed
<1> QED
  BY <1>1, <1>2, <1>3, <1>4

\* No step leaves a sleeper in need.
LEMMA SleepersStep ==
  ASSUME TypeOK, Settled, SleepersAreNotNeeded, [Next]_vars
  PROVE  SleepersAreNotNeeded'
<1>1. CASE UNCHANGED vars
  BY <1>1 DEF vars, SleepersAreNotNeeded, Asleep, BeatsToSecs
<1>2. CASE Next
  BY <1>1, <1>2, SleepersThread, SleepersPrimitive, SleepersStop, SleepersMain
  DEF Next, Shutdown, Finished
<1> QED
  BY <1>1, <1>2

-----------------------------------------------------------------------------
(* Threads end before their clocks *)

\* A thread that was joined has ended, after every step.
LEMMA LivesStep ==
  ASSUME IndInv, [Next]_vars
  PROVE  LivesAreOrdered' /\ ThreadsEndFirst'
<1> USE ClocksAssumption DEF IndInv, LivesAreOrdered, ThreadsEndFirst
<1>1. CASE UNCHANGED vars
  BY <1>1 DEF vars
<1>2. ASSUME NEW c \in AllClocks, ClockThread(c) \/ SpuriousWakeUp(c)
      PROVE  LivesAreOrdered' /\ ThreadsEndFirst'
  <2>1. UNCHANGED <<run, life, mainpc>>
    BY <1>2 DEF ClockThread, WaitForTask, WaitForTime, FindReady, Perform, AwakeReturns,
                WakeUp, SpuriousWakeUp, Leave, Sleep
  <2>2. \A k \in AllClocks : pc[k] = "ended" => pc'[k] = "ended"
    <3>1. pc[c] # "ended"
      BY <1>2 DEF ClockThread, WaitForTask, WaitForTime, FindReady, Perform, AwakeReturns,
                  WakeUp, SpuriousWakeUp, Leave, AtLoop, TimedOut, Asleep
    <3>2. \A k \in AllClocks \ {c} : pc'[k] = pc[k]
      BY <1>2 DEF ClockThread, WaitForTask, WaitForTime, FindReady, Perform, AwakeReturns,
                  WakeUp, SpuriousWakeUp, Leave, Sleep, TypeOK
    <3> QED
      BY <3>1, <3>2
  <2> QED
    BY <2>1, <2>2 DEF AllClocks
<1>3. CASE Primitive
  <2>1. ASSUME NEW c \in AllClocks,
               prClock_Sched(c) \/ prClock_SchedAbs(c) \/ prClock_Clear(c)
        PROVE  LivesAreOrdered' /\ ThreadsEndFirst'
    <3>1. UNCHANGED <<run, life, mainpc>> /\ pc' \in {pc, Notified(c)}
      BY <2>1 DEF prClock_Sched, prClock_SchedAbs, prClock_Clear, prSched, NotifiedByAdd, Call
    <3> QED
      BY <3>1, NotifiedWakes DEF AllClocks
  <2>2. ASSUME NEW c \in Clocks, prClock_New(c)
        PROVE  LivesAreOrdered' /\ ThreadsEndFirst'
    <3>1. mainpc' = mainpc
      BY <2>2 DEF prClock_New, Call
    <3>2. /\ life' = [life EXCEPT ![c] = "live"] /\ pc' = [pc EXCEPT ![c] = "start"]
          /\ run' = [run EXCEPT ![c] = TRUE]
      BY <2>2 DEF prClock_New
    <3> QED
      BY <3>1, <3>2 DEF TypeOK, AllClocks
  <2>3. ASSUME NEW c \in Clocks,
               \/ prTempoClock_Free(c) \/ prClock_SetBeats(c)
               \/ prClock_SetTempoAtBeat(c) \/ prClock_SetTempoAtTime(c)
        PROVE  LivesAreOrdered' /\ ThreadsEndFirst'
    <3>1. UNCHANGED <<run, life, mainpc>> /\ pc' \in {pc, Notified(c)}
      BY <2>3 DEF prTempoClock_Free, prClock_SetBeats, prClock_SetTempoAtBeat,
                  prClock_SetTempoAtTime, SetAll, Call
    <3> QED
      BY <3>1, NotifiedWakes DEF AllClocks
  <2>4. CASE PrimitiveFault
    BY <2>4 DEF PrimitiveFault
  <2> QED
    BY <1>3, <2>1, <2>2, <2>3, <2>4 DEF Primitive
<1>4. ASSUME NEW a \in Clocks \cup {Main}, Stop(a)
      PROVE  LivesAreOrdered' /\ ThreadsEndFirst'
  <2> DEFINE c == Target(a)
  <2>1. CASE StopLock(a)
    <3>1. c \in Clocks
      BY <2>1, TargetType DEF StopLock
    <3>2. UNCHANGED <<life, mainpc>> /\ run' \in {run, [run EXCEPT ![c] = FALSE]}
          /\ pc' \in {pc, Notified(c)}
      BY <2>1 DEF StopLock
    <3> HIDE DEF c
    <3>3. \A k \in Clocks : run'[k] => run[k]
      BY <3>2 DEF TypeOK, AllClocks
    <3> QED
      BY <3>1, <3>2, <3>3, NotifiedWakes DEF AllClocks
  <2>2. CASE StopJoin(a)
    <3>1. c \in Clocks
      BY <2>2, TargetType DEF StopJoin
    <3>2. UNCHANGED <<run, pc, mainpc>> /\ life' = [life EXCEPT ![c] = "joined"] /\ pc[c] = "ended"
      BY <2>2 DEF StopJoin
    <3> HIDE DEF c
    <3> QED
      BY <3>1, <3>2 DEF TypeOK
  <2>3. CASE StopDelete(a)
    <3>1. c \in Clocks
      BY <2>3, TargetType DEF StopDelete
    <3>2. UNCHANGED <<run, pc>> /\ life' = [life EXCEPT ![c] = "deleted"] /\ life[c] = "joined"
      BY <2>3 DEF StopDelete
    <3>3. mainpc' = mainpc \/ mainpc = "stop"
      BY <2>3 DEF StopDelete, Settled
    <3> HIDE DEF c
    <3> QED
      BY <3>1, <3>2, <3>3 DEF TypeOK
  <2>4. CASE StopFault(a)
    BY <2>4 DEF StopFault
  <2> QED
    BY <1>4, <2>1, <2>2, <2>3, <2>4 DEF Stop
<1>5. CASE Tick \/ RunCode \/ CodeReturns
  BY <1>5 DEF Tick, RunCode, CodeReturns, StartCode, EndCode, Goto
<1>6. CASE SchedStop
  BY <1>6 DEF SchedStop, Goto, TypeOK
<1>7. CASE SchedNotify
  BY <1>7, NotifiedWakes DEF SchedNotify, Goto, AllClocks
<1>8. CASE SchedJoin \/ RunShutdown \/ ShutdownReturns \/ FreeAll
  BY <1>8 DEF SchedJoin, RunShutdown, ShutdownReturns, FreeAll, StartCode, EndCode, Goto
<1>9. CASE StopAllBegin \/ StopAllNext \/ StopAllFault \/ StopAllEnd
  BY <1>9 DEF StopAllBegin, StopAllNext, StopAllFault, StopAllEnd, Goto
<1> QED
  BY <1>1, <1>2, <1>3, <1>4, <1>5, <1>6, <1>7, <1>8, <1>9 DEF Next, Shutdown, Finished

-----------------------------------------------------------------------------
(* The list *)

(* Listed has the first clock and all that follow, and nothing more.       *)
LEMMA ListedLeast ==
  ASSUME TypeOK
  PROVE  /\ Follows(Listed)
         /\ \A S \in SUBSET Clocks : Follows(S) => Listed \subseteq S
<1>1. sAll \in Listed \cup {Nil}
  BY DEF TypeOK, Listed, Follows
<1>2. ASSUME NEW k \in Listed
      PROVE  next[k] \in Listed \cup {Nil}
  BY DEF TypeOK, Listed, Follows
<1> QED
  BY <1>1, <1>2 DEF Listed, Follows

(* mPrev finds the clock before a listed one.                              *)
LEMMA PrevFinds ==
  ASSUME TypeOK, ListIsRunning, mainpc \notin {"free", "down"}, NEW c \in Listed
  PROVE  /\ prev[c] = Nil <=> sAll = c
         /\ prev[c] # Nil => prev[c] \in Listed \ {c} /\ next[prev[c]] = c
<1> USE ClocksAssumption DEF ListIsRunning
<1>1. c # Nil /\ Listed \subseteq Clocks
  BY DEF Listed, AllClocks
<1>2. sAll = c \/ \E k \in Listed \ {c} : next[k] = c
  <2> SUFFICES ASSUME sAll # c, \A k \in Listed \ {c} : next[k] # c
               PROVE  FALSE
    OBVIOUS
  <2>1. Follows(Listed \ {c})
    BY ListedLeast DEF Follows
  <2> QED
    BY <1>1, <2>1, ListedLeast
<1> QED
  BY <1>1, <1>2

(* The constructor puts the new clock in front.                            *)
LEMMA ListNew ==
  ASSUME IndInv, NEW c \in Clocks, prClock_New(c)
  PROVE  FreshUnlinked' /\ ListIsRunning'
<1> SUFFICES ASSUME mainpc \notin {"free", "down"}
             PROVE  /\ \A k \in Clocks : life'[k] = "none" => prev'[k] = Nil
                    /\ Listed' = {k \in Clocks : run'[k]}
                    /\ sAll' # Nil => prev'[sAll'] = Nil
                    /\ \A k \in Listed' : next'[k] # Nil => prev'[next'[k]] = k
  BY DEF prClock_New, Call, FreshUnlinked, ListIsRunning
<1>0. PICK R \in SUBSET Clocks : R = Listed
  BY DEF Listed
<1>1. /\ sAll' = c
      /\ next' = [next EXCEPT ![c] = sAll]
      /\ prev' = [k \in Clocks |-> IF k = sAll THEN c ELSE prev[k]]
      /\ life' = [life EXCEPT ![c] = "live"]
      /\ run' = [run EXCEPT ![c] = TRUE]
      /\ life[c] = "none"
  BY DEF prClock_New
<1>2. /\ R = {k \in Clocks : run[k]}
      /\ sAll # Nil => prev[sAll] = Nil
      /\ \A k \in R : next[k] # Nil => prev[next[k]] = k
      /\ \A k \in Clocks : life[k] = "none" => prev[k] = Nil
  BY <1>0 DEF IndInv, ListIsRunning, FreshUnlinked
<1>3. /\ sAll \in R \cup {Nil} /\ \A k \in R : next[k] \in R \cup {Nil}
      /\ \A S \in SUBSET Clocks : Follows(S) => R \subseteq S
  BY <1>0, ListedLeast DEF IndInv, Follows
<1>4. c \notin R /\ c # Nil /\ Nil \notin Clocks /\ R \subseteq Clocks
  BY <1>1, <1>2, ClocksAssumption DEF IndInv, LivesAreOrdered, AllClocks
<1>5. /\ next'[c] = sAll /\ \A k \in R : next'[k] = next[k]
      /\ \A k \in Clocks : prev'[k] = IF k = sAll THEN c ELSE prev[k]
      /\ \A k \in Clocks \ {c} : run'[k] = run[k] /\ life'[k] = life[k]
      /\ run'[c] /\ life'[c] = "live"
  BY <1>1, <1>4 DEF IndInv, TypeOK, AllClocks
<1>6. Listed' = R \cup {c}
  <2>1. Follows(R \cup {c})'
    BY <1>1, <1>3, <1>4, <1>5 DEF Follows
  <2>2. Listed' \subseteq R \cup {c}
    BY <2>1 DEF Listed
  <2>3. ASSUME NEW S \in SUBSET Clocks, Follows(S)'
        PROVE  R \cup {c} \subseteq S
    <3>1. c \in S /\ \A k \in S : next'[k] \in S \cup {Nil}
      BY <1>1, <1>4, <2>3 DEF Follows
    <3>2. Follows(S \cap R)
      BY <1>3, <1>5, <3>1 DEF Follows
    <3> QED
      BY <1>3, <3>1, <3>2
  <2> QED
    BY <2>2, <2>3 DEF Listed
<1>7. Listed' = {k \in Clocks : run'[k]}
  BY <1>2, <1>5, <1>6
<1>8. prev'[sAll'] = Nil
  BY <1>1, <1>2, <1>3, <1>4, <1>5
<1>9. \A k \in Listed' : next'[k] # Nil => prev'[next'[k]] = k
  <2> SUFFICES ASSUME NEW k \in R \cup {c}, next'[k] # Nil
               PROVE  prev'[next'[k]] = k
    BY <1>6
  <2>1. CASE k = c
    BY <1>3, <1>4, <1>5, <2>1
  <2>2. CASE k # c
    <3>1. next'[k] = next[k] /\ next[k] \in R /\ prev[next[k]] = k /\ k \in R
      BY <1>2, <1>3, <1>5, <2>2
    <3>2. next[k] # sAll
      BY <1>2, <1>4, <3>1
    <3> QED
      BY <1>4, <1>5, <3>1, <3>2
  <2> QED
    BY <2>1, <2>2
<1>10. \A k \in Clocks : life'[k] = "none" => prev'[k] = Nil
  <2>1. sAll # Nil => life[sAll] # "none"
    BY <1>2, <1>3 DEF IndInv, LivesAreOrdered
  <2> QED
    BY <1>2, <1>4, <1>5, <2>1
<1> QED
  BY <1>7, <1>8, <1>9, <1>10

(* Stop takes a clock out of the list, wherever it is.                     *)
LEMMA ListUnlink ==
  ASSUME IndInv, NEW c \in Clocks, run[c], mainpc \notin {"free", "down"}, Unlink(c)
  PROVE  /\ Listed' = Listed \ {c}
         /\ sAll' # Nil => prev'[sAll'] = Nil
         /\ \A k \in Listed \ {c} : next'[k] # Nil => prev'[next'[k]] = k
         /\ \A k \in Clocks : life[k] = "none" => prev'[k] = Nil
<1>0. PICK R \in SUBSET Clocks : R = Listed
  BY DEF Listed
<1> PICK p \in Clocks \cup {Nil} : p = prev[c]
  BY DEF IndInv, TypeOK
<1> PICK n \in Clocks \cup {Nil} : n = next[c]
  BY DEF IndInv, TypeOK
<1>1. /\ c \in R
      /\ R = {k \in Clocks : run[k]}
      /\ sAll # Nil => prev[sAll] = Nil
      /\ \A k \in R : next[k] # Nil => prev[next[k]] = k
  BY <1>0 DEF IndInv, ListIsRunning
<1>2. /\ sAll \in R \cup {Nil} /\ \A k \in R : next[k] \in R \cup {Nil}
      /\ \A S \in SUBSET Clocks : Follows(S) => R \subseteq S
  BY <1>0, ListedLeast DEF IndInv, Follows
<1>3. Nil \notin Clocks
  BY ClocksAssumption
<1>4. /\ p = Nil <=> sAll = c
      /\ p # Nil => p \in R \ {c} /\ next[p] = c
  BY <1>0, <1>1, PrevFinds DEF IndInv
<1>5. n # c /\ (n # Nil => prev[n] = c /\ n \in R)
  BY <1>1, <1>2, <1>3, <1>4
<1>6. /\ sAll' = IF p = Nil THEN n ELSE sAll
      /\ \A k \in Clocks : next'[k] = IF k = p THEN n ELSE next[k]
      /\ \A k \in Clocks : prev'[k] = IF k = n THEN p ELSE prev[k]
  BY DEF Unlink
<1>7. Listed' = R \ {c}
  <2>1. Follows(R \ {c})'
    <3>1. sAll' \in (R \ {c}) \cup {Nil}
      BY <1>2, <1>4, <1>5, <1>6
    <3>2. ASSUME NEW k \in R \ {c}
          PROVE  next'[k] \in (R \ {c}) \cup {Nil}
      BY <1>1, <1>2, <1>3, <1>5, <1>6
    <3> QED
      BY <3>1, <3>2 DEF Follows
  <2>2. Listed' \subseteq R \ {c}
    BY <2>1 DEF Listed
  <2>3. ASSUME NEW S \in SUBSET Clocks, Follows(S)'
        PROVE  R \ {c} \subseteq S
    <3>1. sAll' \in S \cup {Nil} /\ \A k \in S : next'[k] \in S \cup {Nil}
      BY <2>3 DEF Follows
    <3>2. CASE p = Nil \/ p \in S
      <4>1. n \in S \cup {Nil}
        BY <1>6, <3>1, <3>2
      <4>2. ASSUME NEW k \in S \cup {c}
            PROVE  next[k] \in S \cup {c, Nil}
        <5>1. CASE k = c
          BY <4>1, <5>1
        <5>2. CASE k # c /\ k = p
          BY <1>3, <1>4, <5>2
        <5>3. CASE k # c /\ k # p
          BY <1>6, <3>1, <5>3
        <5> QED
          BY <5>1, <5>2, <5>3
      <4>3. sAll \in S \cup {c, Nil}
        BY <1>4, <1>6, <3>1
      <4>4. Follows(S \cup {c})
        BY <4>2, <4>3 DEF Follows
      <4> QED
        BY <1>2, <4>4
    <3>3. CASE p # Nil /\ p \notin S
      <4>1. Follows(S)
        BY <1>6, <3>1, <3>3 DEF Follows
      <4> QED
        BY <1>2, <4>1
    <3> QED
      BY <3>2, <3>3
  <2> QED
    BY <2>2, <2>3 DEF Listed
<1>8. sAll' # Nil => prev'[sAll'] = Nil
  <2>1. CASE p = Nil
    BY <1>6, <2>1
  <2>2. CASE p # Nil
    BY <1>1, <1>2, <1>3, <1>5, <1>6, <2>2
  <2> QED
    BY <2>1, <2>2
<1>9. ASSUME NEW k \in R \ {c}, next'[k] # Nil
      PROVE  prev'[next'[k]] = k
  <2>1. CASE k = p
    BY <1>3, <1>6, <1>9, <2>1
  <2>2. CASE k # p
    <3>1. next'[k] = next[k] /\ next[k] \in R /\ prev[next[k]] = k
      BY <1>1, <1>2, <1>6, <1>9, <2>2
    <3>2. next[k] # n
      BY <1>5, <1>9, <3>1
    <3> QED
      BY <1>6, <3>1, <3>2
  <2> QED
    BY <2>1, <2>2
<1>10. \A k \in Clocks : life[k] = "none" => prev'[k] = Nil
  <2>1. n # Nil => life[n] # "none"
    BY <1>1, <1>5 DEF IndInv, LivesAreOrdered
  <2> QED
    BY <1>3, <1>6, <2>1 DEF IndInv, FreshUnlinked
<1> QED
  BY <1>0, <1>7, <1>8, <1>9, <1>10

(* The list stays what it is when nothing it is about changes.             *)
LEMMA ListUnchanged ==
  ASSUME IndInv, UNCHANGED list, \A c \in Clocks : run'[c] = run[c],
         \A c \in Clocks : life'[c] = "none" => life[c] = "none",
         mainpc \in {"free", "down"} => mainpc' \in {"free", "down"}
  PROVE  FreshUnlinked' /\ ListIsRunning'
<1>1. Listed' = Listed
  BY DEF Listed, Follows
<1> QED
  BY <1>1 DEF IndInv, FreshUnlinked, ListIsRunning

\* The list is exact after every step.
LEMMA ListStep ==
  ASSUME IndInv, [Next]_vars
  PROVE  FreshUnlinked' /\ ListIsRunning'
<1>1. CASE UNCHANGED vars
  BY <1>1, ListUnchanged DEF vars
<1>2. ASSUME NEW c \in AllClocks, ClockThread(c) \/ SpuriousWakeUp(c)
      PROVE  FreshUnlinked' /\ ListIsRunning'
  <2>1. UNCHANGED <<list, run, life, mainpc>>
    BY <1>2 DEF ClockThread, WaitForTask, WaitForTime, FindReady, Perform, AwakeReturns,
                WakeUp, SpuriousWakeUp, Leave, Sleep
  <2> QED
    BY <2>1, ListUnchanged
<1>3. CASE Primitive
  <2>1. ASSUME NEW c \in AllClocks,
               prClock_Sched(c) \/ prClock_SchedAbs(c) \/ prClock_Clear(c)
        PROVE  UNCHANGED <<list, run, life, mainpc>>
    BY <2>1 DEF prClock_Sched, prClock_SchedAbs, prClock_Clear, prSched, Call
  <2>2. ASSUME NEW c \in Clocks,
               \/ prTempoClock_Free(c) \/ prClock_SetBeats(c)
               \/ prClock_SetTempoAtBeat(c) \/ prClock_SetTempoAtTime(c)
        PROVE  UNCHANGED <<list, run, life, mainpc>>
    BY <2>2 DEF prTempoClock_Free, prClock_SetBeats, prClock_SetTempoAtBeat,
                prClock_SetTempoAtTime, SetAll, Call
  <2>3. CASE PrimitiveFault
    <3>1. UNCHANGED <<list, run, life, mainpc>>
      BY <2>3 DEF PrimitiveFault
    <3> QED
      BY <3>1, ListUnchanged
  <2> QED
    BY <1>3, <2>1, <2>2, <2>3, ListNew, ListUnchanged DEF Primitive
<1>4. ASSUME NEW a \in Clocks \cup {Main}, StopLock(a)
      PROVE  FreshUnlinked' /\ ListIsRunning'
  <2>1. PICK c \in Clocks : c = Target(a)
    BY <1>4, TargetType DEF StopLock, IndInv
  <2>2. CASE ~run[c]
    BY <1>4, <2>1, <2>2, ListUnchanged DEF StopLock
  <2>3. CASE run[c] /\ mainpc \in {"free", "down"}
    BY <1>4, <2>3 DEF StopLock, FreshUnlinked, ListIsRunning
  <2>4. CASE run[c] /\ mainpc \notin {"free", "down"}
    <3>1. Unlink(c) /\ run' = [run EXCEPT ![c] = FALSE] /\ UNCHANGED <<life, mainpc>>
      BY <1>4, <2>1, <2>4 DEF StopLock
    <3>2. \A k \in Clocks : run'[k] <=> run[k] /\ k # c
      BY <3>1 DEF IndInv, TypeOK, AllClocks
    <3>3. Listed = {k \in Clocks : run[k]}
      BY <2>4 DEF IndInv, ListIsRunning
    <3> QED
      BY <2>4, <3>1, <3>2, <3>3, ListUnlink DEF FreshUnlinked, ListIsRunning
  <2> QED
    BY <2>2, <2>3, <2>4
<1>5. ASSUME NEW a \in Clocks \cup {Main}, StopJoin(a) \/ StopDelete(a) \/ StopFault(a)
      PROVE  FreshUnlinked' /\ ListIsRunning'
  <2>1. UNCHANGED <<list, run>>
    BY <1>5 DEF StopJoin, StopDelete, StopFault
  <2>2. \A c \in Clocks : life'[c] = "none" => life[c] = "none"
    BY <1>5 DEF StopJoin, StopDelete, StopFault, IndInv, TypeOK
  <2>3. mainpc \in {"free", "down"} => mainpc' \in {"free", "down"}
    BY <1>5 DEF StopJoin, StopDelete, StopFault, IndInv, Settled
  <2> QED
    BY <2>1, <2>2, <2>3, ListUnchanged
<1>6. CASE SchedStop
  <2>1. \A c \in Clocks : run'[c] = run[c]
    BY <1>6, ClocksAssumption DEF SchedStop, IndInv, TypeOK, AllClocks
  <2> QED
    BY <1>6, <2>1, ListUnchanged DEF SchedStop, Goto
<1>7. CASE StopAllEnd
  BY <1>7 DEF StopAllEnd, Goto, FreshUnlinked, ListIsRunning
<1>8. CASE \/ Tick \/ RunCode \/ CodeReturns \/ SchedNotify \/ SchedJoin \/ RunShutdown
           \/ ShutdownReturns \/ StopAllBegin \/ StopAllNext \/ StopAllFault \/ FreeAll
  <2>1. UNCHANGED <<list, run, life>>
    BY <1>8 DEF Tick, RunCode, CodeReturns, SchedNotify, SchedJoin, RunShutdown,
                ShutdownReturns, StopAllBegin, StopAllNext, StopAllFault, FreeAll,
                StartCode, EndCode
  <2>2. mainpc \in {"free", "down"} => mainpc' \in {"free", "down"}
    BY <1>8 DEF Tick, RunCode, CodeReturns, SchedNotify, SchedJoin, RunShutdown,
                ShutdownReturns, StopAllBegin, StopAllNext, StopAllFault, FreeAll,
                StartCode, EndCode, Goto
  <2> QED
    BY <2>1, <2>2, ListUnchanged
<1> QED
  BY <1>1, <1>2, <1>3, <1>4, <1>5, <1>6, <1>7, <1>8 DEF Next, Shutdown, Stop, Finished

-----------------------------------------------------------------------------
(* The theorems *)

\* The invariant holds at the start.
LEMMA InitInd == Init => IndInv
<1> SUFFICES ASSUME Init PROVE IndInv
  OBVIOUS
<1> USE ClocksAssumption, BoundsAssumption
<1>1. program.calls \in Nat
  BY DEF Init
<1>2. NoCode \in LogicalTime
  BY DEF NoCode, LogicalTime
<1>3. << >> \in Seq(Int)
  OBVIOUS
<1>4. base \in [AllClocks -> TempoBase] /\ \A c \in AllClocks : base[c].dur # 0
  BY DEF Init, TempoBase
<1>5. TypeOK
  <2>1. run \in [AllClocks -> BOOLEAN]
    BY DEF Init
  <2>2. queue \in [AllClocks -> Seq(Int)]
    BY <1>3 DEF Init
  <2>3. pc \in [AllClocks -> {"none", "start", "empty", "timed", "woken",
                              "perform", "awake", "ended"}]
    BY DEF Init
  <2>4. /\ life \in [Clocks -> {"none", "live", "joined", "deleted"}]
        /\ stage \in [Clocks \cup {Main} -> {"none", "lock", "join", "delete", "done"}]
    BY DEF Init
  <2>5. deadline \in [AllClocks -> Int] /\ calls \in 0..program.calls /\ now \in 0..MaxTime
    BY <1>1 DEF Init
  <2>6. /\ sAll \in Clocks \cup {Nil} /\ ptr \subseteq Clocks
        /\ next \in [Clocks -> Clocks \cup {Nil}] /\ prev \in [Clocks -> Clocks \cup {Nil}]
        /\ walk \in (Clocks \cup {Nil}) \X (Clocks \cup {Nil})
    BY DEF Init
  <2>7. lock = Nil /\ elapsed \in Int /\ thread \in LogicalTime /\ mainpc = "idle"
    BY <1>2 DEF Init
  <2>8. fault \in BOOLEAN
    BY DEF Init
  <2> QED
    BY <2>8, <1>4, <2>1, <2>2, <2>3, <2>4, <2>5, <2>6, <2>7 DEF TypeOK
<1>6. Settled
  BY <1>4 DEF Init, Settled
<1>7. SleepersAreNotNeeded
  BY DEF Init, SleepersAreNotNeeded, Asleep
<1>8. LivesAreOrdered /\ ThreadsEndFirst /\ FreshUnlinked
  <2>1. \A c \in Clocks : run[c] => c = Default
    BY DEF Init, AllClocks
  <2>2. \A c \in Clocks : life[c] \notin {"joined", "deleted"} /\ prev[c] = Nil
    BY DEF Init
  <2>3. life[Default] = "live" /\ mainpc = "idle"
    BY DEF Init
  <2> QED
    BY <2>1, <2>2, <2>3 DEF LivesAreOrdered, ThreadsEndFirst, FreshUnlinked
<1>9. ListIsRunning
  <2>1. Follows({Default})
    BY DEF Init, Follows
  <2>2. Listed = {Default}
    BY <2>1 DEF Init, Listed, Follows
  <2>3. {c \in Clocks : run[c]} = {Default}
    BY DEF Init, AllClocks
  <2> QED
    BY <2>2, <2>3 DEF Init, ListIsRunning
<1> QED
  BY <1>5, <1>6, <1>7, <1>8, <1>9 DEF IndInv

(* The inductive invariant: the types, the order in which clocks are made, *)
(* stopped, joined and deleted, the list and the sleepers.                 *)
THEOREM Inductive == Spec => []IndInv
<1>1. IndInv /\ [Next]_vars => IndInv'
  <2> SUFFICES ASSUME IndInv, [Next]_vars PROVE IndInv'
    OBVIOUS
  <2>1. TypeOK' /\ Settled'
    BY TypeStep DEF IndInv
  <2>2. SleepersAreNotNeeded'
    BY SleepersStep DEF IndInv
  <2> QED
    BY <2>1, <2>2, LivesStep, ListStep DEF IndInv
<1> QED
  BY <1>1, InitInd, PTL DEF Spec

(* No wake-up is lost: whatever is scheduled, cleared, retuned or stopped, *)
(* and in whatever order, no clock thread sleeps past its first task or    *)
(* through the end of its clock.                                           *)
THEOREM NoLostWakeUp == Spec => []SleepersAreNotNeeded
<1>1. IndInv => SleepersAreNotNeeded
  BY DEF IndInv
<1> QED
  BY <1>1, Inductive, PTL

(* Until shutdown throws it away the list sAll, mNext, mPrev holds exactly *)
(* the running clocks, and no clock is deleted before its thread ended.    *)
THEOREM Accounted == Spec => []ClocksAccounted
<1>1. IndInv => ClocksAccounted
  BY DEF IndInv, ClocksAccounted
<1> QED
  BY <1>1, Inductive, PTL

=============================================================================
