---------------------------- MODULE LangClocks ----------------------------
(* The clocks of sclang: SystemClock and the TempoClocks each have a       *)
(* thread that sleeps on a condition variable until the first task of its  *)
(* queue is due, then performs every task that is due, all under the one   *)
(* language mutex gLangMutex.  Tasks, and the interpreter's main thread,   *)
(* run the clock primitives.  A TempoClock is stopped by a detached thread *)
(* of its own, and all clocks by the shutdown of the class library.        *)
(*                                                                         *)
(* Queues are what the heap of PyrSched.cpp promises: only the beats of    *)
(* the pending tasks are kept, in the order they come out.                 *)
(* Time is in ticks, a beat of a clock lasts a whole number of ticks, and  *)
(* elapsed beats are rounded down.                                         *)
EXTENDS Integers, Sequences, FiniteSets

CONSTANTS
  Clocks,      \* the TempoClocks there can be
  Default,     \* the one made at startup, TempoClock.default
  Sys,         \* SystemClock
  Main,        \* the interpreter's main thread
  Nil,
  BeatDurs,    \* lengths of a beat in ticks, negative for a negative tempo
  Beats,       \* the beats a caller may name
  Deltas,      \* the deltas a caller may name or a task may return
  QueueSize,   \* tasks a queue can hold
  MaxTime,     \* bound on the time
  Programs     \* the programs: the families of primitives each calls, and
               \* a bound on the calls

ASSUME ClocksAssumption ==
  /\ Default \in Clocks /\ Sys \notin Clocks
  /\ Main \notin Clocks \cup {Sys} /\ Nil \notin Clocks \cup {Sys, Main}
Families == {"sched", "clear", "new", "newInTask", "beats", "tempo", "stop", "shutdown"}
ASSUME BoundsAssumption ==
  /\ BeatDurs \subseteq Int \ {0} /\ Beats \subseteq Int /\ Deltas \subseteq Nat
  /\ QueueSize \in Nat /\ MaxTime \in Nat
  /\ Programs \subseteq [ops : SUBSET Families, calls : Nat]

AllClocks == Clocks \cup {Sys}

VARIABLES
  lock,      \* who holds gLangMutex
  now,       \* the time
  queue,     \* the pending beats of each clock
  base,      \* mBeatDur, mBaseBeats and mBaseSeconds of each clock
  run,       \* mRun of each TempoClock, gRunSched for SystemClock
  ptr,       \* the TempoClocks whose object still points to them
  pc,        \* where each clock's thread is
  deadline,  \* until when a thread in "timed" sleeps
  elapsed,   \* the beats read before performing what is ready
  thread,    \* logical time of the code that runs under the lock
  sAll, next, prev,       \* the list of running TempoClocks
  life,      \* "none", "live", "joined" or "deleted": the TempoClock object
  stage,     \* how far each caller of TempoClock::Stop is
  mainpc,    \* where the main thread is
  walk,      \* the clock TempoClock_stopAll is at, and the next one it read
  calls,     \* primitives called so far
  program,   \* the program that runs: it never changes
  fault      \* a second join or delete, or the use of a deleted clock

time == <<now, deadline, elapsed>>
tempo == <<queue, base>>
list == <<sAll, next, prev>>
object == <<run, ptr, life>>
shutdown == <<mainpc, walk>>
calling == <<calls, program>>
vars == <<lock, time, tempo, object, pc, thread, list, stage, shutdown,
          calling, fault>>

(* The program has not yet run into undefined behaviour *)
Sane == ~fault /\ UNCHANGED fault

NoCode == [clock |-> Nil, beats |-> 0, seconds |-> 0]

Init ==
  /\ lock = Nil /\ now = 0
  /\ queue = [c \in AllClocks |-> << >>]
  /\ base = [c \in AllClocks |-> [dur |-> 1, beats |-> 0, seconds |-> 0]]
  /\ run = [c \in AllClocks |-> c \in {Sys, Default}]
  /\ ptr = {Default}
  /\ pc = [c \in AllClocks |-> IF c \in {Sys, Default} THEN "start" ELSE "none"]
  /\ deadline = [c \in AllClocks |-> 0] /\ elapsed = 0
  /\ thread = NoCode
  /\ sAll = Default
  /\ next = [c \in Clocks |-> Nil] /\ prev = [c \in Clocks |-> Nil]
  /\ life = [c \in Clocks |-> IF c = Default THEN "live" ELSE "none"]
  /\ stage = [a \in Clocks \cup {Main} |-> "none"]
  /\ mainpc = "idle" /\ walk = <<Nil, Nil>>
  /\ calls = 0 /\ program \in Programs /\ fault = FALSE

(* Times and beats *)
Quotient(n, d) == IF d > 0 THEN n \div d ELSE -(n \div (-d))

BeatsToSecs(c, b) == (b - base[c].beats) * base[c].dur + base[c].seconds

SecsToBeats(c, s) ==
  Quotient(s - base[c].seconds, base[c].dur) + base[c].beats

ElapsedBeats(c) == SecsToBeats(c, now)

Tick == now < MaxTime /\ now' = now + 1 /\ UNCHANGED
  <<lock, deadline, elapsed, tempo, object, pc, thread, list, stage, shutdown,
    calling>> /\ Sane

(* A queue is ordered by beat, and by arrival within a beat; a full one    *)
(* refuses the task.                                                       *)
Insert(q, b) ==
  LET early(i) == i <= Len(q) /\ q[i] <= b
  IN [i \in 1..(Len(q) + 1) |->
        IF early(i) THEN q[i] ELSE IF i = 1 \/ early(i - 1) THEN b ELSE q[i - 1]]

Asleep(c) == pc[c] \in {"empty", "timed"}

(* notify_one and notify_all alike: a condition has one waiter at most *)
Notified(c) ==
  IF Asleep(c) THEN [pc EXCEPT ![c] = "woken"] ELSE pc

(* Add (TempoClock) and schedAdd (SystemClock) *)
Full(c) == Len(queue[c]) >= QueueSize

Added(c, b) ==
  IF Full(c) THEN queue ELSE [queue EXCEPT ![c] = Insert(@, b)]

\* Mutant: only the first task of an empty queue wakes the thread
NotifiedIfWasEmpty(c, b) == IF queue[c] = << >> THEN Notified(c) ELSE pc

(* An Add wakes the thread when the head is another one than before, or    *)
(* the queue was empty.                                                    *)
NotifiedByAdd(c, b) ==
  IF ~Full(c) /\ (queue[c] = << >> \/ Head(Insert(queue[c], b)) # Head(queue[c]))
  THEN Notified(c) ELSE pc

-----------------------------------------------------------------------------
(* The clock threads *)

(* The thread has the lock and is at the top of its loop: it has just      *)
(* started or woken up, or performed all that was ready.                   *)
Ready(c) == queue[c] # << >> /\ elapsed >= Head(queue[c])

AtLoop(c) ==
  \/ pc[c] \in {"start", "woken"} /\ lock = Nil
  \/ pc[c] = "perform" /\ lock = c /\ ~Ready(c)

Sleep(c, how, until) ==
  /\ pc' = [pc EXCEPT ![c] = how]
  /\ deadline' = [deadline EXCEPT ![c] = until]
  /\ elapsed' = 0 /\ lock' = Nil
  /\ UNCHANGED <<now, tempo, object, thread, list, stage, shutdown, calling>> /\ Sane

(* wait until there is something in scheduler *)
WaitForTask(c) ==
  /\ AtLoop(c) /\ run[c] /\ queue[c] = << >>
  /\ Sleep(c, "empty", 0)

(* wait until an event is ready *)
WaitForTime(c) ==
  /\ AtLoop(c) /\ run[c] /\ queue[c] # << >>
  /\ ElapsedBeats(c) < Head(queue[c])
  /\ Sleep(c, "timed", BeatsToSecs(c, Head(queue[c])))

(* An event is ready: the beats read now decide which events are performed *)
FindReady(c) ==
  /\ AtLoop(c) /\ run[c] /\ queue[c] # << >>
  /\ ElapsedBeats(c) >= Head(queue[c])
  /\ elapsed' = ElapsedBeats(c)
  /\ pc' = [pc EXCEPT ![c] = "perform"]
  /\ deadline' = [deadline EXCEPT ![c] = 0]
  /\ lock' = c
  /\ UNCHANGED <<now, tempo, object, thread, list, stage, shutdown, calling>> /\ Sane

(* getheap, and the task's awake message begins with its scheduled time as *)
(* logical time                                                            *)
Perform(c) ==
  /\ pc[c] = "perform" /\ lock = c /\ Ready(c)
  /\ LET b == Head(queue[c]) IN
     /\ queue' = [queue EXCEPT ![c] = Tail(@)]
     /\ thread' = [clock |-> c, beats |-> b, seconds |-> BeatsToSecs(c, b)]
  /\ pc' = [pc EXCEPT ![c] = "awake"]
  /\ UNCHANGED <<lock, time, base, object, list, stage, shutdown, calling>> /\ Sane

(* awake returns a number, which reschedules the task (this thread is     *)
(* awake: nobody needs to be notified), or anything else.                  *)
AwakeReturns(c) ==
  /\ pc[c] = "awake"
  /\ thread' = NoCode
  /\ pc' = [pc EXCEPT ![c] = "perform"]
  /\ \/ \E d \in Deltas :
          /\ thread.beats + d <= MaxTime
          /\ queue' = Added(c, thread.beats + d)
     \/ UNCHANGED queue
  /\ UNCHANGED <<lock, time, base, object, list, stage, shutdown, calling>> /\ Sane

(* The sleep ends at its deadline, or for no reason at all *)
TimedOut(c) == pc[c] = "timed" /\ now >= deadline[c]

WakeUp(c) ==
  /\ TimedOut(c)
  /\ pc' = [pc EXCEPT ![c] = "woken"]
  /\ UNCHANGED <<lock, time, tempo, object, thread, list, stage, shutdown, calling>> /\ Sane

SpuriousWakeUp(c) ==
  /\ Asleep(c) /\ ~TimedOut(c)
  /\ pc' = [pc EXCEPT ![c] = "woken"]
  /\ UNCHANGED <<lock, time, tempo, object, thread, list, stage, shutdown, calling>> /\ Sane

(* The thread ends: it was stopped while it slept, or before it first had  *)
(* the lock.                                                               *)
Leave(c) ==
  /\ pc[c] \in {"start", "woken"} /\ lock = Nil /\ ~run[c]
  /\ pc' = [pc EXCEPT ![c] = "ended"]
  /\ deadline' = [deadline EXCEPT ![c] = 0]
  /\ UNCHANGED <<lock, now, elapsed, tempo, object, thread, list, stage,
                 shutdown, calling>> /\ Sane

ClockThread(c) ==
  \/ WaitForTask(c) \/ WaitForTime(c) \/ FindReady(c)
  \/ Perform(c) \/ AwakeReturns(c) \/ WakeUp(c) \/ Leave(c)

-----------------------------------------------------------------------------
(* The primitives, called by whatever code runs under the lock *)

Call(family) ==
  /\ thread # NoCode /\ family \in program.ops
  /\ calls < program.calls /\ calls' = calls + 1
  /\ UNCHANGED <<lock, time, thread, shutdown, program>> /\ Sane

(* A TempoClock primitive reaches the clock through its object, which may  *)
(* still point to one that TempoClock_stopAll has deleted; SystemClock is  *)
(* always there.                                                           *)
Dangling == {c \in ptr : life[c] = "deleted"}

Reaches(c) == c \in (ptr \ Dangling) \cup {Sys}

(* prClock_New and the constructor: at the head of the list, with a thread *)
prClock_New(c) ==
  /\ Call("new") /\ life[c] = "none"
  /\ lock = Main \/ "newInTask" \in program.ops
  /\ \E d \in {x \in BeatDurs : x > 0} :
       base' = [base EXCEPT ![c] = [dur |-> d, beats |-> 0,
                                     seconds |-> thread.seconds]]
  /\ queue' = [queue EXCEPT ![c] = << >>]
  /\ run' = [run EXCEPT ![c] = TRUE]
  /\ ptr' = ptr \cup {c}
  /\ life' = [life EXCEPT ![c] = "live"]
  /\ pc' = [pc EXCEPT ![c] = "start"]
  /\ sAll' = c
  /\ next' = [next EXCEPT ![c] = sAll]
  /\ prev' = [k \in Clocks |-> IF k = sAll THEN c ELSE prev[k]]
  /\ UNCHANGED stage

(* The beat a delta is counted from: the caller's own, when the caller     *)
(* runs on this clock                                                      *)
Logical(c) ==
  IF thread.clock = c THEN thread.beats ELSE SecsToBeats(c, thread.seconds)

prSched(c, b) ==
  /\ Call("sched") /\ Reaches(c)
  /\ queue' = Added(c, b)
  /\ pc' = NotifiedByAdd(c, b)
  /\ UNCHANGED <<base, object, list, stage>>

prClock_Sched(c) == \E d \in Deltas : prSched(c, Logical(c) + d)

prClock_SchedAbs(c) == \E b \in Beats : prSched(c, b)

prClock_Clear(c) ==
  /\ Call("clear") /\ Reaches(c)
  /\ IF run[c]
     THEN /\ queue' = [queue EXCEPT ![c] = << >>]
          /\ pc' = Notified(c)
     ELSE UNCHANGED <<queue, pc>>
  /\ UNCHANGED <<base, object, list, stage>>

(* What SetAll, SetTempoAtBeat and SetTempoAtTime have in common *)
SetAll(c, d, b, s) ==
  /\ base' = [base EXCEPT ![c] = [dur |-> d, beats |-> b, seconds |-> s]]
  /\ pc' = Notified(c)
  /\ UNCHANGED <<queue, object, list, stage>>

prClock_SetBeats(c) ==
  /\ Call("beats") /\ Reaches(c)
  /\ \E b \in Beats : SetAll(c, base[c].dur, b, thread.seconds)

(* TempoClock:tempo_ names the logical beat; refused when the tempo is or  *)
(* becomes negative                                                        *)
prClock_SetTempoAtBeat(c) ==
  /\ Call("tempo") /\ Reaches(c) /\ base[c].dur > 0
  /\ \E d \in {x \in BeatDurs : x > 0} :
       SetAll(c, d, Logical(c), BeatsToSecs(c, Logical(c)))

(* TempoClock:etempo_ names the elapsed time *)
prClock_SetTempoAtTime(c) ==
  /\ Call("tempo") /\ Reaches(c)
  /\ \E d \in BeatDurs : SetAll(c, d, ElapsedBeats(c), now)

(* StopReq: a detached thread will stop and delete the clock *)
prTempoClock_Free(c) ==
  /\ Call("stop") /\ c \in ptr
  /\ ptr' = ptr \ {c}
  /\ stage' = [stage EXCEPT ![c] = "lock"]
  /\ UNCHANGED <<tempo, run, life, pc, list>>

(* A primitive uses a deleted clock; this call, which ends the run, is not *)
(* counted.                                                                *)
PrimitiveFault ==
  /\ thread # NoCode /\ Dangling # {}
  /\ program.ops \cap {"sched", "clear", "beats", "tempo"} # {}
  /\ ~fault /\ fault' = TRUE
  /\ UNCHANGED <<lock, time, tempo, object, pc, thread, list, stage, shutdown, calling>>

Primitive ==
  \/ PrimitiveFault
  \/ \E c \in AllClocks :
       prClock_Sched(c) \/ prClock_SchedAbs(c) \/ prClock_Clear(c)
  \/ \E c \in Clocks :
       \/ prClock_New(c) \/ prTempoClock_Free(c) \/ prClock_SetBeats(c)
       \/ prClock_SetTempoAtBeat(c) \/ prClock_SetTempoAtTime(c)

-----------------------------------------------------------------------------
(* TempoClock::Stop, called by the clock's detached thread and by          *)
(* TempoClock_stopAll on the main thread                                   *)

Target(a) == IF a = Main THEN walk[1] ELSE a

Unlink(c) ==
  /\ sAll' = IF prev[c] = Nil THEN next[c] ELSE sAll
  /\ next' = [k \in Clocks |-> IF k = prev[c] THEN next[c] ELSE next[k]]
  /\ prev' = [k \in Clocks |-> IF k = next[c] THEN prev[c] ELSE prev[k]]

\* Mutant: the thread is not notified
StopLockQuietly(a) ==
  LET c == Target(a) IN
  /\ stage[a] = "lock" /\ lock = Nil /\ life[c] # "deleted"
  /\ stage' = [stage EXCEPT ![a] = "join"]
  /\ IF run[c]
     THEN run' = [run EXCEPT ![c] = FALSE] /\ Unlink(c)
     ELSE UNCHANGED <<run, list>>
  /\ UNCHANGED <<lock, time, tempo, pc, ptr, life, thread, shutdown, calling>> /\ Sane

(* Under the lock, and only the first time: clear mRun, unlink and notify *)
StopLock(a) ==
  LET c == Target(a) IN
  /\ stage[a] = "lock" /\ lock = Nil /\ life[c] # "deleted"
  /\ stage' = [stage EXCEPT ![a] = "join"]
  /\ IF run[c]
     THEN run' = [run EXCEPT ![c] = FALSE] /\ Unlink(c) /\ pc' = Notified(c)
     ELSE UNCHANGED <<run, list, pc>>
  /\ UNCHANGED <<lock, time, tempo, ptr, life, thread, shutdown, calling>> /\ Sane

\* Mutant: the clock's thread is not waited for
StopNoJoin(a) ==
  LET c == Target(a) IN
  /\ stage[a] = "join" /\ life[c] = "live"
  /\ stage' = [stage EXCEPT ![a] = "delete"]
  /\ life' = [life EXCEPT ![c] = "joined"]
  /\ UNCHANGED <<lock, time, tempo, run, ptr, pc, thread, list, shutdown, calling>> /\ Sane

(* mThread.join() *)
StopJoin(a) ==
  LET c == Target(a) IN
  /\ stage[a] = "join" /\ life[c] = "live" /\ pc[c] = "ended"
  /\ stage' = [stage EXCEPT ![a] = "delete"]
  /\ life' = [life EXCEPT ![c] = "joined"]
  /\ UNCHANGED <<lock, time, tempo, run, ptr, pc, thread, list, shutdown, calling>> /\ Sane

(* delete, and TempoClock_stopAll goes on to the next clock it read *)
StopDelete(a) ==
  LET c == Target(a) IN
  /\ stage[a] = "delete" /\ life[c] = "joined"
  /\ stage' = [stage EXCEPT ![a] = "done"]
  /\ life' = [life EXCEPT ![c] = "deleted"]
  /\ IF a = Main THEN walk' = <<walk[2], Nil>> /\ mainpc' = "walk"
                 ELSE UNCHANGED shutdown
  /\ UNCHANGED <<lock, time, tempo, run, ptr, pc, thread, list, calling>> /\ Sane

(* The clock was deleted, or its thread joined, by the other caller *)
StopFault(a) ==
  LET c == Target(a) IN
  /\ \/ stage[a] = "lock" /\ lock = Nil /\ life[c] = "deleted"
     \/ stage[a] = "join" /\ life[c] \in {"joined", "deleted"}
  /\ ~fault /\ fault' = TRUE
  /\ UNCHANGED <<lock, time, tempo, object, pc, thread, list, stage, shutdown, calling>>

Stop(a) == StopLock(a) \/ StopJoin(a) \/ StopDelete(a) \/ StopFault(a)

-----------------------------------------------------------------------------
(* The main thread: interpreted code, then the shutdown of the library *)

Goto(here, there) == mainpc = here /\ mainpc' = there

StartCode(here, there) ==
  /\ Goto(here, there) /\ lock = Nil /\ lock' = Main
  /\ thread' = [clock |-> Sys, beats |-> now, seconds |-> now]
  /\ UNCHANGED <<time, tempo, object, pc, list, stage, walk, calling>> /\ Sane

EndCode(here, there) ==
  /\ Goto(here, there) /\ lock' = Nil /\ thread' = NoCode
  /\ UNCHANGED <<time, tempo, object, pc, list, stage, walk, calling>> /\ Sane

RunCode == StartCode("idle", "code")

CodeReturns == EndCode("code", "idle")

(* schedStop: gRunSched is cleared under the lock, the thread notified     *)
(* after it is released                                                    *)
SchedStop ==
  /\ "shutdown" \in program.ops /\ Goto("idle", "notify") /\ lock = Nil
  /\ run' = [run EXCEPT ![Sys] = FALSE]
  /\ UNCHANGED <<lock, time, tempo, ptr, life, pc, thread, list, stage, walk, calling>> /\ Sane

SchedNotify ==
  /\ Goto("notify", "join") /\ pc' = Notified(Sys)
  /\ UNCHANGED <<lock, time, tempo, object, thread, list, stage, walk, calling>> /\ Sane

SchedJoin ==
  /\ Goto("join", "shutdown") /\ pc[Sys] = "ended"
  /\ UNCHANGED <<lock, time, tempo, object, pc, thread, list, stage, walk, calling>> /\ Sane

(* runShutdown: Process:shutdown runs the ShutDown hooks *)
RunShutdown == StartCode("shutdown", "hooks")

ShutdownReturns == EndCode("hooks", "stopAll")

(* TempoClock_stopAll walks the list without the lock *)
StopAllBegin ==
  /\ Goto("stopAll", "walk") /\ walk' = <<sAll, Nil>>
  /\ UNCHANGED <<lock, time, tempo, object, pc, thread, list, stage, calling>> /\ Sane

StopAllNext ==
  /\ walk[1] # Nil /\ life[walk[1]] # "deleted"
  /\ Goto("walk", "stop")
  /\ walk' = <<walk[1], next[walk[1]]>>
  /\ stage' = [stage EXCEPT ![Main] = "lock"]
  /\ UNCHANGED <<lock, time, tempo, object, pc, thread, list, calling>> /\ Sane

StopAllFault ==
  /\ mainpc = "walk" /\ walk[1] # Nil /\ life[walk[1]] = "deleted"
  /\ ~fault /\ fault' = TRUE
  /\ UNCHANGED <<lock, time, tempo, object, pc, thread, list, stage, shutdown, calling>>

StopAllEnd ==
  /\ walk[1] = Nil /\ Goto("walk", "free")
  /\ sAll' = Nil
  /\ UNCHANGED <<lock, time, tempo, object, pc, thread, next, prev, stage, walk, calling>> /\ Sane

(* The objects of the language are freed, under the lock *)
FreeAll ==
  /\ Goto("free", "down") /\ lock = Nil
  /\ UNCHANGED <<lock, time, tempo, object, pc, thread, list, stage, walk, calling>> /\ Sane

Shutdown ==
  \/ SchedNotify \/ SchedJoin \/ RunShutdown \/ ShutdownReturns
  \/ StopAllBegin \/ StopAllNext \/ StopAllFault \/ StopAllEnd \/ FreeAll
  \/ Stop(Main)

(* The library is down; what the process does next is not modelled *)
Finished == (fault \/ mainpc = "down") /\ UNCHANGED vars

Next ==
  \/ Tick \/ Primitive \/ RunCode \/ CodeReturns \/ SchedStop \/ Shutdown
  \/ \E c \in AllClocks : ClockThread(c) \/ SpuriousWakeUp(c)
  \/ \E c \in Clocks : Stop(c)
  \/ Finished

(* Time passes, code ends, and a thread that can get the mutex again and   *)
(* again gets it.                                                          *)
Fairness ==
  /\ WF_vars(Tick) /\ WF_vars(CodeReturns)
  /\ SF_vars(Shutdown)
  /\ \A c \in AllClocks : SF_vars(ClockThread(c))
  /\ \A c \in Clocks : SF_vars(Stop(c))

Spec == Init /\ [][Next]_vars

FairSpec == Spec /\ Fairness

-----------------------------------------------------------------------------
(* Properties *)

TempoBase == [dur : Int, beats : Int, seconds : Int]
LogicalTime == [clock : AllClocks \cup {Nil}, beats : Int, seconds : Int]

TypeOK ==
  /\ lock \in AllClocks \cup {Main, Nil} /\ now \in 0..MaxTime
  /\ queue \in [AllClocks -> Seq(Int)]
  /\ base \in [AllClocks -> TempoBase]
  /\ run \in [AllClocks -> BOOLEAN] /\ ptr \subseteq Clocks
  /\ pc \in [AllClocks -> {"none", "start", "empty", "timed", "woken",
                           "perform", "awake", "ended"}]
  /\ deadline \in [AllClocks -> Int] /\ elapsed \in Int
  /\ thread \in LogicalTime
  /\ sAll \in Clocks \cup {Nil}
  /\ next \in [Clocks -> Clocks \cup {Nil}]
  /\ prev \in [Clocks -> Clocks \cup {Nil}]
  /\ life \in [Clocks -> {"none", "live", "joined", "deleted"}]
  /\ stage \in [Clocks \cup {Main} -> {"none", "lock", "join", "delete", "done"}]
  /\ mainpc \in {"idle", "code", "notify", "join", "shutdown", "hooks",
                 "stopAll", "walk", "stop", "free", "down"}
  /\ walk \in (Clocks \cup {Nil}) \X (Clocks \cup {Nil})
  /\ calls \in 0..program.calls /\ fault \in BOOLEAN

(* No wake-up is lost: a clock thread that sleeps was not stopped, sleeps  *)
(* without end only if nothing is pending, and otherwise not past the time *)
(* its first task is due at the present tempo.  Add, Clear, SetAll and     *)
(* Stop notify for this; schedStop's notification comes a step later.      *)
SleepersAreNotNeeded ==
  \A c \in AllClocks : Asleep(c) =>
    /\ run[c] \/ (c = Sys /\ mainpc = "notify")
    /\ queue[c] # << >> =>
         pc[c] = "timed" /\ deadline[c] <= BeatsToSecs(c, Head(queue[c]))

(* What is met walking the list the way TempoClock_stopAll does: the least *)
(* set that has the first clock and, with a clock, the next one            *)
Follows(S) ==
  sAll \in S \cup {Nil} /\ \A k \in S : next[k] \in S \cup {Nil}

Listed == {c \in Clocks : \A S \in SUBSET Clocks : Follows(S) => c \in S}

(* The list linked through mNext holds exactly the running TempoClocks and *)
(* mPrev is its inverse, until shutdown has thrown it away.                *)
ListIsRunning ==
  mainpc \notin {"free", "down"} =>
    /\ Listed = {c \in Clocks : run[c]}
    /\ sAll # Nil => prev[sAll] = Nil
    /\ \A c \in Listed : next[c] # Nil => prev[next[c]] = c

(* A TempoClock is deleted only when its thread, which uses its members,   *)
(* has ended; and the thread of SystemClock has ended when the shutdown    *)
(* hooks run.                                                              *)
ThreadsEndFirst ==
  /\ \A c \in Clocks : life[c] = "deleted" => pc[c] = "ended"
  /\ mainpc \in {"hooks", "stopAll", "walk", "stop", "free", "down"} =>
       pc[Sys] = "ended"

(* The list of clocks is the running ones, and what has been deleted has no *)
(* thread left that uses it.                                               *)
ClocksAccounted == ListIsRunning /\ ThreadsEndFirst

(* A task that is due is awakened, or its clock is stopped or set back.    *)
DueIsServed ==
  \A c \in AllClocks :
    []<>(fault \/ ~run[c] \/ queue[c] = << >> \/ ElapsedBeats(c) < Head(queue[c]))

(* A clock that is told to stop is deleted, unless shutdown overlaps.      *)
StopEnds == \A c \in Clocks : stage[c] = "lock" ~> stage[c] = "done" \/ fault

=============================================================================
