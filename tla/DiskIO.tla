------------------------------- MODULE DiskIO -------------------------------
(***************************************************************************)
(* Streaming from and to disk: the units DiskIn, VDiskIn (at rate 1) and   *)
(* DiskOut of server/plugins/DiskIO_UGens.cpp, the disk thread they feed   *)
(* through a fifo, and the SC_SyncCondition it sleeps on.                  *)
(*                                                                         *)
(* A unit plays or records one half of its buffer while the thread reads   *)
(* or writes the other half.  At the end of a half the unit posts a        *)
(* message about it; nothing tells the unit whether the message has been   *)
(* performed by the time it comes back to that half.  `late' remembers the *)
(* units that came back too early or whose message found the fifo full:    *)
(* the promises are for the others.                                        *)
(*                                                                         *)
(* The unit of time and of length is one block of samples.  The blocks of  *)
(* the file that is played are 1..cue.len, those recorded 1..count.        *)
(***************************************************************************)
EXTENDS Integers, Sequences, FiniteSets, SequencesExt

CONSTANTS Half,       \* blocks in half a buffer (bufFrames2)
          Capacity,   \* of mDiskFifo, 256 in the code
          Cues        \* what is played and recorded, and on which server

(* A cue has the length of the file, which is not 0 (a looped file without *)
(* frames would be read for ever); the unit that plays it and its loop     *)
(* input; the bound on the blocks recorded, 0 when nothing is; whether the *)
(* units run on the several threads of supernova; and whether files are    *)
(* closed and the plug-in is unloaded.                                     *)
Cue == [len : Nat \ {0}, player : {"DiskIn", "VDiskIn"}, loop : BOOLEAN,
        record : Nat, threads : BOOLEAN, ops : SUBSET {"close", "quit"}]

ASSUME SizesAssumption == Half \in Nat \ {0} /\ Capacity \in Nat \ {0}
ASSUME CuesAssumption == \A c \in Cues : c \in Cue

VARIABLES
  cue,      \* the cue, fixed when the unit starts
  inBuf,    \* the buffer that is played
  filePos,  \* blocks of the file read so far
  mask,     \* mask and mask1 of the buffer: where the file ended, as the
  mask1,    \*   thread says it and as the unit uses it; -1: not yet
  inPos,    \* m_framepos of the player
  done,     \* its mDone
  heard,    \* the block it played last, Nothing before the first
  want,     \* the block it should have played then
  next,     \* where the listener is: see Advance
  outBuf,   \* the buffer that is recorded into
  outPos,   \* m_framepos of DiskOut
  count,    \* its m_framewritten
  outFile,  \* the file that is recorded
  freed,    \* DiskOut has been freed
  open,     \* the buffers that have a sound file
  fifo,     \* mDiskFifo
  signals,  \* write - read of mDiskFifoHasData
  loaded,   \* what the units inside ++write have read of `write', relative to read
  ran,      \* units that have run in this cycle
  io,       \* where the disk thread is
  msg,      \* the message it has popped
  quit,     \* ~DiskIOThread: "no", "stored", "signalled", "joined"
  late      \* units the disk did not keep up with

player == <<cue, inPos, done, heard, want, next, mask1>>
recorder == <<outBuf, outPos, count, freed>>
disk == <<inBuf, filePos, mask, outFile>>
queue == <<fifo, signals, loaded, ran, late>>
vars == <<player, recorder, disk, open, queue, io, msg, quit>>

Silence == 0
Nothing == -1
NoMessage == [cmd |-> "none"]
Frames == 2 * Half
Unit == {"in", "out"}
Message == [cmd : {"Read", "ReadLoop", "Write"}, unit : Unit,
            pos : 0..Frames - 1, frames : 1..Half]

Block(i) == IF i <= cue.len THEN i ELSE Silence

-----------------------------------------------------------------------------
(* The player starts on a buffer that holds the first Frames blocks of a   *)
(* file left open (/b_read with leaveOpen, whose last stage resets mask).  *)
Init ==
  /\ cue \in Cues
  /\ inBuf = [i \in 0..Frames - 1 |-> Block(i + 1)]
  /\ filePos = Min({cue.len, Frames})
  /\ mask = -1 /\ mask1 = -1
  /\ inPos = 0 /\ done = FALSE /\ heard = Nothing /\ want = Nothing /\ next = [pass |-> 1, at |-> 1]
  /\ outBuf = [i \in 0..Frames - 1 |-> Silence]
  /\ outPos = 0 /\ count = 0 /\ outFile = <<>> /\ freed = (cue.record = 0)
  /\ open = Unit
  /\ fifo = <<>> /\ signals = 0 /\ loaded = << >> /\ ran = {}
  /\ io = "top" /\ msg = NoMessage /\ quit = "no" /\ late = {}

(* The listener counts the blocks of the file.  After the end comes silence; *)
(* a looped file starts again, the first time after the whole buffer.        *)
Advance ==
  next' = IF next.at < (IF cue.loop /\ next.pass = 1 /\ cue.len < Frames
                        THEN Frames ELSE cue.len)
          THEN [next EXCEPT !.at = @ + 1]
          ELSE IF cue.loop THEN [pass |-> 2, at |-> 1]
                           ELSE [next EXCEPT !.at = cue.len + 1]

Due == Block(next.at)

-----------------------------------------------------------------------------
(* SC_SyncCondition *)

(* Signal: ++write, then notify_one, without the mutex.  Whoever is not    *)
(* asleep yet does not hear it.                                            *)
Woken == IF io = "asleep" THEN "test" ELSE io

(* The cycle ends when every unit that plays has run, to the end; a        *)
(* recorder that has reached its bound is paused.                          *)
RanToo(u) ==
  LET all == {"in"} \cup (IF freed \/ count = cue.record THEN {} ELSE {"out"}) IN
  IF all \subseteq ran \cup {u} /\ DOMAIN loaded \subseteq {u} THEN {} ELSE ran \cup {u}

Signal(u) ==
  /\ signals' = signals + 1
  /\ io' = Woken
  /\ ran' = RanToo(u)
  /\ UNCHANGED loaded

(* DiskIOThread::Write, whose result the units ignore.  In supernova the   *)
(* units run on several threads and ++write is a load and a store.         *)
Write(u, m, missed) ==
  \/ /\ Len(fifo) < Capacity
     /\ fifo' = Append(fifo, m)
     /\ late' = late \cup missed
     /\ IF cue.threads
        THEN loaded' = (u :> signals) @@ loaded /\ UNCHANGED <<signals, io, ran>>
        ELSE Signal(u)
  \/ /\ Len(fifo) = Capacity
     /\ late' = late \cup {u}
     /\ ran' = RanToo(u)
     /\ UNCHANGED <<fifo, signals, loaded, io>>

NoWrite(u, missed) ==
  /\ late' = late \cup missed
  /\ ran' = RanToo(u)
  /\ UNCHANGED <<fifo, signals, loaded, io>>

(* The rest of a Signal that has loaded `write'. *)
Store(u) ==
  /\ u \in DOMAIN loaded
  /\ signals' = loaded[u] + 1
  /\ loaded' = Restrict(loaded, DOMAIN loaded \ {u})
  /\ io' = Woken
  /\ ran' = RanToo(u)
  /\ UNCHANGED <<player, recorder, disk, open, fifo, late, msg, quit>>

-----------------------------------------------------------------------------
(* The units *)

(* DiskOut_Dtor is done before the next cycle begins. *)
MayRun(u) ==
  quit = "no" /\ u \notin ran \cup DOMAIN loaded /\ (freed => "out" \notin DOMAIN loaded)

Pending == {fifo[i] : i \in DOMAIN fifo} \cup (IF msg = NoMessage THEN {} ELSE {msg})

(* The unit enters a half about which a message has not been performed. *)
Missed(u, pos) == {v \in {u} : \E m \in Pending : m.unit = v /\ m.pos = pos}

After(pos) == (pos + 1) % Frames
AtBoundary(pos) == After(pos) \in {0, Half}

HalfEntered(pos) == After(pos) \* Mutant: the message is about the other half

HalfDone(pos) == Half - After(pos)

(* DiskIn tests for the end before it advances, VDiskIn after. *)
DonePos == IF cue.player = "DiskIn" THEN inPos ELSE After(inPos)

Done == done \/ (mask1 >= 0 /\ DonePos >= mask1)

KeepEnd == mask1 \* Mutant: the unit never takes over where the file ended

TakeEnd == IF mask >= 0 THEN mask ELSE mask1

ReadMessage == [cmd |-> IF cue.loop THEN "ReadLoop" ELSE "Read", unit |-> "in",
                pos |-> HalfDone(inPos), frames |-> Half]

(* DiskIn_next, VDiskIn_next_rate1 and VDiskIn_request_buffer *)
InBlock ==
  /\ MayRun("in")
  /\ heard' = inBuf[inPos] /\ want' = Due
  /\ Advance
  /\ done' = Done
  /\ inPos' = After(inPos)
  /\ \/ /\ AtBoundary(inPos)
        /\ mask1' = TakeEnd
        /\ Write("in", ReadMessage, Missed("in", inPos))
     \/ /\ ~AtBoundary(inPos)
        /\ NoWrite("in", Missed("in", inPos))
        /\ UNCHANGED mask1
  /\ UNCHANGED <<cue, recorder, disk, open, msg, quit>>

WriteMessage(pos, n) == [cmd |-> "Write", unit |-> "out", pos |-> pos, frames |-> n]

(* DiskOut_next *)
OutBlock ==
  /\ MayRun("out") /\ ~freed
  /\ count < cue.record
  /\ outBuf' = [outBuf EXCEPT ![outPos] = count + 1]
  /\ count' = count + 1
  /\ outPos' = After(outPos)
  /\ \/ /\ AtBoundary(outPos)
        /\ Write("out", WriteMessage(HalfDone(outPos), Half), Missed("out", outPos))
     \/ /\ ~AtBoundary(outPos)
        /\ NoWrite("out", Missed("out", outPos))
  /\ UNCHANGED <<player, disk, open, freed, msg, quit>>

ChunkStartFirst == 0 \* Mutant: the last chunk starts at the beginning of the buffer

ChunkStart == IF outPos > Half THEN Half ELSE 0

(* DiskOut_Dtor, between two cycles: the part of a half that has been recorded *)
OutFree ==
  /\ quit = "no" /\ ~freed
  /\ ran = {} /\ DOMAIN loaded = {}
  /\ freed' = TRUE
  /\ IF outPos \in {0, Half}
     THEN UNCHANGED <<queue, io>>
     ELSE Write("out", WriteMessage(ChunkStart, outPos - ChunkStart), {})
  /\ UNCHANGED <<player, disk, outBuf, outPos, count, open, msg, quit>>

(* BufCloseCmd::Stage2, under the lock that Perform holds too; a recording *)
(* is closed when its unit has been freed, as the help file asks.          *)
Close(u) ==
  /\ "close" \in cue.ops /\ quit = "no"
  /\ u \in open /\ (u = "out" => freed)
  /\ open' = open \ {u}
  /\ UNCHANGED <<player, recorder, disk, queue, io, msg, quit>>

-----------------------------------------------------------------------------
(* DiskIOMsg::Perform *)

(* A read of n blocks from a file at position fp to position pos. *)
Filled(buf, pos, fp, n) == [i \in DOMAIN buf |-> IF i \in pos..pos + n - 1 THEN fp + i - pos + 1 ELSE buf[i]]

Read ==
  LET c == IF "in" \in open THEN Min({msg.frames, cue.len - filePos}) ELSE 0 IN
  /\ inBuf' = [i \in DOMAIN inBuf |->
                 IF i \in msg.pos + c..msg.pos + msg.frames - 1 THEN Silence
                 ELSE Filled(inBuf, msg.pos, filePos, c)[i]]
  /\ filePos' = filePos + c
  /\ mask' = IF c < msg.frames THEN msg.pos + c ELSE mask
  /\ UNCHANGED outFile

(* The reads of a loop: each one after the first starts at the beginning   *)
(* of the file, and writes behind the blocks of the one before it, as if   *)
(* that had been the first.                                                *)
LoopReads ==
  LET first == Min({msg.frames, cue.len - filePos})
      r[k \in 0..msg.frames + 1] ==
        IF k = 0 THEN [buf |-> Filled(inBuf, msg.pos, filePos, first), fp |-> filePos + first,
                       c |-> first, left |-> msg.frames - first]
        ELSE LET p == r[k - 1]
                 c == Min({p.left, cue.len}) IN
             IF p.left = 0 THEN p
             ELSE [buf |-> Filled(p.buf, msg.pos + p.c, 0, c), fp |-> c, c |-> c, left |-> p.left - c]
  IN r[msg.frames + 1]

ReadLoop ==
  /\ IF "in" \in open
     THEN inBuf' = LoopReads.buf /\ filePos' = LoopReads.fp
     ELSE /\ inBuf' = [i \in DOMAIN inBuf |->
                         IF i \in msg.pos..msg.pos + msg.frames - 1 THEN Silence ELSE inBuf[i]]
          /\ UNCHANGED filePos
  /\ UNCHANGED <<mask, outFile>>

WriteToFile ==
  /\ outFile' = IF "out" \in open
                THEN outFile \o [i \in 1..msg.frames |-> outBuf[msg.pos + i - 1]]
                ELSE outFile
  /\ UNCHANGED <<inBuf, filePos, mask>>

IoPerform ==
  /\ io = "perform"
  /\ \/ msg.cmd = "Read" /\ Read
     \/ msg.cmd = "ReadLoop" /\ ReadLoop
     \/ msg.cmd = "Write" /\ WriteToFile
  /\ io' = "top" /\ msg' = NoMessage
  /\ UNCHANGED <<player, recorder, open, queue, quit>>

-----------------------------------------------------------------------------
(* DiskIOThread::ioThreadFunc *)

IoTop ==
  /\ io = "top"
  /\ io' = IF quit = "no" THEN "test" ELSE "ended"
  /\ UNCHANGED <<player, recorder, disk, open, queue, msg, quit>>

(* WaitEach, which holds a mutex that Signal does not take: between the    *)
(* comparison and the sleep a signal goes unheard.                         *)
IoTest ==
  /\ io = "test"
  /\ \/ signals = 0 /\ io' = "committed" /\ UNCHANGED <<signals, loaded>>
     \/ /\ signals # 0 /\ io' = "pop"
        /\ signals' = signals - 1
        /\ loaded' = [u \in DOMAIN loaded |-> loaded[u] - 1]
  /\ UNCHANGED <<player, recorder, disk, open, fifo, ran, late, msg, quit>>

IoSleep ==
  /\ io = "committed" /\ io' = "asleep"
  /\ UNCHANGED <<player, recorder, disk, open, queue, msg, quit>>

(* A condition variable may wake by itself. *)
IoSpurious ==
  /\ io = "asleep" /\ io' = "test"
  /\ UNCHANGED <<player, recorder, disk, open, queue, msg, quit>>

IoPop ==
  /\ io = "pop"
  /\ IF fifo = <<>> THEN io' = "top" /\ UNCHANGED <<fifo, msg>>
     ELSE io' = "perform" /\ msg' = Head(fifo) /\ fifo' = Tail(fifo)
  /\ UNCHANGED <<player, recorder, disk, open, signals, loaded, ran, late, quit>>

-----------------------------------------------------------------------------
(* ~DiskIOThread, when the audio has stopped *)

QuitStore ==
  /\ "quit" \in cue.ops /\ quit = "no"
  /\ ran = {} /\ DOMAIN loaded = {}
  /\ quit' = "stored"
  /\ UNCHANGED <<player, recorder, disk, open, queue, io, msg>>

QuitSignal ==
  /\ quit = "stored" /\ quit' = "signalled"
  /\ signals' = signals + 1 /\ io' = Woken
  /\ UNCHANGED <<player, recorder, disk, open, fifo, loaded, ran, late, msg>>

QuitJoin ==
  /\ quit = "signalled" /\ io = "ended" /\ quit' = "joined"
  /\ UNCHANGED <<player, recorder, disk, open, queue, io, msg>>

IoStep == IoTop \/ IoTest \/ IoSleep \/ IoPop \/ IoPerform

Next ==
  \/ InBlock \/ OutBlock \/ OutFree
  \/ \E u \in Unit : Store(u) \/ Close(u)
  \/ IoTop \/ IoTest \/ IoSleep \/ IoSpurious \/ IoPop \/ IoPerform
  \/ QuitStore \/ QuitSignal \/ QuitJoin

Spec == Init /\ [][Next]_vars

(* The audio callback goes on, the disk thread gets its share of the       *)
(* processor, the thread that quits does what it has begun, and a          *)
(* recording ends.                                                         *)
FairSpec ==
  /\ Spec
  /\ WF_vars(InBlock) /\ WF_vars(OutBlock) /\ WF_vars(OutFree) /\ WF_vars(IoStep)
  /\ \A u \in Unit : WF_vars(Store(u))
  /\ WF_vars(QuitSignal) /\ WF_vars(QuitJoin)

-----------------------------------------------------------------------------
TypeOK ==
  /\ cue \in Cues
  /\ inBuf \in [0..Frames - 1 -> 0..cue.len]
  /\ filePos \in 0..cue.len
  /\ mask \in -1..Frames - 1 /\ mask1 \in -1..Frames - 1
  /\ inPos \in 0..Frames - 1 /\ outPos \in 0..Frames - 1
  /\ done \in BOOLEAN /\ freed \in BOOLEAN
  /\ heard \in -1..cue.len /\ want \in -1..cue.len
  /\ count \in 0..cue.record
  /\ outBuf \in [0..Frames - 1 -> 0..cue.record]
  /\ \A i \in DOMAIN outFile : outFile[i] \in 0..cue.record
  /\ open \subseteq Unit /\ ran \subseteq Unit /\ late \subseteq Unit
  /\ Len(fifo) <= Capacity /\ \A i \in DOMAIN fifo : fifo[i] \in Message
  /\ signals \in Nat /\ DOMAIN loaded \subseteq Unit
  /\ msg \in Message \cup {NoMessage} /\ (msg # NoMessage) = (io = "perform")
  /\ io \in {"top", "test", "committed", "asleep", "pop", "perform", "ended"}
  /\ quit \in {"no", "stored", "signalled", "joined"}

(* What a player outputs is the file, block by block, then silence or, when *)
(* it loops, the file again, as long as the disk keeps up; and it reports   *)
(* that it is done only when the whole file was heard.                      *)
HeardIsFile ==
  "in" \in open /\ "in" \notin late =>
    heard = want /\ (done => ~cue.loop /\ next.at > cue.len)

(* What is on disk, what the pending messages will add to it and what has  *)
(* not been posted yet are together what was recorded, in order; after     *)
(* /b_close the file holds the beginning of it.                            *)
Blocks(m) == [i \in 1..m.frames |-> outBuf[m.pos + i - 1]]

RecordingIntact ==
  LET posted == SelectSeq((IF msg = NoMessage THEN <<>> ELSE <<msg>>) \o fifo,
                          LAMBDA m : m.unit = "out")
      start == IF outPos >= Half THEN Half ELSE 0
      rest == IF freed THEN <<>> ELSE [i \in 1..outPos - start |-> outBuf[start + i - 1]]
      all == outFile \o FlattenSeq([i \in DOMAIN posted |-> Blocks(posted[i])]) \o rest
  IN "out" \notin late =>
       /\ outFile = [i \in 1..Len(outFile) |-> i]
       /\ "out" \in open => all = [i \in 1..count |-> i]

(* A player that is not looped eventually reports that it is done, however *)
(* late the disk is, unless the plug-in is unloaded.  A signal that goes unheard is made up for by the     *)
(* next one, unless so many go unheard that the fifo is full: then no      *)
(* message is posted and none is signalled any more.                       *)
DoneComes == []<>(Len(fifo) < Capacity) => (~cue.loop ~> done \/ quit # "no")

=============================================================================
