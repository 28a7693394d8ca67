------------------------ MODULE SequencedCommands ------------------------
(* The asynchronous commands of scsynth (SC_SequencedCommand.cpp) and the  *)
(* fifos that carry them between the audio callback, which is real time,   *)
(* and the driver's non-realtime thread (SC_CoreAudio.cpp).  A command is  *)
(* created by the callback, runs its stages alternately in the two         *)
(* threads, and is deleted by the callback.  The commands of one buffer    *)
(* are modelled with the memory they allocate and free: the callback and   *)
(* the non-realtime thread have a table of buffers each, and a stage       *)
(* brings one up to date with the other.  The fifos are queues here; that  *)
(* the ring buffers are queues is the subject of MsgFifo.                  *)
EXTENDS Integers, Sequences, FiniteSets

CONSTANTS
  FifoSize,       \* messages a fifo holds
  MaxPackets,     \* bound on the packets the clients send
  Kinds,          \* the commands they send
  CompletionKinds,\* the commands they send as completion messages
  MemoryFails,    \* zalloc may return no memory
  EmptyReads      \* /b_allocRead may be asked for no frames at all

AllKinds == {"alloc", "allocRead", "gen", "free", "zero", "sync", "query"}

ASSUME SequencedCommandsAssumption ==
  /\ FifoSize \in Nat \ {0} /\ MaxPackets \in Nat
  /\ Kinds \subseteq AllKinds /\ CompletionKinds \subseteq AllKinds
  /\ MemoryFails \in BOOLEAN /\ EmptyReads \in BOOLEAN

VARIABLES
  sent,        \* number of packets the clients have sent
  osc,         \* mOscPacketsToEngine
  toEngine, fromEngine,
  unfreed,     \* messages of fromEngine performed but not yet reclaimed
  cmds,        \* the commands in the order in which they were created
  rtBuf,       \* the buffer in the table of the callback
  nrtBuf,      \* the same buffer in the table of the non-realtime thread
  memory,      \* the blocks of sample data that are allocated
  blocks,      \* number of blocks ever allocated
  rt,          \* where the audio callback is
  nrt,         \* where the non-realtime thread is
  signalled    \* mAudioSync has been signalled

vars == <<sent, osc, toEngine, fromEngine, unfreed, cmds, rtBuf, nrtBuf,
          memory, blocks, rt, nrt, signalled>>

Null == 0

SndBuf(data, samples) == [data |-> data, samples |-> samples]

(* A command: the stage it runs next, the buffer and the block of memory   *)
(* it carries from stage to stage, its completion message, whether the     *)
(* object exists, and how it ended.                                        *)
NewCommand(kind, then) ==
  [kind |-> kind, then |-> then, stage |-> 2, snd |-> SndBuf(Null, 0),
   free |-> Null, alive |-> TRUE, ended |-> FALSE]

Do(c)   == [op |-> "do", cmd |-> c]
Free(c) == [op |-> "free", cmd |-> c]

Init ==
  /\ sent = 0
  /\ osc = << >> /\ toEngine = << >> /\ fromEngine = << >> /\ unfreed = 0
  /\ cmds = << >>
  /\ rtBuf = SndBuf(Null, 0) /\ nrtBuf = SndBuf(Null, 0)
  /\ memory = {} /\ blocks = 0
  /\ rt = "idle" /\ nrt = "wait" /\ signalled = FALSE

-----------------------------------------------------------------------------
(* The fifos.  Nobody looks at the result of SendMsgFromEngine and         *)
(* SendMsgToEngine: what does not fit is lost.  The messages of toEngine   *)
(* and osc that were performed are reclaimed before each write, those of   *)
(* fromEngine at the beginning of the callback.                            *)
Write(q, used, msg) == IF Len(q) + used < FifoSize THEN Append(q, msg) ELSE q

\* The commands whose third stage performs a completion message.
WithCompletion == {"alloc", "allocRead", "free", "zero"}

(* A client sends a packet; ProcessOSCPacket refuses it when the fifo is   *)
(* full and the listener frees it.                                         *)
ProcessOSCPacket(kind, then) ==
  /\ sent < MaxPackets
  /\ then # "none" => kind \in WithCompletion
  /\ sent' = sent + 1
  /\ osc' = Write(osc, 0, [kind |-> kind, then |-> then])
  /\ UNCHANGED <<toEngine, fromEngine, unfreed, cmds, rtBuf, nrtBuf, memory,
                 blocks, rt, nrt, signalled>>

-----------------------------------------------------------------------------
(* The audio callback *)

RunBegin ==
  /\ rt = "idle"
  /\ unfreed' = 0
  /\ rt' = "toEngine"
  /\ UNCHANGED <<sent, osc, toEngine, fromEngine, cmds, rtBuf, nrtBuf, memory,
                 blocks, nrt, signalled>>

(* CallSequencedCommand: the command is created, its first stage passes it *)
(* to the other thread.  The result is the pair of commands and fifo.      *)
Start(p, cs, from) ==
  LET c == Len(cs) + 1
  IN [cmds |-> Append(cs, NewCommand(p.kind, p.then)),
      from |-> Write(from, unfreed, Do(c))]

PerformPacket ==
  /\ rt = "osc"
  /\ osc # << >>
  /\ osc' = Tail(osc)
  /\ LET s == Start(Head(osc), cmds, fromEngine)
     IN cmds' = s.cmds /\ fromEngine' = s.from
  /\ UNCHANGED <<sent, toEngine, unfreed, rtBuf, nrtBuf, memory, blocks, rt,
                 nrt, signalled>>

\* Mutant: the third stage of /b_gen is forgotten.
Stage3BufNoGen(cmd) ==
  CASE cmd.kind \in {"alloc"} -> cmd.snd
    [] cmd.kind = "free" -> SndBuf(Null, 0)
    [] OTHER -> rtBuf

(* Stage 3 of the commands that change the buffer: the callback's table is *)
(* brought up to date.                                                     *)
Stage3Buf(cmd) ==
  CASE cmd.kind \in {"alloc", "allocRead", "gen"} -> cmd.snd
    [] cmd.kind = "free" -> SndBuf(Null, 0)
    [] OTHER -> rtBuf

(* After the stage the completion message is performed, which can start    *)
(* another command, and then the command itself is sent on.                *)
CallStage3(c) ==
  /\ rtBuf' = Stage3Buf(cmds[c])
  /\ LET next == [cmds EXCEPT ![c].stage = 4]
         s == IF cmds[c].then = "none"
              THEN [cmds |-> next, from |-> fromEngine]
              ELSE Start([kind |-> cmds[c].then, then |-> "none"], next, fromEngine)
     IN /\ cmds' = s.cmds
        /\ fromEngine' = Write(s.from, unfreed, Do(c))

Delete(c) ==
  /\ cmds' = [cmds EXCEPT ![c].alive = FALSE]
  /\ UNCHANGED <<fromEngine, rtBuf>>

PerformToEngine ==
  /\ rt = "toEngine"
  /\ toEngine # << >>
  /\ toEngine' = Tail(toEngine)
  /\ LET msg == Head(toEngine)
     IN IF msg.op = "do" THEN CallStage3(msg.cmd) ELSE Delete(msg.cmd)
  /\ UNCHANGED <<sent, osc, unfreed, nrtBuf, memory, blocks, rt, nrt, signalled>>

ToEngineEmpty ==
  /\ rt = "toEngine"
  /\ toEngine = << >>
  /\ rt' = "osc"
  /\ UNCHANGED <<sent, osc, toEngine, fromEngine, unfreed, cmds, rtBuf, nrtBuf,
                 memory, blocks, nrt, signalled>>

\* Mutant: the end of the callback does not wake the other thread.
RunEndSilent ==
  /\ rt = "osc"
  /\ osc = << >>
  /\ rt' = "idle"
  /\ UNCHANGED <<sent, osc, toEngine, fromEngine, unfreed, cmds, rtBuf, nrtBuf,
                 memory, blocks, nrt, signalled>>

(* No more packets: the synths are calculated, the other thread is woken. *)
RunEnd ==
  /\ rt = "osc"
  /\ osc = << >>
  /\ rt' = "idle"
  /\ signalled' = TRUE
  /\ UNCHANGED <<sent, osc, toEngine, fromEngine, unfreed, cmds, rtBuf, nrtBuf,
                 memory, blocks, nrt>>

-----------------------------------------------------------------------------
(* The non-realtime thread *)

WaitNext ==
  /\ nrt = "wait"
  /\ signalled
  /\ signalled' = FALSE
  /\ nrt' = "perform"
  /\ UNCHANGED <<sent, osc, toEngine, fromEngine, unfreed, cmds, rtBuf, nrtBuf,
                 memory, blocks, rt>>

FromEngineEmpty ==
  /\ nrt = "perform"
  /\ fromEngine = << >>
  /\ nrt' = "wait"
  /\ UNCHANGED <<sent, osc, toEngine, fromEngine, unfreed, cmds, rtBuf, nrtBuf,
                 memory, blocks, rt, signalled>>

(* bufAlloc: the buffer it leaves, and the block it allocated if any.      *)
(* Nothing is touched when no frames are asked for; when there is no       *)
(* memory the data is null and the size stays.                             *)
BufAllocResults(buf, emptySize) ==
  {[buf |-> SndBuf(blocks + 1, 1), new |-> {blocks + 1}, err |-> FALSE]}
  \cup (IF emptySize THEN {[buf |-> buf, new |-> {}, err |-> TRUE]} ELSE {})
  \cup (IF MemoryFails
        THEN {[buf |-> [buf EXCEPT !.data = Null], new |-> {}, err |-> TRUE]}
        ELSE {})

(* Stage 2: what it makes of the buffer of the non-realtime thread, the    *)
(* buffer and the block to free it keeps in the command, and whether there *)
(* is a third stage.                                                       *)
Stage2Result(buf, new, snd, free, more) ==
  [buf |-> buf, new |-> new, snd |-> snd, free |-> free, more |-> more]

\* Mutant: the old data is looked up after the new data was installed.
Stage2AllocLate(buf) ==
  {Stage2Result(a.buf, a.new, IF a.err THEN SndBuf(Null, 0) ELSE a.buf, a.buf.data, ~a.err)
     : a \in BufAllocResults(buf, TRUE)}

Stage2Alloc(buf) ==
  {Stage2Result(a.buf, a.new, IF a.err THEN SndBuf(Null, 0) ELSE a.buf, buf.data, ~a.err)
     : a \in BufAllocResults(buf, TRUE)}

(* The file may not open; an error of bufAlloc does not end the command. *)
Stage2AllocRead(buf) ==
  {Stage2Result(buf, {}, SndBuf(Null, 0), Null, FALSE)}
  \cup {Stage2Result(a.buf, a.new, a.buf, buf.data, TRUE)
          : a \in BufAllocResults(buf, EmptyReads)}

(* A generator fills the data or installs data of its own. *)
Stage2Gen(buf) ==
  {Stage2Result(buf, {}, buf, Null, TRUE),
   Stage2Result(SndBuf(blocks + 1, 1), {blocks + 1}, SndBuf(blocks + 1, 1),
                buf.data, TRUE)}

Stage2Free(buf) ==
  {Stage2Result(SndBuf(Null, 0), {}, SndBuf(Null, 0), buf.data, TRUE)}

\* Mutant: /sync replies in its second stage.
Stage2SyncEarly(cmd) ==
  CASE cmd.kind = "alloc" -> Stage2Alloc(nrtBuf)
    [] cmd.kind = "allocRead" -> Stage2AllocRead(nrtBuf)
    [] cmd.kind = "gen" -> Stage2Gen(nrtBuf)
    [] cmd.kind = "free" -> Stage2Free(nrtBuf)
    [] OTHER -> {Stage2Result(nrtBuf, {}, SndBuf(Null, 0), Null, FALSE)}

Stage2(cmd) ==
  CASE cmd.kind = "alloc" -> Stage2Alloc(nrtBuf)
    [] cmd.kind = "allocRead" -> Stage2AllocRead(nrtBuf)
    [] cmd.kind = "gen" -> Stage2Gen(nrtBuf)
    [] cmd.kind = "free" -> Stage2Free(nrtBuf)
    [] cmd.kind \in {"zero", "sync"} ->
         {Stage2Result(nrtBuf, {}, SndBuf(Null, 0), Null, TRUE)}
    [] cmd.kind = "query" ->
         {Stage2Result(nrtBuf, {}, SndBuf(Null, 0), Null, FALSE)}

(* A command that ends in the non-realtime thread is sent back to be       *)
(* deleted: "can only be freed from RT".                                   *)
AfterNrtStage(c, more) == IF more THEN Do(c) ELSE Free(c)

CallStage2(c) ==
  \E r \in Stage2(cmds[c]) :
    /\ nrtBuf' = r.buf
    /\ memory' = memory \cup r.new
    /\ blocks' = blocks + Cardinality(r.new)
    /\ cmds' = [cmds EXCEPT ![c].stage = 3, ![c].snd = r.snd,
                            ![c].free = r.free, ![c].ended = ~r.more]
    /\ toEngine' = Write(toEngine, 0, AfterNrtStage(c, r.more))

(* Stage 4 frees the old data and sends the reply. *)
CallStage4(c) ==
  /\ memory' = memory \ {cmds[c].free}
  /\ cmds' = [cmds EXCEPT ![c].stage = 5, ![c].ended = TRUE]
  /\ toEngine' = Write(toEngine, 0, AfterNrtStage(c, FALSE))
  /\ UNCHANGED <<nrtBuf, blocks>>

PerformFromEngine ==
  /\ nrt = "perform"
  /\ fromEngine # << >>
  /\ fromEngine' = Tail(fromEngine)
  /\ unfreed' = unfreed + 1
  /\ LET c == Head(fromEngine).cmd
     IN IF cmds[c].stage = 2 THEN CallStage2(c) ELSE CallStage4(c)
  /\ UNCHANGED <<sent, osc, rtBuf, rt, nrt, signalled>>

-----------------------------------------------------------------------------
RealTime == RunBegin \/ PerformToEngine \/ ToEngineEmpty \/ PerformPacket \/ RunEnd

NonRealTime == WaitNext \/ PerformFromEngine \/ FromEngineEmpty

Next ==
  \/ \E k \in Kinds, t \in CompletionKinds \cup {"none"} : ProcessOSCPacket(k, t)
  \/ RunBegin \/ PerformToEngine \/ ToEngineEmpty \/ PerformPacket \/ RunEnd
  \/ WaitNext \/ PerformFromEngine \/ FromEngineEmpty

(* The sound card calls the callback again and again, the operating system *)
(* runs the other thread.                                                  *)
Fairness == WF_vars(RealTime) /\ WF_vars(NonRealTime)

Spec == Init /\ [][Next]_vars /\ Fairness

-----------------------------------------------------------------------------
TypeOK ==
  /\ sent \in 0..MaxPackets
  /\ \A q \in {osc, toEngine, fromEngine} : Len(q) <= FifoSize
  /\ \A c \in 1..Len(cmds) : cmds[c].stage \in 2..5
  /\ memory \subseteq 1..blocks
  /\ rt \in {"idle", "toEngine", "osc"} /\ nrt \in {"wait", "perform"}

(* The promise stage 4 rests on ("we know that nothing is referencing the  *)
(* data anymore, so we can finally delete it"): neither table refers to    *)
(* data that has been freed, whatever commands for the same buffer are on  *)
(* their way; and a buffer that has samples has data, which /b_zero and    *)
(* the others write to without another test.                               *)
NoDanglingBuffer ==
  /\ \A b \in {rtBuf, nrtBuf} : b.data # Null => b.data \in memory
  /\ nrtBuf.samples > 0 => nrtBuf.data \in memory

Quiescent == \A c \in 1..Len(cmds) : ~cmds[c].alive

(* Between commands the two tables agree and the only block of memory left *)
(* is the one they refer to: "Buffer commands use this stage to free the   *)
(* old buffer data".                                                       *)
TablesAgree ==
  Quiescent => rtBuf = nrtBuf /\ memory = {rtBuf.data} \ {Null}

(* The reference says of /sync: "Replies with a /synced message when all   *)
(* asynchronous commands received before this one have completed."         *)
SyncedAfterAll ==
  \A c \in 1..Len(cmds) :
    cmds[c].kind = "sync" /\ cmds[c].ended
      => \A b \in 1..(c - 1) : cmds[b].ended

(* Every command runs to its end and is deleted. *)
CommandsEnd ==
  \A c \in 1..MaxPackets :
    (Len(cmds) >= c) ~> (Len(cmds) >= c /\ cmds[c].ended /\ ~cmds[c].alive)
=============================================================================
