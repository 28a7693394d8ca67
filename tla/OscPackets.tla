---------------------------- MODULE OscPackets ----------------------------
(* The life of an OSC packet in scsynth: allocated by the network thread   *)
(* (SC_ComPort.cpp), passed to the audio callback in the fifo              *)
(* mOscPacketsToEngine, performed there at once or kept by the scheduler   *)
(* until its time, and freed by the network thread, the non-realtime       *)
(* thread or the callback, whoever owns it then (SC_CoreAudio.cpp).  A     *)
(* bundle that has bundles in it is unrolled into packets of their own.    *)
(* The completion messages of commands take the same way from the          *)
(* command.  The fifos are queues (see MsgFifo) and the scheduler a stable *)
(* priority queue.                                                         *)
EXTENDS Integers, Sequences, FiniteSets, SequencesExt

CONSTANTS
  Received,     \* the packets that clients send: messages and bundles
  OscFifo,      \* messages that mOscPacketsToEngine holds
  FromFifo,     \* messages that mFromEngine holds
  N,            \* events that the scheduler holds
  MaxReceived,  \* bound on the packets that are received
  LastBlock     \* bound: the clock stands still from this block on

(* A message: its length in words, what the command does that matters      *)
(* here, and the completion packet of a command that has one.              *)
Message(words, kind, then) == [words |-> words, kind |-> kind, then |-> then]

(* A packet: a message, or a bundle of messages and bundles with a time.   *)
(* The time 0 stands for the time tags 0 and 1, "immediately".             *)
Packet(bundle, time, msgs, nested) ==
  [bundle |-> bundle, time |-> time, msgs |-> msgs, nested |-> nested]

ASSUME OscPacketsAssumption ==
  /\ {OscFifo, FromFifo, N, MaxReceived, LastBlock} \subseteq Nat
  /\ \A r \in Received :
       /\ r.time \in Nat
       /\ ~r.bundle => r.time = 0 /\ r.nested = << >> /\ Len(r.msgs) = 1

VARIABLES
  packets,     \* every packet ever allocated: its buffer, and what was meant
  live,        \* the packets that have not been freed
  received,    \* number of packets received
  net,         \* the calls of UnrollOSCPacket in progress, innermost last
  osc,         \* mOscPacketsToEngine: packets, Null once owned elsewhere
  oscRead,     \* number of those that were performed
  fromEngine,  \* mFromEngine: packets to be freed, Null once they are
  fromRead,    \* number of those that were performed
  scheduler,   \* the scheduled events
  counter,     \* mStabilityCounter
  commands,    \* completion packets of the commands under way
  rt,          \* where the audio callback is
  now,         \* the block it computes
  performed    \* history: what was performed, packet by packet

vars == <<packets, live, received, net, osc, oscRead, fromEngine, fromRead,
          scheduler, counter, commands, rt, now, performed>>

netVars == <<received, net>>
rtVars  == <<fromRead, scheduler, counter, commands, rt, now, performed>>

Null == 0

Init ==
  /\ packets = << >> /\ live = {}
  /\ received = 0 /\ net = << >>
  /\ osc = << >> /\ oscRead = 0
  /\ fromEngine = << >> /\ fromRead = 0
  /\ scheduler = {} /\ counter = 0 /\ commands = {}
  /\ rt = "idle" /\ now = 0
  /\ performed = << >>

-----------------------------------------------------------------------------
(* The buffer of a packet, in words of four bytes *)

Header(time) == << <<"#bun">>, <<"dle">>, <<"time", time>>, <<"time", time>> >>

(* A message in a bundle: its size, and as many words. *)
Element(m) == << <<"size", m>> >> \o [i \in 1..m.words |-> <<"word", m, i>>]

CopyMessage(m) == Tail(Element(m))

CopyBundle(r) ==
  FoldLeft(LAMBDA buf, m : buf \o Element(m), Header(r.time), r.msgs)

(* The messages of a bundle that also has bundles: the header is copied to *)
(* the beginning of the new buffer, and each message to buf, which then    *)
(* advances by msgSize.                                                    *)
CopyOutOfNesting(r) ==
  LET whole == Len(CopyBundle(r))
      Put(acc, m) ==
        [at |-> acc.at + m.words,
         buf |-> [i \in 1..whole |->
                    IF i - acc.at \in 1..(m.words + 1)
                    THEN Element(m)[i - acc.at] ELSE acc.buf[i]]]
      start == [at |-> 0,
                buf |-> [i \in 1..whole |->
                           IF i <= 4 THEN Header(r.time)[i] ELSE <<"unset">>]]
  IN FoldLeft(Put, start, r.msgs).buf

Buffer(r) ==
  IF ~r.bundle THEN CopyMessage(r.msgs[1])
  ELSE IF r.nested = << >> THEN CopyBundle(r)
  ELSE CopyOutOfNesting(r)

IsBundle(buf) == SubSeq(buf, 1, 2) = SubSeq(Header(0), 1, 2)

(* PerformOSCBundle and PerformOSCMessage: the messages found in a buffer. *)
(* A message whose first byte is 0, as a size's is, is taken for a command *)
(* by number.                                                              *)
Found(buf) ==
  IF IsBundle(buf)
  THEN LET sizes == SelectSeq(SubSeq(buf, 5, Len(buf)),
                              LAMBDA w : w[1] = "size")
       IN [i \in 1..Len(sizes) |-> <<"name", sizes[i][2]>>]
  ELSE IF buf[1][1] = "word"
  THEN << <<"name", buf[1][2]>> >>
  ELSE << <<"number", buf[1][2]>> >>

Meant(r) == [i \in 1..Len(r.msgs) |-> <<"name", r.msgs[i]>>]

(* OSC_Packet: the time tag of a bundle, the buffer, and for the           *)
(* properties the messages the client put into it.                         *)
NewPacket(r) ==
  [time |-> r.time, buf |-> Buffer(r), meant |-> Meant(r)]

-----------------------------------------------------------------------------
(* The network thread *)

Frame(p, r) == [packet |-> p, r |-> r, sent |-> FALSE, todo |-> r.nested]

(* Allocation of a packet, and the call of UnrollOSCPacket with it.        *)
Enter(frames, r) ==
  /\ packets' = Append(packets, NewPacket(r))
  /\ live' = live \cup {Len(packets) + 1}
  /\ net' = Append(frames, Frame(Len(packets) + 1, r))

(* handleReceivedUDP, handleMsgReceived *)
Receive(r) ==
  /\ net = << >>
  /\ received < MaxReceived
  /\ received' = received + 1
  /\ Enter(net, r)
  /\ UNCHANGED <<osc, oscRead, fromEngine, rtVars>>

Top == net[Len(net)]

(* A bundle that has only bundles is not sent itself. *)
HasContent(r) == ~r.bundle \/ r.nested = << >> \/ r.msgs # << >>

Pop(frames) == SubSeq(frames, 1, Len(frames) - 1)

(* MsgFifo::Free: the packets of the messages that were performed, unless  *)
(* their ownership was transferred.                                        *)
FreedByFifo == {osc[i] : i \in 1..oscRead} \ {Null}

OscFull(kept) == Len(kept) >= OscFifo

(* ProcessOSCPacket: the fifo is reclaimed, then written.  When it is full *)
(* each call of UnrollOSCPacket returns false and its caller frees the     *)
(* packet it was given.                                                    *)
ProcessOSCPacket ==
  LET kept == SubSeq(osc, oscRead + 1, Len(osc))
  IN /\ net # << >>
     /\ ~Top.sent /\ HasContent(Top.r)
     /\ oscRead' = 0
     /\ IF OscFull(kept)
        THEN /\ osc' = kept
             /\ live' = live \ (FreedByFifo \cup {net[i].packet : i \in 1..Len(net)})
             /\ net' = << >>
        ELSE /\ osc' = Append(kept, Top.packet)
             /\ live' = live \ FreedByFifo
             /\ net' = IF Top.todo = << >> THEN Pop(net)
                       ELSE [net EXCEPT ![Len(net)].sent = TRUE]
     /\ UNCHANGED <<packets, received, fromEngine, rtVars>>

(* The next bundle of a bundle: its packet is a clone of the outer one. *)
UnrollNested ==
  /\ net # << >>
  /\ Top.sent \/ ~HasContent(Top.r)
  /\ Top.todo # << >>
  /\ Enter([net EXCEPT ![Len(net)].todo = Tail(@)], Head(Top.todo))
  /\ UNCHANGED <<received, osc, oscRead, fromEngine, rtVars>>

UnrollReturn ==
  /\ net # << >>
  /\ Top.sent \/ ~HasContent(Top.r)
  /\ Top.todo = << >>
  /\ net' = Pop(net)
  /\ UNCHANGED <<packets, live, received, osc, oscRead, fromEngine, rtVars>>

-----------------------------------------------------------------------------
(* The audio callback.  Performing a packet appends to the history, and    *)
(* starts the commands of its messages, which copy their completion        *)
(* packets.                                                                *)

CompletionsOf(found) ==
  SelectSeq(found, LAMBDA f : f[1] = "name" /\ f[2].kind = "async")

(* What performing packet p does, besides freeing it: fr are the packets   *)
(* freed with it, sc the scheduler without it.                             *)
PerformPacket(p, fr, sc) ==
  LET found == Found(packets[p].buf)
      async == CompletionsOf(found)
      copies == [i \in 1..Len(async) |-> NewPacket(async[i][2].then)]
      new == (Len(packets) + 1)..(Len(packets) + Len(copies))
      cleared == \E i \in 1..Len(found) :
                   found[i][1] = "name" /\ found[i][2].kind = "clear"
  IN /\ performed' = Append(performed, [packet |-> p, found |-> found])
     /\ packets' = packets \o copies
     /\ live' = (live \ fr) \cup new
     /\ commands' = (commands \ {p}) \cup new
     /\ scheduler' = IF cleared THEN {} ELSE sc
     /\ counter' = IF scheduler' = {} THEN 0 ELSE counter

Immediate(p) == ~IsBundle(packets[p].buf) \/ packets[p].time = 0

(* AddEvent, whose caller does not learn whether there was room.  FreeInRT *)
(* for completion packets, FreeInNRT for received ones.                    *)
AddEvent(p, inRT) ==
  IF Cardinality(scheduler) >= N
  THEN UNCHANGED <<scheduler, counter>>
  ELSE /\ scheduler' = scheduler \cup
            {[time |-> packets[p].time, count |-> counter, packet |-> p,
              inRT |-> inRT]}
       /\ counter' = counter + 1

(* The callback begins by reclaiming mFromEngine; its messages have        *)
(* nothing to free.                                                        *)
RunBegin ==
  /\ rt = "idle"
  /\ rt' = "toEngine"
  /\ fromEngine' = SubSeq(fromEngine, fromRead + 1, Len(fromEngine))
  /\ fromRead' = 0
  /\ UNCHANGED <<packets, live, netVars, osc, oscRead, scheduler, counter,
                 commands, now, performed>>

(* The last stage of a command: PerformCompletionMsg, then the command is  *)
(* deleted with the packet unless the scheduler has it.                    *)
PerformCompletionMsg(p) ==
  /\ rt = "toEngine" /\ p \in commands
  /\ IF Immediate(p)
     THEN PerformPacket(p, {p}, scheduler)
     ELSE /\ AddEvent(p, TRUE)
          /\ commands' = commands \ {p}
          /\ UNCHANGED <<packets, live, performed>>
  /\ UNCHANGED <<netVars, osc, oscRead, fromEngine, fromRead, rt, now>>

ToEngineDone ==
  /\ rt = "toEngine"
  /\ rt' = "osc"
  /\ UNCHANGED <<packets, live, netVars, osc, oscRead, fromEngine, fromRead,
                 scheduler, counter, commands, now, performed>>

Unread == oscRead < Len(osc)

\* Mutant: the message keeps the packet that the scheduler has.
PerformToEngineKeeps ==
  LET p == osc[oscRead + 1]
  IN /\ rt = "osc" /\ Unread
     /\ oscRead' = oscRead + 1
     /\ IF Immediate(p)
        THEN PerformPacket(p, {}, scheduler)
        ELSE AddEvent(p, FALSE)
             /\ UNCHANGED <<packets, live, commands, performed>>
     /\ UNCHANGED <<netVars, osc, fromEngine, fromRead, rt, now>>

\* Mutant: a late bundle is performed at once, and scheduled as well.
PerformToEngineLate ==
  LET p == osc[oscRead + 1]
  IN /\ rt = "osc" /\ Unread
     /\ oscRead' = oscRead + 1
     /\ IF Immediate(p)
        THEN PerformPacket(p, {}, scheduler) /\ UNCHANGED osc
        ELSE /\ AddEvent(p, FALSE)
             /\ osc' = [osc EXCEPT ![oscRead + 1] = Null]
             /\ performed' = IF packets[p].time > now THEN performed
                             ELSE Append(performed, [packet |-> p, found |-> Found(packets[p].buf)])
             /\ UNCHANGED <<packets, live, commands>>
     /\ UNCHANGED <<netVars, fromEngine, fromRead, rt, now>>

\* Mutant: a late bundle is dropped.
PerformToEngineDrops ==
  LET p == osc[oscRead + 1]
  IN /\ rt = "osc" /\ Unread
     /\ oscRead' = oscRead + 1
     /\ IF Immediate(p)
        THEN PerformPacket(p, {}, scheduler) /\ UNCHANGED osc
        ELSE IF packets[p].time <= now
        THEN UNCHANGED <<packets, live, commands, performed, scheduler, counter, osc>>
        ELSE /\ AddEvent(p, FALSE)
             /\ osc' = [osc EXCEPT ![oscRead + 1] = Null]
             /\ UNCHANGED <<packets, live, commands, performed>>
     /\ UNCHANGED <<netVars, fromEngine, fromRead, rt, now>>

(* Perform_ToEngine_Msg and PerformOSCPacket: the packet stays with the    *)
(* message, or goes to the scheduler.                                      *)
PerformToEngineMsg ==
  LET p == osc[oscRead + 1]
  IN /\ rt = "osc" /\ Unread
     /\ oscRead' = oscRead + 1
     /\ IF Immediate(p)
        THEN PerformPacket(p, {}, scheduler) /\ UNCHANGED osc
        ELSE /\ AddEvent(p, FALSE)
             /\ osc' = [osc EXCEPT ![oscRead + 1] = Null]
             /\ UNCHANGED <<packets, live, commands, performed>>
     /\ UNCHANGED <<netVars, fromEngine, fromRead, rt, now>>

OscDone ==
  /\ rt = "osc" /\ ~Unread
  /\ rt' = "events"
  /\ UNCHANGED <<packets, live, netVars, osc, oscRead, fromEngine, fromRead,
                 scheduler, counter, commands, now, performed>>

DueEvents == {e \in scheduler : e.time <= now + 1}

First(e) ==
  \A f \in scheduler \ {e} :
    e.time < f.time \/ (e.time = f.time /\ e.count < f.count)

(* SC_ScheduledEvent::Perform, with FreeInRT or FreeInNRT, which does not  *)
(* learn whether there was room in the fifo.                               *)
PerformEvent ==
  /\ rt = "events" /\ DueEvents # {}
  /\ LET e == CHOOSE x \in scheduler : First(x)
     IN /\ PerformPacket(e.packet, IF e.inRT THEN {e.packet} ELSE {},
                         scheduler \ {e})
        /\ fromEngine' =
             IF ~e.inRT /\ Len(fromEngine) < FromFifo
             THEN Append(fromEngine, e.packet) ELSE fromEngine
  /\ UNCHANGED <<netVars, osc, oscRead, fromRead, rt, now>>

(* World_Run, and the next block or the end of the callback. *)
BlockDone ==
  /\ rt = "events" /\ DueEvents = {}
  /\ now' = IF now < LastBlock THEN now + 1 ELSE now
  /\ rt' \in {"events", "idle"}
  /\ UNCHANGED <<packets, live, netVars, osc, oscRead, fromEngine, fromRead,
                 scheduler, counter, commands, performed>>

-----------------------------------------------------------------------------
(* The non-realtime thread performs a message of mFromEngine: FreeOSCPacket *)
FreeOSCPacket ==
  /\ fromRead < Len(fromEngine)
  /\ fromRead' = fromRead + 1
  /\ fromEngine' = [fromEngine EXCEPT ![fromRead + 1] = Null]
  /\ live' = live \ {fromEngine[fromRead + 1]}
  /\ UNCHANGED <<packets, netVars, osc, oscRead, scheduler, counter, commands,
                 rt, now, performed>>

-----------------------------------------------------------------------------
Next ==
  \/ \E r \in Received : Receive(r)
  \/ ProcessOSCPacket
  \/ UnrollNested
  \/ UnrollReturn
  \/ RunBegin
  \/ \E p \in commands : PerformCompletionMsg(p)
  \/ ToEngineDone
  \/ PerformToEngineMsg
  \/ OscDone
  \/ PerformEvent
  \/ BlockDone
  \/ FreeOSCPacket

Spec == Init /\ [][Next]_vars

(* The host calls the audio callback again and again and it runs to its    *)
(* end; a command comes back to it in the end, and the non-realtime thread *)
(* is signalled at the end of each callback.                               *)
Fairness ==
  /\ WF_vars(ProcessOSCPacket \/ UnrollNested \/ UnrollReturn)
  /\ WF_vars(RunBegin)
  /\ SF_vars(\E p \in commands : PerformCompletionMsg(p))
  /\ WF_vars(ToEngineDone \/ PerformToEngineMsg \/ OscDone \/ PerformEvent)
  /\ WF_vars(BlockDone) /\ SF_vars(BlockDone /\ rt' = "idle")
  /\ WF_vars(FreeOSCPacket)

FairSpec == Spec /\ Fairness

-----------------------------------------------------------------------------
Ids == 1..Len(packets)

TypeOK ==
  /\ live \subseteq Ids /\ commands \subseteq Ids
  /\ received \in 0..MaxReceived
  /\ \A i \in 1..Len(net) : net[i].packet \in Ids /\ net[i].sent \in BOOLEAN
  /\ osc \in Seq(Ids \cup {Null}) /\ oscRead \in 0..Len(osc)
  /\ fromEngine \in Seq(Ids \cup {Null}) /\ fromRead \in 0..Len(fromEngine)
  /\ Len(osc) <= OscFifo /\ Len(fromEngine) <= FromFifo
  /\ Cardinality(scheduler) <= N /\ counter \in Nat
  /\ \A e \in scheduler : e.packet \in Ids /\ e.count < counter
  /\ rt \in {"idle", "toEngine", "osc", "events"} /\ now \in 0..LastBlock

Count(s, p) == Cardinality({i \in 1..Len(s) : s[i] = p})

(* Those who will free packet p: a call of UnrollOSCPacket that has not    *)
(* passed it on, a message of a fifo, an event, a command.                 *)
Owners(p) ==
  Cardinality({i \in 1..Len(net) : net[i].packet = p /\ ~net[i].sent})
  + Count(osc, p) + Count(fromEngine, p)
  + Cardinality({e \in scheduler : e.packet = p})
  + Cardinality(commands \cap {p})

(* The packets that have messages.  A bundle of bundles has none of its    *)
(* own: nobody is given its packet, and nobody frees it.                   *)
Carriers == {p \in Ids : packets[p].meant # << >>}

(* A packet that has not been freed has one owner, who will free it, and   *)
(* nobody holds one that was freed: it is neither lost nor freed twice by  *)
(* the threads that pass it on.                                            *)
OneOwner == \A p \in Carriers : Owners(p) = IF p \in live THEN 1 ELSE 0

(* No packet is performed twice, and what is performed is what the client  *)
(* sent, each message of it in its order.                                  *)
PerformedAsSent ==
  \A i \in 1..Len(performed) :
    /\ performed[i].found = packets[performed[i].packet].meant
    /\ \A j \in 1..Len(performed) :
         performed[i].packet = performed[j].packet => i = j

WasPerformed(p) == \E i \in 1..Len(performed) : performed[i].packet = p

Waiting(p) ==
  p \in commands \/ \E i \in (oscRead + 1)..Len(osc) : osc[i] = p

(* Every packet that was accepted, or that a command completes with, is    *)
(* performed in the end, late ones too.                                    *)
AllPerformed ==
  \A p \in 1..(2 * MaxReceived) : Waiting(p) ~> WasPerformed(p)
=============================================================================
