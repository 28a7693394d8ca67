------------------------------ MODULE MsgFifo --------------------------------
(***************************************************************************)
(* SCMsgFifo::MsgFifo and MsgFifoNoFree, the lock-free rings that connect  *)
(* scsynth's audio thread with its other threads: one thread writes (and,  *)
(* for MsgFifo, reclaims), another one performs.                           *)
(*                                                                         *)
(* Three positions chase each other around the ring: mWriteHead is behind  *)
(* a new message, mReadHead follows it as messages are performed, and      *)
(* mFreeHead follows mReadHead as they are reclaimed by the writer.        *)
(* MsgFifoNoFree has no third position: a slot is free once performed.     *)
(*                                                                         *)
(* Each access that the other thread can see is a step of its own, and the *)
(* steps are interleaved (sequentially consistent memory).                 *)
(***************************************************************************)
EXTENDS Integers, Sequences

CONSTANTS
  N,         \* the size of the ring
  Msg,       \* the messages
  NoMsg,     \* a slot of the ring that was never written
  MaxWrites  \* bound on the messages accepted

\* The code masks with N - 1: N is a power of two.
ASSUME FifoAssumption ==
  /\ N \in Nat \ {0, 1}
  /\ NoMsg \notin Msg
  /\ MaxWrites \in Nat

Slot == 0..(N - 1)

VARIABLES
  reclaims,   \* TRUE: a MsgFifo; FALSE: a MsgFifoNoFree; never changes
  items,      \* mItems
  writeHead,  \* mWriteHead
  readHead,   \* mReadHead
  freeHead,   \* mFreeHead
  writer,     \* where the writing thread is: "idle", "writing", "freeing"
  reader,     \* where the performing thread is: "idle", "performing"
  accepted,   \* history: the messages Write stored
  performed,  \* history: the messages performed
  freed       \* history: the messages reclaimed

ring == <<items, writeHead, readHead, freeHead>>
history == <<accepted, performed, freed>>
vars == <<reclaims, items, writeHead, readHead, freeHead, writer, reader, accepted,
          performed, freed>>

Init ==
  /\ reclaims \in BOOLEAN
  /\ items = [i \in Slot |-> NoMsg]
  /\ writeHead = 0
  /\ readHead = 0
  /\ freeHead = 0
  /\ writer = "idle"
  /\ reader = "idle"
  /\ accepted = <<>>
  /\ performed = <<>>
  /\ freed = <<>>

NextPos(pos) == (pos + 1) % N
-----------------------------------------------------------------------------
(* The writing thread. *)

\* Mutation: MsgFifo tests the read position, like MsgFifoNoFree.
FullAtRead(next) == next = readHead

\* The position behind the last message that Write may not reach.
Full(next) == next = (IF reclaims THEN freeHead ELSE readHead)

\* Write finds the ring full and returns false.
WriteRefused ==
  /\ writer = "idle"
  /\ Full(NextPos(writeHead))
  /\ UNCHANGED vars

\* Write: "mItems[next] = data"
WriteItem(m) ==
  /\ writer = "idle"
  /\ ~Full(NextPos(writeHead))
  /\ Len(accepted) < MaxWrites
  /\ items' = [items EXCEPT ![NextPos(writeHead)] = m]
  /\ writer' = "writing"
  /\ UNCHANGED <<reclaims, writeHead, readHead, freeHead, reader, history>>

\* Write: mWriteHead.store, which hands the message over.
WritePublish ==
  /\ writer = "writing"
  /\ writeHead' = NextPos(writeHead)
  /\ writer' = "idle"
  /\ accepted' = Append(accepted, items[NextPos(writeHead)])
  /\ UNCHANGED <<reclaims, items, readHead, freeHead, reader, performed, freed>>

\* Mutation: the message at the position itself, which has been reclaimed.
FreeSlotBehind(pos) == pos

\* The slot that Free reclaims next.
FreeSlot(pos) == NextPos(pos)

\* Free: NeedsFree, and the item's Free().
FreeItem ==
  /\ reclaims
  /\ writer = "idle"
  /\ freeHead # readHead
  /\ writer' = "freeing"
  /\ freed' = Append(freed, items[FreeSlot(freeHead)])
  /\ UNCHANGED <<reclaims, ring, reader, accepted, performed>>

\* Free: mFreeHead.store
FreeAdvance ==
  /\ writer = "freeing"
  /\ freeHead' = NextPos(freeHead)
  /\ writer' = "idle"
  /\ UNCHANGED <<reclaims, items, writeHead, readHead, reader, history>>
-----------------------------------------------------------------------------
(* The performing thread. *)

HasData == readHead # writeHead

\* Perform: HasData, and the item's Perform().
PerformItem ==
  /\ reader = "idle"
  /\ HasData
  /\ reader' = "performing"
  /\ performed' = Append(performed, items[NextPos(readHead)])
  /\ UNCHANGED <<reclaims, ring, writer, accepted, freed>>

\* Perform: mReadHead.store, which gives the message back.
PerformAdvance ==
  /\ reader = "performing"
  /\ readHead' = NextPos(readHead)
  /\ reader' = "idle"
  /\ freed' = IF reclaims THEN freed
              ELSE Append(freed, items[NextPos(readHead)])
  /\ UNCHANGED <<reclaims, items, writeHead, freeHead, writer, accepted, performed>>
-----------------------------------------------------------------------------
Writer ==
  \/ WriteRefused
  \/ \E m \in Msg : WriteItem(m)
  \/ WritePublish
  \/ FreeItem
  \/ FreeAdvance

Reader == PerformItem \/ PerformAdvance

Next == Writer \/ Reader

Spec == Init /\ [][Next]_vars

\* The audio callback and the driver's own thread call Perform over and over.
FairSpec == Spec /\ WF_vars(Reader)
-----------------------------------------------------------------------------
(* Properties *)

\* The positions are slots, the histories are messages.
TypeOK ==
  /\ reclaims \in BOOLEAN
  /\ items \in [Slot -> Msg \cup {NoMsg}]
  /\ {writeHead, readHead, freeHead} \subseteq Slot
  /\ writer \in {"idle", "writing", "freeing"}
  /\ reader \in {"idle", "performing"}
  /\ {accepted, performed, freed} \subseteq Seq(Msg)

\* A message that Write has accepted stays in its slot, untouched, until it has
\* been reclaimed: a late reader and a fast writer never meet in a slot.
HeldIntact ==
  \A k \in (Len(freed) + 1)..Len(accepted) : items[k % N] = accepted[k]

Queue == INSTANCE MsgQueue WITH Capacity <- N - 1

\* The ring implements the abstract queue: the messages performed are those
\* accepted, in order and once each, and so are the ones reclaimed.
ImplementsQueue == Queue!Spec

=============================================================================
