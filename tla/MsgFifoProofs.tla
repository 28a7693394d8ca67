--------------------------- MODULE MsgFifoProofs ---------------------------
(***************************************************************************)
(* MsgFifo for every size of the ring and every number of messages: what   *)
(* Write has accepted is not overwritten before it was reclaimed, and the  *)
(* ring implements the queue of MsgQueue.  The argument is that each       *)
(* position is the length of a history modulo N, and that the histories    *)
(* stay less than a round apart.                                           *)
(***************************************************************************)
EXTENDS MsgFifo, TLAPS

\* The messages whose slots the reader has given back: not yet the one that
\* it is performing.
GivenBack == Len(performed) - (IF reader = "performing" THEN 1 ELSE 0)

\* The messages whose slots the writer may use again: not yet the one that it
\* is reclaiming.
Reusable == Len(freed) - (IF writer = "freeing" THEN 1 ELSE 0)

\* Each position is the length of a history, modulo N.
Positions ==
  /\ writeHead = Len(accepted) % N
  /\ readHead = GivenBack % N
  /\ reclaims => freeHead = Reusable % N
  /\ ~reclaims => writer # "freeing" /\ Len(freed) = GivenBack

\* The histories follow one another, less than a round apart; the slot that is
\* being written is free.
Chase ==
  /\ Len(freed) <= GivenBack
  /\ reader = "performing" => Len(performed) > 0
  /\ writer = "freeing" => Len(freed) > 0
  /\ Len(performed) <= Len(accepted)
  /\ Len(accepted) - Reusable <= N - 1
  /\ writer = "writing" => /\ Len(accepted) - Reusable < N - 1
                           /\ items[(Len(accepted) + 1) % N] \in Msg

\* What was performed and reclaimed is what was accepted.
InOrder ==
  /\ \A k \in 1..Len(performed) : performed[k] = accepted[k]
  /\ \A k \in 1..Len(freed) : freed[k] = accepted[k]

IndInv == TypeOK /\ Positions /\ Chase /\ HeldIntact /\ InOrder
-----------------------------------------------------------------------------
(* Arithmetic modulo N, which the code does with a mask. *)

\* Quotient and remainder.
LEMMA ModDef ==
  \A a \in Nat : /\ a \div N \in Nat
                 /\ a % N \in Slot
                 /\ a = N * (a \div N) + (a % N)
  BY FifoAssumption DEF Slot

\* The remainder is unique.
LEMMA ModUnique == \A q \in Int, r \in Slot : (N * q + r) % N = r
  BY FifoAssumption DEF Slot

\* Advancing a position is adding a message to the history.
LEMMA NextPosMod == \A a \in Nat : NextPos(a % N) = (a + 1) % N
<1> SUFFICES ASSUME NEW a \in Nat PROVE ((a % N) + 1) % N = (a + 1) % N
  BY DEF NextPos
<1> DEFINE q == a \div N
           r == a % N
<1>1. q \in Nat /\ r \in Slot /\ a = N * q + r
  BY ModDef
<1>2. CASE r + 1 < N
  <2>1. (N * q + (r + 1)) % N = r + 1
    BY <1>1, <1>2, FifoAssumption, ModUnique DEF Slot
  <2>2. (N * 0 + (r + 1)) % N = r + 1
    BY <1>1, <1>2, FifoAssumption, ModUnique DEF Slot
  <2>3. a + 1 = N * q + (r + 1) /\ N * 0 + (r + 1) = r + 1
    BY <1>1, FifoAssumption DEF Slot
  <2> HIDE DEF q, r
  <2>4. QED
    BY <2>1, <2>2, <2>3 DEF r
<1>3. CASE r + 1 = N
  <2>1. (N * (q + 1) + 0) % N = 0
    BY <1>1, FifoAssumption, ModUnique DEF Slot
  <2>2. (N * 1 + 0) % N = 0
    BY <1>1, FifoAssumption, ModUnique DEF Slot
  <2>3. a + 1 = N * (q + 1) + 0 /\ N * 1 + 0 = r + 1
    BY <1>1, <1>3, FifoAssumption DEF Slot
  <2> HIDE DEF q, r
  <2>4. QED
    BY <2>1, <2>2, <2>3 DEF r
<1>4. QED
  BY <1>1, <1>2, <1>3, FifoAssumption DEF Slot

\* A round further is the same slot.
LEMMA ModRound == \A a \in Nat : (a + N) % N = a % N
<1> SUFFICES ASSUME NEW a \in Nat PROVE (a + N) % N = a % N
  OBVIOUS
<1> DEFINE q == a \div N
           r == a % N
<1>1. q \in Nat /\ r \in Slot /\ a = N * q + r
  BY ModDef
<1> HIDE DEF q, r
<1>2. a + N = N * (q + 1) + r
  BY <1>1, FifoAssumption DEF Slot
<1>3. QED
  BY <1>1, <1>2, ModUnique DEF r

\* Less than a round apart, different messages are in different slots.
LEMMA ModApart == \A a, b \in Nat : a < b /\ b < a + N => a % N # b % N
<1> SUFFICES ASSUME NEW a \in Nat, NEW b \in Nat, a < b, b < a + N, a % N = b % N
             PROVE  FALSE
  OBVIOUS
<1> DEFINE q == a \div N
           r == a % N
           s == b \div N
<1>1. /\ q \in Nat /\ s \in Nat /\ r \in Slot
      /\ a = N * q + r /\ b = N * s + r
  BY ModDef
<1>2. N * (s - q) = b - a
  BY <1>1, FifoAssumption DEF Slot
<1> HIDE DEF q, r, s
<1>3. s - q = 0
  BY <1>1, <1>2, FifoAssumption
<1>4. QED
  BY <1>1, <1>2, <1>3, FifoAssumption
-----------------------------------------------------------------------------
\* The lengths of the histories are naturals.
LEMMA Lengths ==
  TypeOK => /\ {Len(accepted), Len(performed), Len(freed)} \subseteq Nat
            /\ accepted \in Seq(Msg) /\ performed \in Seq(Msg) /\ freed \in Seq(Msg)
            /\ writeHead \in Slot /\ readHead \in Slot /\ freeHead \in Slot
  BY DEF TypeOK

\* The invariant holds at the start.
LEMMA InitInd == Init => IndInv
<1> SUFFICES ASSUME Init PROVE IndInv
  OBVIOUS
<1>1. 0 \in Slot /\ 0 % N = 0
  <2>1. 0 \in Slot
    BY FifoAssumption DEF Slot
  <2>2. (N * 0 + 0) % N = 0 /\ N * 0 + 0 = 0
    BY <2>1, ModUnique, FifoAssumption
  <2>3. QED
    BY <2>1, <2>2
<1>2. TypeOK
  BY <1>1 DEF Init, TypeOK
<1>3. QED
  BY <1>1, <1>2, FifoAssumption
  DEF Init, IndInv, Positions, Chase, HeldIntact, InOrder, GivenBack, Reusable

\* Write puts the message into a slot that holds nothing.
LEMMA WriteItemStep ==
  ASSUME IndInv, NEW m \in Msg, WriteItem(m)
  PROVE  IndInv'
<1> USE DEF IndInv, WriteItem, history
<1>0. TypeOK /\ Len(accepted) \in Nat /\ Len(performed) \in Nat /\ Len(freed) \in Nat
  BY Lengths
<1> DEFINE slot == (Len(accepted) + 1) % N
<1>1. NextPos(writeHead) = slot /\ slot \in Slot
  BY <1>0, NextPosMod, ModDef DEF Positions
<1> HIDE DEF slot
<1>2. items' = [items EXCEPT ![slot] = m] /\ items' \in [Slot -> Msg \cup {NoMsg}]
  BY <1>1 DEF TypeOK
<1>3. TypeOK'
  BY <1>2 DEF TypeOK
<1>4. Positions'
  BY DEF Positions, GivenBack, Reusable
<1>5. Len(accepted) - Reusable < N - 1
  <2> SUFFICES ASSUME Len(accepted) - Reusable = N - 1 PROVE FALSE
    BY <1>0, FifoAssumption DEF Chase, Reusable
  <2> DEFINE old == IF reclaims THEN Len(freed) ELSE GivenBack
  <2>1. old \in Nat /\ old = Len(freed) /\ Reusable = Len(freed)
    BY <1>0 DEF Positions, Reusable
  <2>2. Full(slot) <=> slot = old % N
    BY <2>1 DEF Full, Positions, Reusable
  <2>3. Len(accepted) + 1 = old + N
    BY <2>1, <1>0, FifoAssumption
  <2>4. slot = old % N
    BY <2>1, <2>3, ModRound DEF slot
  <2>5. QED
    BY <2>2, <2>4, <1>1
<1>6. Chase'
  <2>1. items'[slot] = m
    BY <1>1, <1>2 DEF TypeOK
  <2>2. QED
    BY <1>0, <1>5, <2>1 DEF Chase, GivenBack, Reusable, slot
<1>7. HeldIntact'
  <2> SUFFICES ASSUME NEW k \in (Len(freed) + 1)..Len(accepted)
               PROVE  items'[k % N] = accepted[k]
    BY DEF HeldIntact
  <2>1. k \in Nat /\ k < Len(accepted) + 1 /\ Len(accepted) + 1 < k + N
    BY <1>0, <1>5, FifoAssumption DEF Reusable
  <2>2. k % N # slot /\ k % N \in Slot
    BY <1>0, <2>1, ModApart, ModDef DEF slot
  <2>3. items'[k % N] = items[k % N]
    BY <2>2, <1>2 DEF TypeOK
  <2>4. QED
    BY <2>3 DEF HeldIntact
<1>8. InOrder'
  BY DEF InOrder
<1>9. QED
  BY <1>3, <1>4, <1>6, <1>7, <1>8

\* The message that is published is in its slot.
LEMMA WritePublishStep ==
  ASSUME IndInv, WritePublish
  PROVE  IndInv'
<1> USE DEF IndInv, WritePublish
<1>0. TypeOK /\ Len(accepted) \in Nat /\ Len(performed) \in Nat /\ Len(freed) \in Nat
      /\ accepted \in Seq(Msg)
  BY Lengths
<1> DEFINE slot == (Len(accepted) + 1) % N
<1>1. NextPos(writeHead) = slot /\ slot \in Slot
  BY <1>0, NextPosMod, ModDef DEF Positions
<1>2. items[slot] \in Msg
  BY DEF Chase
<1> HIDE DEF slot
<1>3. /\ accepted' = Append(accepted, items[slot]) /\ accepted' \in Seq(Msg)
      /\ Len(accepted') = Len(accepted) + 1
      /\ accepted'[Len(accepted) + 1] = items[slot]
      /\ \A k \in 1..Len(accepted) : accepted'[k] = accepted[k]
  BY <1>0, <1>1, <1>2
<1>4. TypeOK'
  BY <1>1, <1>3 DEF TypeOK
<1>5. Positions'
  BY <1>1, <1>3 DEF Positions, GivenBack, Reusable, slot
<1>6. Chase'
  BY <1>0, <1>3, FifoAssumption DEF Chase, GivenBack, Reusable
<1>7. HeldIntact'
  <2> SUFFICES ASSUME NEW k \in (Len(freed) + 1)..(Len(accepted) + 1)
               PROVE  items[k % N] = accepted'[k]
    BY <1>3 DEF HeldIntact
  <2>1. CASE k = Len(accepted) + 1
    BY <2>1, <1>3 DEF slot
  <2>2. CASE k # Len(accepted) + 1
    BY <2>2, <1>0, <1>3 DEF HeldIntact
  <2>3. QED
    BY <2>1, <2>2
<1>8. InOrder'
  BY <1>0, <1>3 DEF InOrder, Chase, GivenBack
<1>9. QED
  BY <1>4, <1>5, <1>6, <1>7, <1>8

\* Free finds the oldest message that was performed and not reclaimed.
LEMMA FreeItemStep ==
  ASSUME IndInv, FreeItem
  PROVE  /\ IndInv'
         /\ Len(freed) < Len(performed)
         /\ freed' = Append(freed, performed[Len(freed) + 1])
<1> USE DEF IndInv, FreeItem, ring
<1>0. /\ TypeOK /\ Len(accepted) \in Nat /\ Len(performed) \in Nat /\ Len(freed) \in Nat
      /\ freed \in Seq(Msg) /\ accepted \in Seq(Msg)
  BY Lengths
<1>1. Reusable = Len(freed) /\ GivenBack \in Nat
  BY <1>0 DEF Reusable, Chase, GivenBack
<1>2. Len(freed) < GivenBack
  BY <1>0, <1>1 DEF Positions, Chase
<1> DEFINE k == Len(freed) + 1
<1>3. k \in Nat /\ k <= Len(performed) /\ k <= Len(accepted)
  BY <1>0, <1>2 DEF GivenBack, Chase
<1>4. FreeSlot(freeHead) = k % N
  BY <1>0, <1>1, NextPosMod DEF FreeSlot, Positions
<1>5. items[k % N] = accepted[k] /\ accepted[k] = performed[k] /\ accepted[k] \in Msg
  BY <1>0, <1>3 DEF HeldIntact, InOrder
<1> HIDE DEF k
<1>6. /\ freed' = Append(freed, accepted[k]) /\ freed' \in Seq(Msg)
      /\ Len(freed') = Len(freed) + 1 /\ freed'[k] = accepted[k]
      /\ \A j \in 1..Len(freed) : freed'[j] = freed[j]
  BY <1>0, <1>4, <1>5 DEF k
<1>7. TypeOK'
  BY <1>6 DEF TypeOK
<1>8. Positions'
  BY <1>0, <1>1, <1>6 DEF Positions, GivenBack, Reusable
<1>9. Chase'
  BY <1>0, <1>1, <1>2, <1>6 DEF Chase, GivenBack, Reusable
<1>10. HeldIntact'
  BY <1>0, <1>6 DEF HeldIntact
<1>11. InOrder'
  BY <1>0, <1>6 DEF InOrder, k
<1>12. QED
  BY <1>3, <1>5, <1>6, <1>7, <1>8, <1>9, <1>10, <1>11, <1>0 DEF k

\* Advancing mFreeHead gives the slot back to the writer.
LEMMA FreeAdvanceStep ==
  ASSUME IndInv, FreeAdvance
  PROVE  IndInv'
<1> USE DEF IndInv, FreeAdvance, history
<1>0. TypeOK /\ Len(accepted) \in Nat /\ Len(performed) \in Nat /\ Len(freed) \in Nat
  BY Lengths
<1>1. Reusable = Len(freed) - 1 /\ Reusable \in Nat /\ reclaims
  BY <1>0 DEF Reusable, Chase, Positions
<1>2. freeHead' = Len(freed) % N
  BY <1>0, <1>1, NextPosMod DEF Positions
<1>3. Len(freed) % N \in Slot
  BY <1>0, ModDef
<1>4. TypeOK'
  BY <1>2, <1>3 DEF TypeOK
<1>5. Positions'
  BY <1>0, <1>1, <1>2 DEF Positions, GivenBack, Reusable
<1>6. Chase'
  BY <1>0, <1>1, FifoAssumption DEF Chase, GivenBack, Reusable
<1>7. QED
  BY <1>4, <1>5, <1>6 DEF HeldIntact, InOrder

\* Perform finds the oldest message that was accepted and not performed.
LEMMA PerformItemStep ==
  ASSUME IndInv, PerformItem
  PROVE  /\ IndInv'
         /\ Len(performed) < Len(accepted)
         /\ performed' = Append(performed, accepted[Len(performed) + 1])
<1> USE DEF IndInv, PerformItem, ring
<1>0. /\ TypeOK /\ Len(accepted) \in Nat /\ Len(performed) \in Nat /\ Len(freed) \in Nat
      /\ performed \in Seq(Msg) /\ accepted \in Seq(Msg)
  BY Lengths
<1>1. GivenBack = Len(performed)
  BY <1>0 DEF GivenBack
<1> DEFINE k == Len(performed) + 1
<1>2. k \in Nat /\ k <= Len(accepted) /\ Len(freed) < k
  BY <1>0, <1>1 DEF HasData, Positions, Chase
<1>3. NextPos(readHead) = k % N
  BY <1>0, <1>1, NextPosMod DEF Positions
<1>4. items[k % N] = accepted[k] /\ accepted[k] \in Msg
  BY <1>0, <1>2 DEF HeldIntact
<1> HIDE DEF k
<1>5. /\ performed' = Append(performed, accepted[k]) /\ performed' \in Seq(Msg)
      /\ Len(performed') = Len(performed) + 1 /\ performed'[k] = accepted[k]
      /\ \A j \in 1..Len(performed) : performed'[j] = performed[j]
  BY <1>0, <1>3, <1>4 DEF k
<1>6. TypeOK'
  BY <1>5 DEF TypeOK
<1>7. Positions'
  BY <1>0, <1>1, <1>5 DEF Positions, GivenBack, Reusable
<1>8. Chase'
  BY <1>0, <1>1, <1>2, <1>5 DEF Chase, GivenBack, Reusable, k
<1>9. HeldIntact'
  BY DEF HeldIntact
<1>10. InOrder'
  BY <1>0, <1>5 DEF InOrder, k
<1>11. QED
  BY <1>2, <1>5, <1>6, <1>7, <1>8, <1>9, <1>10, <1>0 DEF k

\* A MsgFifoNoFree reclaims the message by giving it back.
LEMMA PerformAdvanceStep ==
  ASSUME IndInv, PerformAdvance
  PROVE  /\ IndInv'
         /\ reclaims => freed' = freed
         /\ ~reclaims => /\ Len(freed) < Len(performed)
                         /\ freed' = Append(freed, performed[Len(freed) + 1])
<1> USE DEF IndInv, PerformAdvance
<1>0. /\ TypeOK /\ Len(accepted) \in Nat /\ Len(performed) \in Nat /\ Len(freed) \in Nat
      /\ freed \in Seq(Msg) /\ accepted \in Seq(Msg)
  BY Lengths
<1>1. GivenBack = Len(performed) - 1 /\ GivenBack \in Nat
  BY <1>0 DEF GivenBack, Chase
<1>2. readHead' = Len(performed) % N /\ NextPos(readHead) = Len(performed) % N
  BY <1>0, <1>1, NextPosMod DEF Positions
<1>3. Len(performed) % N \in Slot
  BY <1>0, ModDef
<1>4. GivenBack' = Len(performed)
  BY <1>0 DEF GivenBack
<1>5. CASE reclaims
  <2>1. TypeOK'
    BY <1>2, <1>3, <1>5 DEF TypeOK
  <2>2. Positions'
    BY <1>0, <1>2, <1>4, <1>5 DEF Positions, Reusable
  <2>3. Chase'
    BY <1>0, <1>1, <1>4, <1>5 DEF Chase, Reusable
  <2>4. QED
    BY <1>5, <2>1, <2>2, <2>3 DEF HeldIntact, InOrder
<1>6. CASE ~reclaims
  <2> DEFINE k == Len(freed) + 1
  <2>1. k = Len(performed) /\ k \in Nat /\ k <= Len(accepted) /\ writer # "freeing"
    BY <1>0, <1>1, <1>6 DEF Positions, Chase
  <2>2. items[k % N] = accepted[k] /\ accepted[k] \in Msg /\ performed[k] = accepted[k]
    BY <1>0, <2>1 DEF HeldIntact, InOrder
  <2>3. freed' = Append(freed, accepted[k])
    BY <1>2, <1>6, <2>1, <2>2
  <2>4. /\ freed' \in Seq(Msg) /\ Len(freed') = k /\ freed'[k] = accepted[k]
        /\ \A j \in 1..Len(freed) : freed'[j] = freed[j]
    BY <1>0, <2>2, <2>3
  <2> HIDE DEF k
  <2>5. TypeOK'
    BY <1>2, <1>3, <2>4 DEF TypeOK
  <2>6. Positions'
    BY <1>0, <1>2, <1>4, <1>6, <2>1, <2>4 DEF Positions, Reusable
  <2>7. Chase'
    BY <1>0, <1>1, <1>4, <1>6, <2>1, <2>4, FifoAssumption DEF Chase, Reusable, Positions, k
  <2>8. HeldIntact'
    BY <1>0, <2>4 DEF HeldIntact, k
  <2>9. InOrder'
    BY <1>0, <2>4 DEF InOrder, k
  <2>10. QED
    BY <1>6, <2>1, <2>2, <2>3, <2>5, <2>6, <2>7, <2>8, <2>9, <1>0 DEF k
<1>7. QED
  BY <1>5, <1>6
-----------------------------------------------------------------------------
\* A stutter preserves the invariant.
LEMMA UnchangedStep ==
  ASSUME IndInv, UNCHANGED vars
  PROVE  IndInv'
  BY DEF IndInv, TypeOK, Positions, Chase, HeldIntact, InOrder, GivenBack, Reusable, vars

\* The positions of MsgFifo and MsgFifoNoFree are always the lengths of the
\* histories modulo N, and the histories less than a round apart.
THEOREM Inductive == Spec => []IndInv
<1>1. IndInv /\ [Next]_vars => IndInv'
  <2> SUFFICES ASSUME IndInv, [Next]_vars PROVE IndInv'
    OBVIOUS
  <2>1. CASE UNCHANGED vars \/ WriteRefused
    BY <2>1, UnchangedStep DEF WriteRefused
  <2>2. CASE \E m \in Msg : WriteItem(m)
    BY <2>2, WriteItemStep
  <2>3. CASE WritePublish
    BY <2>3, WritePublishStep
  <2>4. CASE FreeItem
    BY <2>4, FreeItemStep
  <2>5. CASE FreeAdvance
    BY <2>5, FreeAdvanceStep
  <2>6. CASE PerformItem
    BY <2>6, PerformItemStep
  <2>7. CASE PerformAdvance
    BY <2>7, PerformAdvanceStep
  <2>8. QED
    BY <2>1, <2>2, <2>3, <2>4, <2>5, <2>6, <2>7 DEF Next, Writer, Reader
<1>2. QED
  BY InitInd, <1>1, PTL DEF Spec

\* A message that Write has accepted is in its slot until it was reclaimed, for
\* rings of every size.
THEOREM Intact == Spec => []HeldIntact
<1>1. IndInv => HeldIntact
  BY DEF IndInv
<1>2. QED
  BY Inductive, <1>1, PTL

\* MsgFifo and MsgFifoNoFree implement the bounded queue: WritePublish accepts,
\* PerformItem performs, FreeItem or, without reclaiming, PerformAdvance frees.
THEOREM Implements == Spec => ImplementsQueue
<1>1. Init => Queue!Init
  BY DEF Init, Queue!Init
<1>2. IndInv /\ [Next]_vars => [Queue!Next]_Queue!vars
  <2> SUFFICES ASSUME IndInv, [Next]_vars PROVE [Queue!Next]_Queue!vars
    OBVIOUS
  <2>0. /\ TypeOK /\ Len(accepted) \in Nat /\ Len(performed) \in Nat /\ Len(freed) \in Nat
    BY Lengths DEF IndInv
  <2>1. CASE UNCHANGED history
    BY <2>1 DEF history, Queue!vars
  <2>2. CASE WritePublish
    <3> DEFINE m == items[NextPos(writeHead)]
    <3>1. m \in Msg
      BY <2>0, <2>2, NextPosMod DEF WritePublish, IndInv, Chase, Positions
    <3>2. Len(accepted) - Len(freed) < N - 1
      BY <2>0, <2>2 DEF WritePublish, IndInv, Chase, Reusable
    <3>3. Queue!Accept(m)
      BY <2>2, <3>2 DEF WritePublish, Queue!Accept
    <3>4. QED
      BY <3>1, <3>3 DEF Queue!Next
  <2>3. CASE FreeItem
    <3>1. Queue!Free
      BY <2>3, FreeItemStep DEF FreeItem, Queue!Free
    <3>2. QED
      BY <3>1 DEF Queue!Next
  <2>4. CASE PerformItem
    <3>1. Queue!Perform
      BY <2>4, PerformItemStep DEF PerformItem, Queue!Perform
    <3>2. QED
      BY <3>1 DEF Queue!Next
  <2>5. CASE PerformAdvance
    <3>1. CASE reclaims
      BY <3>1, <2>5, PerformAdvanceStep DEF PerformAdvance, Queue!vars
    <3>2. CASE ~reclaims
      <4>1. Queue!Free
        BY <3>2, <2>5, PerformAdvanceStep DEF PerformAdvance, Queue!Free
      <4>2. QED
        BY <4>1 DEF Queue!Next
    <3>3. QED
      BY <3>1, <3>2
  <2>6. QED
    BY <2>1, <2>2, <2>3, <2>4, <2>5
    DEF Next, Writer, Reader, vars, history, WriteRefused, WriteItem, FreeAdvance
<1>3. QED
  BY Inductive, <1>1, <1>2, PTL DEF Spec, ImplementsQueue, Queue!Spec

=============================================================================
