--------------------------- MODULE GarbageCollector ---------------------------
(***************************************************************************)
(* The garbage collector of sclang (lang/LangSource/GC.h, GC.cpp) and the  *)
(* operations of the interpreter that it has to keep up with: bytecodes    *)
(* and array primitives that move references (PyrInterpreter3.cpp,         *)
(* PyrArrayPrimitives.cpp), primitives that allocate with collection       *)
(* delayed and threads that exchange stacks (PyrPrimitive.cpp).            *)
(*                                                                         *)
(* Everything runs under the language mutex, so a Collect() is not         *)
(* interrupted by the program; what is incremental is that it stops when   *)
(* the scan credit mNumToScan is used up and that the program changes the  *)
(* heap before the next one.  The credit is abstracted to the Boolean      *)
(* "more": each test of it may find it used up.  The size classes share    *)
(* one treadmill here, a cell returned to the pool counts as free, and     *)
(* the slots of the stack above sp, which hold stale values, are dropped.  *)
(***************************************************************************)
EXTENDS Naturals, Sequences, SequencesExt, FiniteSets

CONSTANTS
    Process,     \* the root object, mProcess
    Main,        \* the main thread
    Routines,    \* the other threads
    StackOf,     \* the stack array each thread is created with
    SpareStacks, \* cells for the arrays reallocStack allocates
    Cells,       \* cells for arrays, instances, closures and frames
    FinCells,    \* cells of the finalizer set
    Nil,
    MaxSlots,    \* bound: slots of an array
    FlipPeriod,  \* every FlipPeriod-th flip is a major one (4 in the code)
    Programs     \* the programs: the families of operations each uses, and
                 \* bounds on the cells it has at a time and on its stack

Threads == {Main} \cup Routines
Stacks == {StackOf[t] : t \in Threads} \cup SpareStacks
Objs == {Process} \cup Threads \cup Stacks \cup Cells \cup FinCells

Families == {"array", "call", "thread", "primitive", "finalizer", "freeze", "realloc",
             "classvar"}

ASSUME GCAssumption ==
    /\ Nil \notin Objs
    /\ MaxSlots \in Nat /\ MaxSlots >= 2
    /\ FlipPeriod \in Nat \ {0}
    /\ StackOf \in [Threads -> Stacks] /\ IsInjective(StackOf)
    /\ IsFiniteSet(Objs)
    /\ Programs \subseteq [ops : SUBSET Families, cells : Nat, stack : Nat \ {0}]

\* The kinds of objects, and the threads' own stacks and the spare ones, are apart.
ASSUME ObjectsAssumption ==
    /\ Process \notin Threads \cup Stacks \cup Cells \cup FinCells
    /\ Main \notin Routines
    /\ Threads \cap (Stacks \cup Cells \cup FinCells) = {}
    /\ Stacks \cap (Cells \cup FinCells) = {}
    /\ Cells \cap FinCells = {}
    /\ SpareStacks \cap {StackOf[t] : t \in Threads} = {}

VARIABLES
    gc,        \* gc_color of every object, with mNumGrey
    slots,     \* the slots of every object, up to its size
    mStack,    \* the stack array in use
    frame,     \* g->frame, the current call frame
    frames,    \* the cells that are frames (class_frame)
    partial,   \* mPartialScanObj with mPartialScanSlot
    mFlips,    \* number of flips, modulo FlipPeriod
    collect,   \* a Collect() in progress: whether it runs, its credit, stackScanned
    delay,     \* mDelayCollection, mAttemptedToCollectWhenDelayed, the primitive's locals
    finalized, \* history: the objects whose finalizer has run
    retired,   \* history: the arrays that reallocStack replaced
    program    \* the program that runs: it never changes

vars == <<gc, slots, mStack, frame, frames, partial, mFlips, collect, delay,
          finalized, retired, program>>

heapVars == <<gc, slots>>
scanVars == <<partial, mFlips, collect, finalized>>

Color(o) == gc.color[o]
Live(o) == Color(o) # "free"

\* The values on the stack, and what the bytecodes can name.
OnStack == Range(slots[mStack]) \ {Nil}
CurThread == slots[Process][2]

NoPartial == [obj |-> Nil, slot |-> 0]
NotCollecting == [running |-> FALSE, more |-> FALSE, stackScanned |-> FALSE]
NotDelayed == [on |-> FALSE, attempted |-> FALSE, temps |-> {}]

-----------------------------------------------------------------------------
(* The colours: operators from one value of gc to the next.                *)

SetColor(h, o, c) == [h.color EXCEPT ![o] = c]

Uncounted(h, o) == IF h.color[o] = "grey" THEN h.numGrey - 1 ELSE h.numGrey

ToBlack(h, o) == [color |-> SetColor(h, o, "black"), numGrey |-> Uncounted(h, o)]
ToWhite(h, o) == [color |-> SetColor(h, o, "white"), numGrey |-> Uncounted(h, o)]
ToGrey(h, o) == [color |-> SetColor(h, o, "grey"), numGrey |-> h.numGrey + 1]

GCWriteBlack(h, child) ==
    IF child # Nil /\ h.color[child] = "white" THEN ToGrey(h, child) ELSE h

\* Mutant: no write barrier.
NoGCWrite(h, parent, child) == h

\* The write barrier.
GCWrite(h, parent, child) ==
    IF h.color[parent] = "black" THEN GCWriteBlack(h, child) ELSE h

\* Mutant: the new child is forgotten.
NoGCWriteNew(h, parent, child) == h

\* The barrier for a child that was just allocated: it is not tested again.
GCWriteNew(h, parent, child) ==
    IF h.color[parent] = "black" THEN ToGrey(h, child) ELSE h

\* Greys the white objects among the values of a sequence of slots.
ScanSlots(h, values) ==
    LET whites == {o \in Range(values) \ {Nil} : h.color[o] = "white"}
    IN [color |-> [o \in Objs |-> IF o \in whites THEN "grey" ELSE h.color[o]],
        numGrey |-> h.numGrey + Cardinality(whites)]

-----------------------------------------------------------------------------
(* Collect(): scan, then the stack and the frames, then Flip.              *)

MoreGrey == gc.numGrey > 0 \/ partial.obj # Nil

CollectStarts ==
    /\ collect' = [running |-> TRUE, more |-> TRUE, stackScanned |-> FALSE]
    /\ UNCHANGED <<heapVars, mStack, frame, frames, partial, mFlips, delay,
                   finalized, retired, program>>

\* Mutant: the collection is not put off within a primitive.
CollectBeginInPrimitive == ~collect.running /\ CollectStarts

\* A Collect() begins: from New with enough credit, LazyCollect, FullCollection.
CollectBegin ==
    /\ ~collect.running /\ ~delay.on
    /\ CollectStarts

\* The credit left after a step that completes: it may be used up.
CreditAfter(more) == collect' = [collect EXCEPT !.more = more]

ScanVarsOnly ==
    UNCHANGED <<slots, mStack, frame, frames, mFlips, delay, finalized, retired, program>>

\* ScanOneObj for an object that fits in the credit: black, all slots scanned.
ScanOneObj(o) ==
    /\ collect.running /\ collect.more
    /\ partial.obj = Nil /\ gc.numGrey > 0
    /\ Color(o) = "grey"
    /\ gc' = ScanSlots(ToBlack(gc, o), slots[o])
    /\ \E more \in BOOLEAN : CreditAfter(more)
    /\ UNCHANGED partial
    /\ ScanVarsOnly

\* ScanOneObj for a larger object: n slots are scanned and the credit is gone.
ScanOneObjPartly(o, n) ==
    /\ collect.running /\ collect.more
    /\ partial.obj = Nil /\ gc.numGrey > 0
    /\ Color(o) = "grey"
    /\ n < Len(slots[o])
    /\ gc' = ScanSlots(ToBlack(gc, o), SubSeq(slots[o], 1, n))
    /\ partial' = [obj |-> o, slot |-> n]
    /\ CreditAfter(FALSE)
    /\ ScanVarsOnly

\* DoPartialScan that reaches the end of the object, or finds it shortened.
DoPartialScanRest ==
    /\ collect.running /\ collect.more
    /\ partial.obj # Nil
    /\ gc' = ScanSlots(gc, SubSeq(slots[partial.obj], partial.slot + 1,
                                  Len(slots[partial.obj])))
    /\ partial' = NoPartial
    /\ \E more \in BOOLEAN : CreditAfter(more)
    /\ ScanVarsOnly

\* DoPartialScan that stops again, n slots further.
DoPartialScanMore(n) ==
    /\ collect.running /\ collect.more
    /\ partial.obj # Nil
    /\ partial.slot + n < Len(slots[partial.obj])
    /\ gc' = ScanSlots(gc, SubSeq(slots[partial.obj], partial.slot + 1, partial.slot + n))
    /\ partial' = [partial EXCEPT !.slot = @ + n]
    /\ CreditAfter(FALSE)
    /\ ScanVarsOnly

\* The frames from g->frame along the callers: the least set that has the
\* first one and, with a frame, its caller.
FrameChain ==
    {f \in frames : \A S \in SUBSET frames :
        frame \in S \cup {Nil} /\ (\A k \in S : slots[k][1] \in S \cup {Nil}) => f \in S}

\* What ScanStack and ScanFrames grey.
ScanRoots(h) ==
    LET scanned == ScanSlots(h, slots[mStack])
        whites  == {f \in FrameChain : scanned.color[f] = "white"}
    IN [color |-> [o \in Objs |-> IF o \in whites THEN "grey" ELSE scanned.color[o]],
        numGrey |-> scanned.numGrey + Cardinality(whites)]

\* Nothing grey is left: the roots that have no barrier are scanned, once
\* in a Collect().
CollectRoots ==
    /\ collect.running /\ ~MoreGrey /\ ~collect.stackScanned
    /\ gc' = ScanRoots(gc)
    /\ collect' = [collect EXCEPT !.stackScanned = TRUE]
    /\ UNCHANGED partial
    /\ ScanVarsOnly

\* The white finalizers, and the objects they are for.
DyingFinalizers == {f \in FinCells : Color(f) = "white"}

Finalized == {slots[f][2] : f \in DyingFinalizers}

\* White cells become free; at a major flip black ones become white.
Flipped(h, major) ==
    [o \in Objs |-> CASE h.color[o] = "white" -> "free"
                      [] h.color[o] = "black" /\ major -> "white"
                      [] OTHER -> h.color[o]]

MajorFlip == mFlips = 0

\* Still nothing grey after the roots: Flip.  Finalize sets the first two
\* slots of the object, not of the finalizer, to nil.
Flip ==
    /\ collect.running /\ ~MoreGrey /\ collect.stackScanned
    /\ LET swept == [color |-> Flipped(gc, MajorFlip), numGrey |-> 0]
       IN gc' = ToBlack(ToGrey(swept, Process), mStack)
    /\ slots' = [o \in Objs |->
                   IF Color(o) = "white" THEN <<>>
                   ELSE IF o \in Finalized
                        THEN [i \in DOMAIN slots[o] |-> IF i <= 2 THEN Nil ELSE slots[o][i]]
                        ELSE slots[o]]
    /\ finalized' = finalized \cup Finalized
    /\ frames' = {f \in frames : Color(f) # "white"}
    /\ retired' = {s \in retired : Color(s) # "white"}
    /\ mFlips' = (mFlips + 1) % FlipPeriod
    /\ collect' = NotCollecting
    /\ UNCHANGED <<mStack, frame, partial, delay, program>>

\* The credit is used up with something left to scan.
CollectEnd ==
    /\ collect.running /\ ~collect.more /\ MoreGrey
    /\ collect' = NotCollecting
    /\ UNCHANGED <<heapVars, mStack, frame, frames, partial, mFlips, delay,
                   finalized, retired, program>>

Collector ==
    \/ CollectBegin
    \/ \E o \in {x \in Objs : Color(x) = "grey"} :
          ScanOneObj(o) \/ \E n \in 1..MaxSlots : ScanOneObjPartly(o, n)
    \/ DoPartialScanRest
    \/ \E n \in 1..MaxSlots : DoPartialScanMore(n)
    \/ CollectRoots
    \/ Flip
    \/ CollectEnd

-----------------------------------------------------------------------------
(* The program.                                                            *)

Running(family) == ~collect.running /\ ~delay.on /\ family \in program.ops

Push(v) == Append(slots[mStack], v)
ReplaceTop(v) == Append(Front(slots[mStack]), v)
Room == Len(slots[mStack]) < program.stack
Top == Last(slots[mStack])
HasTop == slots[mStack] # <<>> /\ Top \in Cells

\* A cell that New can return.
Unused(c) ==
    /\ Color(c) = "free"
    /\ Cardinality({o \in Cells : Live(o)}) < program.cells

HasFinalizer(o) == \E i \in DOMAIN slots[o] : slots[o][i] \in FinCells

\* Objects that a program may change: instances and arrays, unless frozen.
Mutable(o) == o \in Cells \ frames /\ Color(o) # "permanent"
MutableArray(o) == Mutable(o) /\ ~HasFinalizer(o)

\* What an opcode or a primitive leaves alone when it moves references only.
MovesOnly == UNCHANGED <<mStack, frame, frames, scanVars, delay, retired, program>>

\* New, then pushed: an array without elements or an instance with n slots.
New(c, n) ==
    /\ ~collect.running /\ ~delay.on /\ Room
    /\ Unused(c)
    /\ gc' = [gc EXCEPT !.color[c] = "white"]
    /\ slots' = [slots EXCEPT ![c] = [i \in 1..n |-> Nil], ![mStack] = Push(c)]
    /\ finalized' = finalized \ {c}
    /\ UNCHANGED <<mStack, frame, frames, partial, mFlips, collect, delay, retired, program>>

\* A value leaves the stack.
Pop ==
    /\ ~collect.running /\ ~delay.on
    /\ slots[mStack] # <<>>
    /\ slots' = [slots EXCEPT ![mStack] = Front(@)]
    /\ UNCHANGED gc /\ MovesOnly

\* PushInstVar, at, PushClassVar.
PushSlot(o, i) ==
    /\ ~collect.running /\ ~delay.on /\ Room
    /\ \/ o \in OnStack \cap (Cells \ frames)
       \/ o = Process /\ i = 3
    /\ i \in DOMAIN slots[o] /\ slots[o][i] \notin FinCells \cup {Nil}
    /\ slots' = [slots EXCEPT ![mStack] = Push(slots[o][i])]
    /\ UNCHANGED gc /\ MovesOnly

\* StoreInstVar, put.
PutSlot(o, i, v) ==
    /\ Running("array")
    /\ o \in OnStack /\ Mutable(o)
    /\ i \in DOMAIN slots[o] /\ slots[o][i] \notin FinCells
    /\ slots' = [slots EXCEPT ![o][i] = v]
    /\ gc' = GCWrite(gc, o, v)
    /\ MovesOnly

\* StoreClassVar: the class variables are reached from the process.
StoreClassVar(v) ==
    /\ Running("classvar")
    /\ slots' = [slots EXCEPT ![Process][3] = v]
    /\ gc' = GCWrite(gc, Process, v)
    /\ MovesOnly

\* prArrayAdd within the capacity of the array.
ArrayAdd(o, v) ==
    /\ Running("array")
    /\ o \in OnStack /\ MutableArray(o) /\ Len(slots[o]) < MaxSlots
    /\ slots' = [slots EXCEPT ![o] = Append(@, v)]
    /\ gc' = GCWrite(gc, o, v)
    /\ MovesOnly

\* prArrayInsert within the capacity: the array itself becomes grey.
ArrayInsert(o, i, v) ==
    /\ Running("array")
    /\ o \in OnStack /\ MutableArray(o) /\ Len(slots[o]) < MaxSlots
    /\ i <= Len(slots[o]) + 1
    /\ slots' = [slots EXCEPT ![o] = InsertAt(@, i, v)]
    /\ gc' = IF Color(o) = "grey" THEN gc ELSE ToGrey(gc, o)
    /\ MovesOnly

SwapColors(o, i, j) == GCWrite(GCWrite(gc, o, slots[o][i]), o, slots[o][j])

\* basicSwap.
ArraySwap(o, i, j) ==
    /\ Running("array")
    /\ o \in OnStack /\ MutableArray(o)
    /\ {i, j} \subseteq DOMAIN slots[o]
    /\ slots' = [slots EXCEPT ![o][i] = slots[o][j], ![o][j] = slots[o][i]]
    /\ gc' = SwapColors(o, i, j)
    /\ MovesOnly

\* basicTakeAt: the last element fills the gap; the element is the result.
ArrayTakeAt(o, i) ==
    /\ Running("array")
    /\ HasTop /\ o = Top /\ MutableArray(o)
    /\ i \in DOMAIN slots[o]
    /\ slots' = [slots EXCEPT ![o] = Front(ReplaceAt(@, i, Last(@))),
                              ![mStack] = ReplaceTop(slots[o][i])]
    /\ gc' = GCWrite(gc, o, Last(slots[o]))
    /\ MovesOnly

\* basicRemoveAt: the elements after i move down; only the one now at i is
\* given to the barrier.
ArrayRemoveAt(o, i) ==
    /\ Running("array")
    /\ HasTop /\ o = Top /\ MutableArray(o)
    /\ i \in DOMAIN slots[o]
    /\ slots' = [slots EXCEPT ![o] = RemoveAt(@, i), ![mStack] = ReplaceTop(slots[o][i])]
    /\ gc' = IF i < Len(slots[o]) THEN GCWrite(gc, o, slots[o][i + 1]) ELSE gc
    /\ MovesOnly

-----------------------------------------------------------------------------
(* Calls.  These are the frames of methods with needsHeapContext; those    *)
(* that are reference-counted are not modelled.  The slots of a frame are  *)
(* its caller and one variable.                                            *)

\* createFrameForExecuteMethod: the argument on top of the stack moves to
\* the frame.
Call(c) ==
    /\ Running("call")
    /\ Unused(c) /\ slots[mStack] # <<>>
    /\ gc' = [gc EXCEPT !.color[c] = "white"]
    /\ slots' = [slots EXCEPT ![c] = <<frame, Last(slots[mStack])>>, ![mStack] = Front(@)]
    /\ frame' = c
    /\ frames' = frames \cup {c}
    /\ finalized' = finalized \ {c}
    /\ UNCHANGED <<mStack, partial, mFlips, collect, delay, retired, program>>

\* returnFromMethod keeps the caller of the home context, returnFromBlock
\* clears it.
Return(keepCaller) ==
    /\ Running("call")
    /\ frame # Nil
    /\ frame' = slots[frame][1]
    /\ slots' = [slots EXCEPT ![frame][1] = IF keepCaller THEN @ ELSE Nil]
    /\ UNCHANGED <<gc, mStack, frames, scanVars, delay, retired, program>>

\* PushTempVar and StoreTempVar.
PushTempVar ==
    /\ Running("call")
    /\ frame # Nil /\ Room /\ slots[frame][2] # Nil
    /\ slots' = [slots EXCEPT ![mStack] = Push(slots[frame][2])]
    /\ UNCHANGED gc /\ MovesOnly

StoreTempVar(v) ==
    /\ Running("call")
    /\ frame # Nil
    /\ slots' = [slots EXCEPT ![frame][2] = v]
    /\ gc' = GCWrite(gc, frame, v)
    /\ MovesOnly

\* PushLiteral of a function: a closure over the current frame.
PushClosure(c) ==
    /\ Running("call")
    /\ frame # Nil /\ Room /\ Unused(c)
    /\ gc' = [gc EXCEPT !.color[c] = "white"]
    /\ slots' = [slots EXCEPT ![c] = <<frame>>, ![mStack] = Push(c)]
    /\ finalized' = finalized \ {c}
    /\ UNCHANGED <<mStack, frame, frames, partial, mFlips, collect, delay, retired, program>>

-----------------------------------------------------------------------------
(* Threads.  A thread that does not run holds its stack and its frame.     *)

\* The colours after the old thread has saved its state: the stack loses
\* the colour that exempts it from the barrier.
SavedColors(done) ==
    LET white == ToWhite(gc, mStack)
    IN IF done THEN GCWrite(white, CurThread, mStack)
       ELSE GCWrite(GCWrite(white, CurThread, mStack), CurThread, frame)

SwitchColors(t, done) == ToBlack(GCWrite(SavedColors(done), Process, t), slots[t][1])

\* switchToThread, from a thread that is done (or is reset), or suspended.
SwitchToThread(t, done) ==
    /\ Running("thread")
    /\ t \in OnStack \cup Range(slots[Process])
    /\ t \in Threads \ {CurThread} /\ slots[t][1] # Nil
    /\ gc' = SwitchColors(t, done)
    /\ slots' = [slots EXCEPT ![CurThread] = IF done THEN <<mStack, Nil>> ELSE <<mStack, frame>>,
                              ![mStack] = IF done THEN <<>> ELSE @,
                              ![Process][2] = t,
                              ![t] = <<Nil, Nil>>]
    /\ mStack' = slots[t][1]
    /\ frame' = slots[t][2]
    /\ UNCHANGED <<frames, scanVars, delay, retired, program>>

\* A routine is pushed: the program got it from a variable.
PushThread(t) ==
    /\ Running("thread") /\ Room
    /\ t \in Range(slots[Process])
    /\ slots' = [slots EXCEPT ![mStack] = Push(t)]
    /\ UNCHANGED gc /\ MovesOnly

\* reallocStack: a larger array takes over the values; the old one stays black.
ReallocStack(s) ==
    /\ Running("realloc")
    /\ s \in Stacks /\ Color(s) = "free"
    /\ gc' = [gc EXCEPT !.color[s] = "black"]
    /\ slots' = [slots EXCEPT ![s] = slots[mStack]]
    /\ mStack' = s
    /\ retired' = retired \cup {mStack}
    /\ UNCHANGED <<frame, frames, scanVars, delay, program>>

-----------------------------------------------------------------------------
(* Primitives that allocate: a collection is put off until they are done.  *)

EnterPrimitive ==
    /\ Running("primitive")
    /\ delay' = [NotDelayed EXCEPT !.on = TRUE]
    /\ UNCHANGED <<heapVars, mStack, frame, frames, scanVars, retired, program>>

\* New within a primitive, held by a C++ local; Collect() returns at once.
NewTemp(c) ==
    /\ delay.on
    /\ Unused(c)
    /\ gc' = [gc EXCEPT !.color[c] = "white"]
    /\ slots' = [slots EXCEPT ![c] = <<>>]
    /\ \E enough \in BOOLEAN :
         delay' = [delay EXCEPT !.attempted = @ \/ enough, !.temps = @ \cup {c}]
    /\ finalized' = finalized \ {c}
    /\ UNCHANGED <<mStack, frame, frames, partial, mFlips, collect, retired, program>>

\* The primitive stores a new object (GCWriteNew), or another value, in an object.
PrimitiveStore(o, v) ==
    /\ delay.on
    /\ o \in delay.temps \/ (o \in OnStack /\ MutableArray(o))
    /\ Len(slots[o]) < MaxSlots
    /\ slots' = [slots EXCEPT ![o] = Append(@, v)]
    /\ gc' = IF v \in delay.temps /\ Color(v) = "white"
             THEN GCWriteNew(gc, o, v) ELSE GCWrite(gc, o, v)
    /\ MovesOnly

\* The result takes the place of the receiver, then the delayed Collect() runs.
ExitPrimitive(v) ==
    /\ delay.on
    /\ v \in delay.temps \cup OnStack /\ slots[mStack] # <<>>
    /\ slots' = [slots EXCEPT ![mStack] = ReplaceTop(v)]
    /\ collect' = IF delay.attempted
                  THEN [running |-> TRUE, more |-> TRUE, stackScanned |-> FALSE]
                  ELSE collect
    /\ delay' = NotDelayed
    /\ UNCHANGED <<gc, mStack, frame, frames, partial, mFlips, finalized, retired, program>>

-----------------------------------------------------------------------------
(* Finalizers and frozen objects.                                          *)

\* InstallFinalizer in the second slot of an instance.
InstallFinalizer(o, f) ==
    /\ Running("finalizer")
    /\ o \in OnStack /\ Mutable(o) /\ Len(slots[o]) = 2 /\ ~HasFinalizer(o)
    /\ Color(f) = "free"
    /\ slots' = [slots EXCEPT ![f] = <<Nil, o>>, ![o][2] = f]
    /\ gc' = GCWriteNew([gc EXCEPT !.color[f] = "white"], o, f)
    /\ MovesOnly

Targets(S) == (UNION {Range(slots[o]) : o \in S}) \ {Nil}

Closed(S) == Targets(S) \subseteq S

\* The objects reached from o, if they are the ones in objs.
Frozen(o, objs) ==
    /\ o \in objs /\ Closed(objs)
    /\ \A S \in SUBSET objs : o \in S /\ Closed(S) => S = objs

\* PyrDeepFreezer: everything reached becomes permanent, or nothing does if
\* a thread, a frame, the process or a function is among it.
DeepFreeze(o) ==
    /\ Running("freeze")
    /\ o \in OnStack
    /\ \E objs \in SUBSET ((Cells \cup FinCells) \ frames) :
          /\ Frozen(o, objs)
          /\ gc' = [color |-> [x \in Objs |-> IF x \in objs THEN "permanent" ELSE Color(x)],
                    numGrey |-> gc.numGrey
                                - Cardinality({x \in objs : Color(x) = "grey"})]
    /\ UNCHANGED slots /\ MovesOnly

-----------------------------------------------------------------------------

Program ==
    \/ \E c \in Cells : New(c, IF "finalizer" \in program.ops THEN 2 ELSE 0)
    \/ Pop
    \/ \E o \in OnStack \cup {Process} : \E i \in DOMAIN slots[o] : PushSlot(o, i)
    \/ \E v \in OnStack \cup {Nil} : StoreClassVar(v)
    \/ \E o \in OnStack, i \in 1..MaxSlots, v \in OnStack \cup {Nil} :
          PutSlot(o, i, v) \/ ArrayInsert(o, i, v)
    \/ \E o \in OnStack, v \in OnStack \cup {Nil} : ArrayAdd(o, v)
    \/ \E o \in OnStack, i, j \in 1..MaxSlots : i < j /\ ArraySwap(o, i, j)
    \/ \E o \in OnStack, i \in 1..MaxSlots : ArrayTakeAt(o, i)
    \/ \E c \in Cells : Call(c) \/ PushClosure(c) \/ NewTemp(c)
    \/ \E keep \in BOOLEAN : Return(keep)
    \/ PushTempVar
    \/ \E v \in OnStack \cup {Nil} : StoreTempVar(v)
    \/ \E t \in Threads, done \in BOOLEAN : SwitchToThread(t, done)
    \/ \E t \in Threads : PushThread(t)
    \/ \E s \in SpareStacks : ReallocStack(s)
    \/ EnterPrimitive
    \/ \E o \in delay.temps \cup OnStack, v \in delay.temps \cup OnStack : PrimitiveStore(o, v)
    \/ \E v \in delay.temps \cup OnStack : ExitPrimitive(v)
    \/ \E o \in OnStack, f \in FinCells : InstallFinalizer(o, f)
    \/ \E o \in OnStack : DeepFreeze(o)

\* removeAt, except on the array whose scan is not finished: there the element
\* that crosses the scan position gets no barrier, which breaks NoDangling.
RemoveAtSettled ==
    \E o \in OnStack, i \in 1..MaxSlots : o # partial.obj /\ ArrayRemoveAt(o, i)

\* The routines that exist: none in a program without threads.
Created == IF "thread" \in program.ops THEN Routines ELSE {}

Init ==
    /\ program \in Programs
    /\ gc = [color |-> [o \in Objs |->
                CASE o = Process -> "grey"
                  [] o = StackOf[Main] -> "black"
                  [] o = Main -> "white"
                  [] o \in Created \cup {StackOf[t] : t \in Created} -> "white"
                  [] OTHER -> "free"],
             numGrey |-> 1]
    /\ slots = [o \in Objs |->
                CASE o = Process -> <<Main, Main, IF Created = {} THEN Nil
                                                  ELSE CHOOSE t \in Created : TRUE>>
                  [] o \in Created -> <<StackOf[o], Nil>>
                  [] o = Main -> <<Nil, Nil>>
                  [] OTHER -> <<>>]
    /\ mStack = StackOf[Main]
    /\ frame = Nil
    /\ frames = {}
    /\ partial = NoPartial
    /\ mFlips = 0
    /\ collect = NotCollecting
    /\ delay = NotDelayed
    /\ finalized = {}
    /\ retired = {}

Next == Collector \/ Program \/ RemoveAtSettled

Spec == Init /\ [][Next]_vars

-----------------------------------------------------------------------------
(* Properties.                                                             *)

Refs(o) == Range(slots[o]) \ {Nil}

\* Every variable has its type.
TypeOK ==
    /\ gc.color \in [Objs -> {"free", "white", "grey", "black", "permanent"}]
    /\ gc.numGrey \in Nat
    /\ \A o \in Objs : slots[o] \in Seq(Objs \cup {Nil})
    /\ mStack \in Stacks
    /\ frame \in Cells \cup {Nil}
    /\ frames \subseteq Cells
    /\ partial.obj \in Objs \cup {Nil} /\ partial.slot \in Nat
    /\ mFlips \in 0..(FlipPeriod - 1)
    /\ DOMAIN collect = {"running", "more", "stackScanned"}
    /\ delay.temps \subseteq Cells
    /\ finalized \subseteq Cells
    /\ retired \subseteq Stacks

\* mNumGrey is the length of the grey list, whatever mix of barriers, thread
\* switches and freezing changed colours (the "grey count error" of
\* ScanOneObj is unreachable).
GreyCountExact == gc.numGrey = Cardinality({o \in Objs : Color(o) = "grey"})

\* The slots of o that count as scanned.
ScannedSlots(o) ==
    IF o = partial.obj THEN {i \in DOMAIN slots[o] : i <= partial.slot}
    ELSE DOMAIN slots[o]

\* A black object, other than the stack in use, refers to no white object
\* through a slot that was scanned (BlackToWhiteCheck), except for the
\* stacks that reallocStack left behind.
NoBlackToWhite ==
    \A o \in Objs \ ({mStack} \cup retired) : Color(o) = "black" =>
        \A i \in ScannedSlots(o) : slots[o][i] # Nil => Color(slots[o][i]) # "white"

\* No reference to a freed cell is left in an object that is not free, on
\* the stack, in the frame register or in a local of a primitive: the
\* flips take nothing away that anything still refers to.
NoDangling ==
    /\ \A o \in Objs \ retired : Live(o) => \A x \in Refs(o) : Live(x)
    /\ Live(Process) /\ Live(mStack)
    /\ frame # Nil => Live(frame)
    /\ \A x \in delay.temps : Live(x)

Roots == {Process, mStack} \cup ({frame} \ {Nil}) \cup delay.temps

\* A frozen object refers to frozen objects only: the collector never scans
\* it again, so anything else it referred to would be lost.
PermanentClosed ==
    \A o \in Objs : Color(o) = "permanent" =>
        \A x \in Refs(o) : Color(x) = "permanent"

\* What the collector trusts: the count of grey objects, by which it knows that
\* it is done, and the colours, by which it knows what it need not look at.
ColorsSound == GreyCountExact /\ NoBlackToWhite /\ PermanentClosed

\* Some set of objects has the roots and all that its members refer to, and
\* nothing of S.
Unreachable(S) ==
    /\ Roots \cap S = {}
    /\ \E T \in SUBSET (Objs \ (Roots \cup S)) : Closed(Roots \cup T)

\* A finalizer runs only for an object that the program can no longer reach.
FinalizedUnreachable == finalized # {} => Unreachable(finalized)

=============================================================================
