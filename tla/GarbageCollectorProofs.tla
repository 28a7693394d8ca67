----------------------- MODULE GarbageCollectorProofs -----------------------
(***************************************************************************)
(* Proofs about GarbageCollector, for any number of objects, threads and   *)
(* stacks, any object size, flip period and program: the colours can be    *)
(* trusted, nothing that is still referred to is freed, and finalizers run *)
(* for unreachable objects only.                                           *)
(***************************************************************************)
EXTENDS GarbageCollector, FiniteSetTheorems, TLAPS

-----------------------------------------------------------------------------
(* The inductive invariant.                                                *)

Colors == {"free", "white", "grey", "black", "permanent"}

Heaps == [color : [Objs -> Colors], numGrey : Nat]

Greys(h) == {o \in Objs : h.color[o] = "grey"}

\* A value of gc whose count is right.
Exact(h) == h \in Heaps /\ h.numGrey = Cardinality(Greys(h))

SlotSeqs == Seq(Objs \cup {Nil})

Types ==
    /\ slots \in [Objs -> SlotSeqs]
    /\ mStack \in Stacks
    /\ frames \subseteq Cells /\ frame \in frames \cup {Nil}
    /\ partial \in [obj : Objs \cup {Nil}, slot : Nat]
    /\ mFlips \in 0..(FlipPeriod - 1)
    /\ collect \in [running : BOOLEAN, more : BOOLEAN, stackScanned : BOOLEAN]
    /\ delay \in [on : BOOLEAN, attempted : BOOLEAN, temps : SUBSET Cells]
    /\ finalized \subseteq Cells
    /\ retired \subseteq Stacks
    /\ program \in Programs

\* What holds of the slots of one object.
LiveRefs(o) ==
    Live(o) /\ o \notin retired =>
        \A i \in DOMAIN slots[o] : slots[o][i] # Nil => Live(slots[o][i])

ShadedRefs(o) ==
    Color(o) = "black" /\ o \notin {mStack} \cup retired =>
        \A i \in ScannedSlots(o) : slots[o][i] # Nil => Color(slots[o][i]) # "white"

FrozenRefs(o) ==
    Color(o) = "permanent" =>
        \A i \in DOMAIN slots[o] : slots[o][i] # Nil => Color(slots[o][i]) = "permanent"

Sound(o) == LiveRefs(o) /\ ShadedRefs(o) /\ FrozenRefs(o)

\* The roots: the process never is white, the stack in use always black.
RootsKept ==
    /\ Color(Process) \in {"grey", "black"}
    /\ Len(slots[Process]) = 3 /\ slots[Process][2] \in Threads
    /\ Color(mStack) = "black" /\ mStack \notin retired

\* A stack is referred to by the one thread that is to return to it: not
\* the one in use, nor one that reallocStack replaced.
ThreadsShaped ==
    \A t \in Threads : Live(t) =>
        /\ Color(t) # "permanent"
        /\ Len(slots[t]) = 2
        /\ slots[t][1] \in (Stacks \ ({mStack} \cup retired)) \cup {Nil}
        /\ slots[t][2] \in frames \cup {Nil}

StacksUnshared ==
    /\ \A t, u \in Threads :
          Live(t) /\ Live(u) /\ t # u => slots[t][1] = Nil \/ slots[t][1] # slots[u][1]
    /\ \A o \in Objs \ Threads : \A i \in DOMAIN slots[o] : slots[o][i] \notin Stacks
    /\ \A s \in retired : Live(s)

FramesShaped ==
    \A f \in frames :
        /\ Live(f) /\ Color(f) # "permanent"
        /\ Len(slots[f]) = 2 /\ slots[f][1] \in frames \cup {Nil}

\* The locals of a primitive, which no collection interrupts.
TempsHeld ==
    /\ \A x \in delay.temps : Live(x) /\ Color(x) # "permanent" /\ x \notin frames
    /\ delay.on => ~collect.running
    /\ ~delay.on => delay.temps = {}

\* A finalizer and its object refer to each other, so they die together.
FinalizerOf(f) ==
    \E o \in Cells \ frames :
        /\ slots[f] = <<Nil, o>> /\ Live(o)
        /\ 2 \in DOMAIN slots[o] /\ slots[o][2] = f

FinalizersLinked == \A f \in FinCells : Live(f) => FinalizerOf(f)

FinalizedFree == \A x \in finalized : ~Live(x)

\* Once the roots without a barrier are scanned, until the flip.
RootsScanned ==
    collect.stackScanned =>
        /\ collect.running
        /\ \A i \in DOMAIN slots[mStack] :
              slots[mStack][i] # Nil => Color(slots[mStack][i]) # "white"
        /\ frame # Nil => Color(frame) # "white"

IndInv ==
    /\ Types /\ Exact(gc)
    /\ \A o \in Objs : Sound(o)
    /\ RootsKept /\ ThreadsShaped /\ StacksUnshared /\ FramesShaped
    /\ TempsHeld /\ FinalizersLinked /\ FinalizedFree /\ RootsScanned

-----------------------------------------------------------------------------
(* The colours.                                                            *)

\* The kinds of objects are apart.
LEMMA Disjoint ==
    /\ Objs \subseteq {Process} \cup Threads \cup Stacks \cup Cells \cup FinCells
    /\ Nil \notin Objs /\ Process \in Objs
    /\ Threads \subseteq Objs /\ Stacks \subseteq Objs
    /\ Cells \subseteq Objs /\ FinCells \subseteq Objs
    /\ Process \notin Threads \cup Stacks \cup Cells \cup FinCells
    /\ Threads \cap (Stacks \cup Cells \cup FinCells) = {}
    /\ Stacks \cap (Cells \cup FinCells) = {}
    /\ Cells \cap FinCells = {}
  BY GCAssumption, ObjectsAssumption DEF Objs

\* There are finitely many objects, so the grey ones can be counted.
LEMMA GreysFinite ==
  ASSUME NEW h
  PROVE  IsFiniteSet(Greys(h)) /\ Cardinality(Greys(h)) \in Nat
<1>1. Greys(h) \in SUBSET Objs
  BY DEF Greys
<1> QED
  BY <1>1, FS_Subset, FS_CardinalityType, GCAssumption

\* From one value of gc to another, objects only become grey.
Shades(h, g) ==
    \A o \in Objs : g.color[o] = h.color[o] \/ (h.color[o] = "white" /\ g.color[o] = "grey")

\* ToGrey keeps mNumGrey right; it is called for objects that are not grey.
LEMMA ToGreyExact ==
  ASSUME NEW h, Exact(h), NEW o \in Objs, h.color[o] # "grey"
  PROVE  /\ Exact(ToGrey(h, o))
         /\ \A x \in Objs : ToGrey(h, o).color[x] = IF x = o THEN "grey" ELSE h.color[x]
<1> DEFINE g == ToGrey(h, o)
<1>1. g.color \in [Objs -> Colors] /\ \A x \in Objs : g.color[x] = IF x = o THEN "grey" ELSE h.color[x]
  BY DEF ToGrey, SetColor, Exact, Heaps, Colors
<1>2. Greys(g) = Greys(h) \cup {o} /\ o \notin Greys(h)
  BY <1>1 DEF Greys
<1>3. Cardinality(Greys(g)) = Cardinality(Greys(h)) + 1
  BY <1>2, GreysFinite, FS_AddElement
<1>4. g.numGrey = h.numGrey + 1 /\ h.numGrey \in Nat
  BY DEF ToGrey, Exact, Heaps
<1>5. g \in Heaps
  BY <1>1, <1>4 DEF Heaps, ToGrey
<1> QED
  BY <1>1, <1>3, <1>4, <1>5 DEF Exact

\* So does a change to white or black, which counts a grey object off.
LEMMA UncountedExact ==
  ASSUME NEW h, Exact(h), NEW o \in Objs, NEW c \in {"white", "black"}, NEW g,
         g = [color |-> SetColor(h, o, c), numGrey |-> Uncounted(h, o)]
  PROVE  /\ Exact(g)
         /\ \A x \in Objs : g.color[x] = IF x = o THEN c ELSE h.color[x]
<1>1. g.color \in [Objs -> Colors] /\ \A x \in Objs : g.color[x] = IF x = o THEN c ELSE h.color[x]
  BY DEF SetColor, Exact, Heaps, Colors
<1>2. Greys(g) = Greys(h) \ {o}
  BY <1>1 DEF Greys
<1>3. Cardinality(Greys(g)) = IF o \in Greys(h) THEN Cardinality(Greys(h)) - 1
                              ELSE Cardinality(Greys(h))
  BY <1>2, GreysFinite, FS_RemoveElement
<1>4. o \in Greys(h) <=> h.color[o] = "grey"
  BY DEF Greys
<1>5. g.numGrey = Cardinality(Greys(g))
  BY <1>3, <1>4 DEF Uncounted, Exact
<1>6. g.numGrey \in Nat
  BY <1>5, GreysFinite
<1>7. g \in Heaps
  BY <1>1, <1>6 DEF Heaps
<1> QED
  BY <1>1, <1>5, <1>7 DEF Exact

\* ToBlack changes one colour and keeps the count.
LEMMA ToBlackExact ==
  ASSUME NEW h, Exact(h), NEW o \in Objs
  PROVE  /\ Exact(ToBlack(h, o))
         /\ \A x \in Objs : ToBlack(h, o).color[x] = IF x = o THEN "black" ELSE h.color[x]
  BY UncountedExact DEF ToBlack

\* ToWhite changes one colour and keeps the count.
LEMMA ToWhiteExact ==
  ASSUME NEW h, Exact(h), NEW o \in Objs
  PROVE  /\ Exact(ToWhite(h, o))
         /\ \A x \in Objs : ToWhite(h, o).color[x] = IF x = o THEN "white" ELSE h.color[x]
  BY UncountedExact DEF ToWhite

\* Whoever writes the child into a black parent may rely on it not being white.
LEMMA GCWriteExact ==
  ASSUME NEW h, Exact(h), NEW parent \in Objs, NEW child \in Objs \cup {Nil}
  PROVE  /\ Exact(GCWrite(h, parent, child))
         /\ Shades(h, GCWrite(h, parent, child))
         /\ h.color[parent] = "black" /\ child # Nil =>
              GCWrite(h, parent, child).color[child] # "white"
         /\ \A x \in Objs : x # child => GCWrite(h, parent, child).color[x] = h.color[x]
<1>1. CASE h.color[parent] = "black" /\ child # Nil /\ h.color[child] = "white"
  <2>1. GCWrite(h, parent, child) = ToGrey(h, child)
    BY <1>1 DEF GCWrite, GCWriteBlack
  <2> QED
    BY <1>1, <2>1, ToGreyExact DEF Shades
<1>2. CASE ~(h.color[parent] = "black" /\ child # Nil /\ h.color[child] = "white")
  <2>1. GCWrite(h, parent, child) = h
    BY <1>2 DEF GCWrite, GCWriteBlack
  <2> QED
    BY <1>2, <2>1 DEF Shades
<1> QED
  BY <1>1, <1>2

\* The barrier for a child that is an object.
LEMMA GCWritten ==
  ASSUME NEW h, Exact(h), NEW parent \in Objs, NEW child \in Objs
  PROVE  /\ Exact(GCWrite(h, parent, child)) /\ Shades(h, GCWrite(h, parent, child))
         /\ h.color[parent] = "black" => GCWrite(h, parent, child).color[child] # "white"
         /\ \A x \in Objs : x # child => GCWrite(h, parent, child).color[x] = h.color[x]
<1>1. child # Nil /\ child \in Objs \cup {Nil}
  BY Disjoint
<1>2. /\ Exact(GCWrite(h, parent, child)) /\ Shades(h, GCWrite(h, parent, child))
      /\ h.color[parent] = "black" /\ child # Nil =>
            GCWrite(h, parent, child).color[child] # "white"
      /\ \A x \in Objs : x # child => GCWrite(h, parent, child).color[x] = h.color[x]
  BY ONLY Exact(h), parent \in Objs, <1>1, GCWriteExact
<1> QED
  BY <1>1, <1>2

\* A set of white objects is shaded and counted.
LEMMA ShadeSetExact ==
  ASSUME NEW h, Exact(h), NEW W \in SUBSET Objs, \A o \in W : h.color[o] = "white", NEW g,
         g = [color |-> [o \in Objs |-> IF o \in W THEN "grey" ELSE h.color[o]],
              numGrey |-> h.numGrey + Cardinality(W)]
  PROVE  Exact(g) /\ Shades(h, g) /\ \A o \in W : g.color[o] = "grey"
<1>1. g.color \in [Objs -> Colors] /\ \A x \in Objs : g.color[x] = IF x \in W THEN "grey" ELSE h.color[x]
  BY DEF Exact, Heaps, Colors
<1>2. Greys(g) = Greys(h) \cup W /\ Greys(h) \cap W = {}
  BY <1>1 DEF Greys
<1>3. IsFiniteSet(W) /\ Cardinality(W) \in Nat
  BY FS_Subset, FS_CardinalityType, GCAssumption
<1>4. Cardinality(Greys(g)) = Cardinality(Greys(h)) + Cardinality(W)
  <2>1. Cardinality(Greys(h) \cup W) = Cardinality(Greys(h)) + Cardinality(W) - Cardinality(Greys(h) \cap W)
    BY <1>3, GreysFinite, FS_Union
  <2>2. Cardinality(Greys(h) \cap W) = 0
    BY <1>2, FS_EmptySet
  <2>3. Cardinality(Greys(h)) \in Nat
    BY GreysFinite
  <2>4. Cardinality(Greys(h) \cup W) = Cardinality(Greys(h)) + Cardinality(W)
    BY <1>3, <2>1, <2>2, <2>3
  <2> QED
    BY <1>2, <2>4
<1>5. g.numGrey = Cardinality(Greys(g)) /\ g.numGrey \in Nat
  BY <1>3, <1>4, GreysFinite DEF Exact
<1>6. g \in Heaps
  BY <1>1, <1>5 DEF Heaps
<1> QED
  BY <1>1, <1>5, <1>6 DEF Exact, Shades

\* Scanning a sequence of slots leaves none of them white, and keeps the count.
LEMMA ScanSlotsExact ==
  ASSUME NEW h, Exact(h), NEW values \in SlotSeqs
  PROVE  /\ Exact(ScanSlots(h, values)) /\ Shades(h, ScanSlots(h, values))
         /\ \A i \in DOMAIN values : values[i] # Nil => ScanSlots(h, values).color[values[i]] # "white"
<1> DEFINE W == {o \in Range(values) \ {Nil} : h.color[o] = "white"}
           g == ScanSlots(h, values)
<1>1. Range(values) \subseteq Objs \cup {Nil}
  BY DEF Range, SlotSeqs
<1>2. W \in SUBSET Objs
  BY <1>1
<1>3. g = [color |-> [o \in Objs |-> IF o \in W THEN "grey" ELSE h.color[o]],
           numGrey |-> h.numGrey + Cardinality(W)]
  BY DEF ScanSlots
<1>4. \A o \in W : h.color[o] = "white"
  OBVIOUS
<1>5. ASSUME NEW i \in DOMAIN values, values[i] # Nil
      PROVE  values[i] \in Objs /\ (values[i] \in W \/ h.color[values[i]] # "white")
  BY <1>1, <1>5 DEF Range
<1> HIDE DEF W, g
<1>6. Exact(g) /\ Shades(h, g) /\ \A o \in W : g.color[o] = "grey"
  BY <1>2, <1>3, <1>4, ShadeSetExact
<1>7. ASSUME NEW i \in DOMAIN values, values[i] # Nil
      PROVE  g.color[values[i]] # "white"
  BY <1>5, <1>6, <1>7 DEF Shades
<1> QED
  BY <1>6, <1>7 DEF g

-----------------------------------------------------------------------------
(* Steps of the program.  Each object is left alone, but for being shaded, *)
(* or is written to in a way that keeps what the collector relies on.      *)

Kept(o) ==
    /\ slots'[o] = slots[o]
    /\ \/ gc'.color[o] = gc.color[o]
       \/ gc.color[o] \in {"white", "black"} /\ gc'.color[o] = "grey"

Wrote(o) ==
    /\ gc'.color[o] \in {"white", "grey", "black"} /\ gc.color[o] # "permanent"
    /\ gc'.color[o] = "white" => gc.color[o] \in {"free", "white"}
    /\ \A i \in DOMAIN slots'[o] : slots'[o][i] # Nil =>
          /\ slots'[o][i] \notin Stacks
          /\ gc'.color[slots'[o][i]] # "free"
          /\ gc'.color[o] = "black" /\ o # mStack /\ (o = partial.obj => i <= partial.slot) =>
                gc'.color[slots'[o][i]] # "white"

\* What such steps do to the rest of the state.
Settles ==
    /\ Exact(gc') /\ slots' \in [Objs -> SlotSeqs]
    /\ UNCHANGED <<mStack, partial, mFlips, retired, program>>
    /\ \A t \in Threads : Kept(t)
    /\ gc'.color[mStack] = "black" /\ gc'.color[Process] \in {"grey", "black"}
    /\ Len(slots'[Process]) = 3 /\ slots'[Process][2] = slots[Process][2]
    /\ frames \subseteq frames' /\ frames' \subseteq Cells /\ frame' \in frames' \cup {Nil}
    /\ FramesShaped' /\ TempsHeld' /\ FinalizersLinked'
    /\ finalized' \subseteq finalized /\ \A x \in finalized' : gc'.color[x] = gc.color[x]
    /\ collect' \in [running : BOOLEAN, more : BOOLEAN, stackScanned : BOOLEAN]
    /\ ~collect'.stackScanned
    /\ delay' \in [on : BOOLEAN, attempted : BOOLEAN, temps : SUBSET Cells]

\* The central argument: nothing black comes to refer to something white,
\* because a new reference is barriered and a reference that was there was
\* to an object that is not free, which does not become white.
LEMMA Mutates ==
  ASSUME IndInv, Settles, \A o \in Objs : Kept(o) \/ Wrote(o)
  PROVE  IndInv'
<1>1. gc \in Heaps /\ gc' \in Heaps
  BY DEF IndInv, Settles, Exact
<1>2. \A o \in Objs : gc.color[o] \in Colors /\ gc'.color[o] \in Colors
  BY <1>1 DEF Heaps
<1>3. \A o \in Objs : gc.color[o] # "free" => gc'.color[o] # "free"
  BY DEF Kept, Wrote
<1>4. \A o \in Objs : gc.color[o] # "free" /\ gc'.color[o] = "white" => gc.color[o] = "white"
  BY DEF Kept, Wrote
<1>5. \A o \in Objs : gc.color[o] = "permanent" <=> gc'.color[o] = "permanent"
  BY DEF Kept, Wrote
<1>6. ASSUME NEW o \in Objs, Kept(o)
      PROVE  Sound(o)'
  <2>1. \A i \in DOMAIN slots[o] : slots[o][i] \in Objs \cup {Nil}
    BY DEF IndInv, Types, SlotSeqs
  <2>2. slots'[o] = slots[o] /\ UNCHANGED <<mStack, partial, retired>>
    BY <1>6 DEF Kept, Settles
  <2>3. Sound(o)
    BY DEF IndInv
  <2>4. LiveRefs(o)'
    BY <1>3, <1>6, <2>1, <2>2, <2>3 DEF Sound, LiveRefs, Live, Color, Kept
  <2>5. FrozenRefs(o)'
    BY <1>5, <2>1, <2>2, <2>3 DEF Sound, FrozenRefs, Color
  <2>6. ShadedRefs(o)'
    <3> SUFFICES ASSUME gc'.color[o] = "black", o \notin {mStack} \cup retired,
                        NEW i \in ScannedSlots(o), slots[o][i] # Nil
                 PROVE  gc'.color[slots[o][i]] # "white"
      BY <2>2 DEF ShadedRefs, Color, ScannedSlots
    <3>1. gc.color[o] = "black"
      BY <1>6 DEF Kept
    <3>2. i \in DOMAIN slots[o] /\ slots[o][i] \in Objs
      BY <2>1 DEF ScannedSlots
    <3>3. gc.color[slots[o][i]] # "white" /\ gc.color[slots[o][i]] # "free"
      BY <2>3, <3>1, <3>2 DEF Sound, ShadedRefs, LiveRefs, Live, Color
    <3> QED
      BY <1>4, <3>2, <3>3
  <2> QED
    BY <2>4, <2>5, <2>6 DEF Sound
<1>7. ASSUME NEW o \in Objs, Wrote(o)
      PROVE  Sound(o)'
  BY <1>7 DEF Wrote, Settles, Sound, LiveRefs, ShadedRefs, FrozenRefs, Live, Color, ScannedSlots
<1>8. Types'
  BY DEF IndInv, Types, Settles
<1>9. RootsKept'
  BY DEF IndInv, RootsKept, Settles, Color
<1>10. \A t \in Threads : /\ slots'[t] = slots[t] /\ (Live(t)' => Live(t))
                          /\ Color(t)' = "permanent" => Color(t) = "permanent"
  BY DEF Settles, Kept, Live, Color
<1>11. ThreadsShaped'
  BY <1>10 DEF IndInv, ThreadsShaped, Settles
<1>12. StacksUnshared'
  <2>1. \A s \in retired : Live(s)'
    BY <1>3, Disjoint DEF IndInv, StacksUnshared, Types, Live, Color
  <2>2. ASSUME NEW o \in Objs \ Threads, NEW i \in DOMAIN slots'[o]
        PROVE  slots'[o][i] \notin Stacks
    <3>1. CASE Kept(o)
      BY <3>1 DEF Kept, IndInv, StacksUnshared
    <3>2. CASE Wrote(o)
      BY <3>2, Disjoint DEF Wrote
    <3> QED
      BY <3>1, <3>2
  <2> QED
    BY <1>10, <2>1, <2>2 DEF IndInv, StacksUnshared, Settles
<1>13. FinalizedFree'
  BY DEF IndInv, FinalizedFree, Settles, Live, Color
<1>14. RootsScanned'
  BY DEF Settles, RootsScanned
<1> QED
  BY <1>6, <1>7, <1>8, <1>9, <1>11, <1>12, <1>13, <1>14 DEF IndInv, Settles

\* A finalizer stays linked with its object unless its slot is written to.
LEMMA FinalizersKept ==
  ASSUME IndInv, slots' \in [Objs -> SlotSeqs],
         \A f \in FinCells : slots'[f] = slots[f] /\ (Live(f)' => Live(f)),
         \A o \in Objs : Live(o) => Live(o)',
         frames' \cap {o \in Cells : Live(o)} \subseteq frames,
         \A o \in Cells \ frames : Live(o) /\ 2 \in DOMAIN slots[o] /\ slots[o][2] \in FinCells =>
             2 \in DOMAIN slots'[o] /\ slots'[o][2] = slots[o][2]
  PROVE  FinalizersLinked'
<1> SUFFICES ASSUME NEW f \in FinCells, Live(f)'
             PROVE  FinalizerOf(f)'
  BY DEF FinalizersLinked
<1>1. FinalizerOf(f)
  BY DEF IndInv, FinalizersLinked
<1>2. PICK o \in Cells \ frames : /\ slots[f] = <<Nil, o>> /\ Live(o)
                                 /\ 2 \in DOMAIN slots[o] /\ slots[o][2] = f
  BY <1>1 DEF FinalizerOf
<1>3. o \in Cells \ frames'
  BY <1>2
<1>4. slots'[f] = <<Nil, o>> /\ Live(o)' /\ 2 \in DOMAIN slots'[o] /\ slots'[o][2] = f
  BY <1>2, Disjoint
<1> QED
  BY <1>3, <1>4 DEF FinalizerOf

\* The colours after a barrier, or when an object is made grey.
Darkens ==
    /\ Exact(gc')
    /\ \A x \in Objs : \/ gc'.color[x] = gc.color[x]
                       \/ gc.color[x] \in {"white", "black"} /\ gc'.color[x] = "grey"
    /\ gc'.color[mStack] = "black"

\* Steps that move references only, among objects that exist.
Moves(o) ==
    /\ o \notin Threads \cup FinCells
    /\ Wrote(o)
    /\ o = Process => Len(slots'[o]) = 3 /\ slots'[o][2] = slots[o][2]
    /\ o \in frames => Len(slots'[o]) = 2 /\ slots'[o][1] \in frames \cup {Nil}
    /\ o \in Cells \ frames /\ 2 \in DOMAIN slots[o] /\ slots[o][2] \in FinCells =>
          2 \in DOMAIN slots'[o] /\ slots'[o][2] = slots[o][2]

\* A step of the program that only moves references is safe if each object it
\* writes to is written as Moves allows.
LEMMA MovesSafe ==
  ASSUME IndInv, ~collect.running,
         UNCHANGED <<mStack, frames, partial, mFlips, finalized, retired, program>>,
         frame' \in frames \cup {Nil},
         collect' \in [running : BOOLEAN, more : BOOLEAN, stackScanned : BOOLEAN],
         ~collect'.stackScanned,
         (delay' = delay /\ collect' = collect) \/ delay' = NotDelayed,
         Darkens, slots' \in [Objs -> SlotSeqs],
         \A o \in Objs : Kept(o) \/ Moves(o)
  PROVE  IndInv'
<1>1. \A o \in Objs : Kept(o) \/ Wrote(o)
  BY DEF Moves
<1>2. \A o \in Threads \cup FinCells : Kept(o)
  BY Disjoint DEF Moves
<1>3. \A o \in Objs : Live(o) <=> Live(o)'
  BY DEF Live, Color, Darkens
<1>4. FinalizersLinked'
  <2>1. \A f \in FinCells : slots'[f] = slots[f] /\ (Live(f)' => Live(f))
    BY <1>2, <1>3, Disjoint DEF Kept
  <2>2. \A o \in Cells \ frames : Live(o) /\ 2 \in DOMAIN slots[o] /\ slots[o][2] \in FinCells =>
             2 \in DOMAIN slots'[o] /\ slots'[o][2] = slots[o][2]
    BY Disjoint DEF Kept, Moves
  <2> QED
    BY <1>3, <2>1, <2>2, FinalizersKept
<1>5. FramesShaped'
  <2> SUFFICES ASSUME NEW f \in frames
               PROVE  /\ Live(f)' /\ Color(f)' # "permanent"
                      /\ Len(slots'[f]) = 2 /\ slots'[f][1] \in frames \cup {Nil}
    BY DEF FramesShaped
  <2>1. f \in Objs
    BY Disjoint DEF IndInv, Types
  <2>2. /\ Live(f) /\ Color(f) # "permanent"
        /\ Len(slots[f]) = 2 /\ slots[f][1] \in frames \cup {Nil}
    BY DEF IndInv, FramesShaped
  <2>3. Color(f)' # "permanent"
    BY <2>1, <2>2 DEF Darkens, Color
  <2> QED
    BY <1>3, <2>1, <2>2, <2>3 DEF Kept, Moves
<1>6. delay' \in [on : BOOLEAN, attempted : BOOLEAN, temps : SUBSET Cells]
  <2>1. NotDelayed \in [on : BOOLEAN, attempted : BOOLEAN, temps : SUBSET Cells]
    BY DEF NotDelayed
  <2>2. delay \in [on : BOOLEAN, attempted : BOOLEAN, temps : SUBSET Cells]
    BY DEF IndInv, Types
  <2> QED
    BY <2>1, <2>2
<1>7. TempsHeld'
  <2>1. CASE delay' = NotDelayed
    BY <2>1 DEF TempsHeld, NotDelayed
  <2>2. CASE delay' = delay /\ collect' = collect
    <3>1. \A x \in delay.temps : x \in Objs /\ Live(x) /\ Color(x) # "permanent" /\ x \notin frames
      BY Disjoint DEF IndInv, TempsHeld, Types
    <3>2. \A x \in delay.temps : Live(x)' /\ Color(x)' # "permanent"
      BY <1>3, <3>1 DEF Color, Darkens
    <3> QED
      BY <2>2, <3>1, <3>2 DEF IndInv, TempsHeld
  <2> QED
    BY <2>1, <2>2
<1>8. gc'.color[Process] \in {"grey", "black"}
  BY Disjoint DEF IndInv, RootsKept, Color, Darkens
<1>9. Len(slots'[Process]) = 3 /\ slots'[Process][2] = slots[Process][2]
  BY Disjoint DEF IndInv, RootsKept, Kept, Moves
<1>10. \A x \in finalized : gc'.color[x] = gc.color[x]
  <2>1. \A x \in finalized : x \in Objs /\ gc.color[x] = "free"
    BY Disjoint DEF IndInv, FinalizedFree, Types, Live, Color
  <2> QED
    BY <2>1 DEF Darkens
<1>11. frames \subseteq Cells
  BY DEF IndInv, Types
<1>12. \A t \in Threads : Kept(t)
  BY <1>2
<1>13. Settles
  BY <1>4, <1>5, <1>6, <1>7, <1>8, <1>9, <1>10, <1>11, <1>12 DEF Settles, Darkens
<1> QED
  BY <1>1, <1>13, Mutates

-----------------------------------------------------------------------------
(* The bytecodes and primitives that move references.                      *)

\* What a program can hold: nil, or an object that exists and is no stack.
Value(v) == v = Nil \/ (v \in Objs \ Stacks /\ Live(v))

Values(q) == q \in SlotSeqs /\ \A i \in DOMAIN q : Value(q[i])

\* Nil may be stored anywhere.
LEMMA NilIsValue == Value(Nil)
  BY DEF Value

\* What is in the slots of a live object may be stored elsewhere.
LEMMA ObjectValues ==
  ASSUME IndInv, NEW o \in Objs \ Threads, Live(o), o \notin retired
  PROVE  Values(slots[o])
<1>1. slots[o] \in SlotSeqs /\ LiveRefs(o)
  BY DEF IndInv, Types, Sound
<1>2. \A i \in DOMAIN slots[o] : slots[o][i] \in Objs \cup {Nil} /\ slots[o][i] \notin Stacks
  BY <1>1 DEF IndInv, StacksUnshared, SlotSeqs
<1> QED
  BY <1>1, <1>2 DEF LiveRefs, Values, Value

\* The stack in use is live and black, and what is on it may be stored.
LEMMA StackFacts ==
  ASSUME IndInv
  PROVE  /\ mStack \in Objs \ (Threads \cup Cells \cup FinCells \cup {Process})
         /\ Live(mStack) /\ Color(mStack) = "black" /\ mStack \notin retired
         /\ Values(slots[mStack])
         /\ \A v \in OnStack : Value(v) /\ v # Nil
<1>1. /\ mStack \in Objs \ (Threads \cup Cells \cup FinCells \cup {Process})
      /\ Live(mStack) /\ Color(mStack) = "black" /\ mStack \notin retired
  BY Disjoint DEF IndInv, Types, RootsKept, Live
<1>2. Values(slots[mStack])
  BY <1>1, ObjectValues
<1>3. \A v \in OnStack : Value(v) /\ v # Nil
  BY <1>2 DEF OnStack, Range, Values
<1> QED
  BY <1>1, <1>2, <1>3

\* Sequences of storable values stay so under push, pop and assignment.
LEMMA SequencesOfValues ==
  ASSUME NEW q, Values(q), NEW v, Value(v)
  PROVE  /\ Values(Append(q, v))
         /\ q # <<>> => /\ Values(Front(q)) /\ Values(Append(Front(q), v))
                        /\ Value(Last(q)) /\ Len(q) \in DOMAIN q
         /\ \A i \in DOMAIN q : Value(q[i]) /\ Values([q EXCEPT ![i] = v])
<1>1. q \in Seq(Objs \cup {Nil}) /\ v \in Objs \cup {Nil}
  BY DEF Values, Value, SlotSeqs
<1>2. Values(Append(q, v))
  BY <1>1 DEF Values, SlotSeqs
<1>3. ASSUME q # <<>>
      PROVE  Values(Front(q)) /\ Value(Last(q)) /\ Len(q) \in DOMAIN q
  <2>1. Len(q) \in Nat \ {0} /\ Len(q) \in DOMAIN q
    BY <1>1, <1>3
  <2>2. Front(q) \in Seq(Objs \cup {Nil}) /\ DOMAIN Front(q) = 1..(Len(q) - 1)
        /\ \A i \in 1..(Len(q) - 1) : Front(q)[i] = q[i]
    BY <1>1, <2>1 DEF Front
  <2>3. \A i \in 1..(Len(q) - 1) : i \in DOMAIN q
    BY <1>1, <2>1
  <2> QED
    BY <2>1, <2>2, <2>3 DEF Values, SlotSeqs, Last
<1>4. ASSUME q # <<>>
      PROVE  Values(Append(Front(q), v))
  <2>1. Values(Front(q))
    BY <1>3, <1>4
  <2>2. Front(q) \in Seq(Objs \cup {Nil})
    BY <2>1 DEF Values, SlotSeqs
  <2> QED
    BY <1>1, <2>1, <2>2 DEF Values, SlotSeqs
<1>5. \A i \in DOMAIN q : Value(q[i]) /\ Values([q EXCEPT ![i] = v])
  BY <1>1 DEF Values, SlotSeqs
<1> QED
  BY <1>2, <1>3, <1>4, <1>5

\* A value alone is a sequence of values.
LEMMA OneValue ==
  ASSUME NEW v, Value(v)
  PROVE  Values(<<v>>)
<1>1. v \in Objs \cup {Nil}
  BY DEF Value
<1>2. <<v>> \in Seq(Objs \cup {Nil}) /\ DOMAIN <<v>> = 1..1 /\ <<v>>[1] = v
  BY <1>1
<1> QED
  BY <1>2 DEF Values, SlotSeqs

\* A part of a sequence of values is one.
LEMMA PartsOfValues ==
  ASSUME NEW q, Values(q), NEW m \in Nat \ {0}, NEW n \in 0..Len(q)
  PROVE  /\ Values(SubSeq(q, m, n)) /\ Len(SubSeq(q, m, n)) = IF m <= n THEN n - m + 1 ELSE 0
         /\ \A k \in DOMAIN SubSeq(q, m, n) :
               m + k - 1 \in DOMAIN q /\ SubSeq(q, m, n)[k] = q[m + k - 1]
<1> DEFINE s == SubSeq(q, m, n)
<1>1. q \in Seq(Objs \cup {Nil}) /\ Len(q) \in Nat /\ n \in Nat /\ n <= Len(q)
  BY DEF Values, SlotSeqs
<1>2. s \in Seq(Objs \cup {Nil}) /\ Len(s) = (IF m <= n THEN n - m + 1 ELSE 0)
      /\ DOMAIN s = 1..Len(s)
  BY <1>1
<1>3. \A k \in 1..Len(s) : s[k] = q[m + k - 1]
  BY <1>1, <1>2
<1>4. \A k \in 1..Len(s) : m + k - 1 \in 1..Len(q)
  <2> HIDE DEF s
  <2> QED
    BY <1>1, <1>2
<1>5. DOMAIN q = 1..Len(q)
  BY <1>1
<1> HIDE DEF s
<1>6. Values(s)
  BY <1>2, <1>3, <1>4, <1>5 DEF Values, SlotSeqs
<1> QED
  BY <1>2, <1>3, <1>4, <1>5, <1>6 DEF s

\* The concatenation of two sequences of values is one.
LEMMA JoinedValues ==
  ASSUME NEW a, Values(a), NEW b, Values(b)
  PROVE  /\ Values(a \o b) /\ Len(a \o b) = Len(a) + Len(b)
         /\ \A k \in DOMAIN (a \o b) :
               (a \o b)[k] = IF k <= Len(a) THEN a[k] ELSE b[k - Len(a)]
<1> DEFINE s == a \o b
<1>1. a \in Seq(Objs \cup {Nil}) /\ b \in Seq(Objs \cup {Nil})
  BY DEF Values, SlotSeqs
<1>2. Len(a) \in Nat /\ Len(b) \in Nat /\ DOMAIN a = 1..Len(a) /\ DOMAIN b = 1..Len(b)
  BY <1>1
<1>3. s \in Seq(Objs \cup {Nil}) /\ Len(s) = Len(a) + Len(b) /\ DOMAIN s = 1..Len(s)
      /\ \A k \in 1..(Len(a) + Len(b)) : s[k] = IF k <= Len(a) THEN a[k] ELSE b[k - Len(a)]
  BY <1>1
<1> HIDE DEF s
<1>4. ASSUME NEW k \in DOMAIN s
      PROVE  Value(s[k])
  <2>1. CASE k <= Len(a)
    <3>1. k \in DOMAIN a /\ s[k] = a[k]
      BY <1>2, <1>3, <2>1
    <3> QED
      BY <3>1 DEF Values
  <2>2. CASE ~(k <= Len(a))
    <3>1. k - Len(a) \in DOMAIN b /\ s[k] = b[k - Len(a)]
      BY <1>2, <1>3, <2>2
    <3> QED
      BY <3>1 DEF Values
  <2> QED
    BY <2>1, <2>2
<1>5. Values(s)
  BY <1>3, <1>4 DEF Values, SlotSeqs
<1> QED
  BY <1>3, <1>5 DEF s

\* Shading only darkens.
LEMMA ShadesDarken ==
  ASSUME IndInv, Exact(gc'), Shades(gc, gc')
  PROVE  Darkens
  BY StackFacts DEF Shades, Darkens, Color

\* A value is live after a step that only darkens.
LEMMA ValuesStay ==
  ASSUME IndInv, Darkens, NEW q, Values(q)
  PROVE  \A i \in DOMAIN q : q[i] # Nil => q[i] \notin Stacks /\ gc'.color[q[i]] # "free"
  BY DEF Values, Value, Darkens, Live, Color

\* A step that writes values to the stack and to one other object.
LEMMA WritesSafe ==
  ASSUME IndInv, ~collect.running, MovesOnly, Darkens,
         NEW o \in Objs \ (Threads \cup FinCells), Live(o), Color(o) # "permanent",
         slots' \in [Objs -> SlotSeqs],
         \A x \in Objs \ {o, mStack} : slots'[x] = slots[x],
         Values(slots'[o]), Values(slots'[mStack]),
         o # mStack /\ gc'.color[o] = "black" =>
             \A i \in DOMAIN slots'[o] :
                slots'[o][i] # Nil /\ (o = partial.obj => i <= partial.slot) =>
                    gc'.color[slots'[o][i]] # "white",
         o = Process => Len(slots'[o]) = 3 /\ slots'[o][2] = slots[o][2],
         o \in frames => Len(slots'[o]) = 2 /\ slots'[o][1] \in frames \cup {Nil},
         o \in Cells \ frames /\ 2 \in DOMAIN slots[o] /\ slots[o][2] \in FinCells =>
             2 \in DOMAIN slots'[o] /\ slots'[o][2] = slots[o][2]
  PROVE  IndInv'
<1>1. \A x \in Objs : gc.color[x] \in Colors
  BY DEF IndInv, Exact, Heaps
<1>2. Moves(mStack)
  <2>1. Wrote(mStack)
    BY StackFacts, ValuesStay DEF Wrote, Darkens, Color
  <2> QED
    BY <2>1, StackFacts DEF Moves, IndInv, Types
<1>3. o # mStack => Moves(o)
  <2>1. gc'.color[o] \in {"white", "grey", "black"} /\ gc'.color[o] = "white" => gc.color[o] = "white"
    BY <1>1 DEF Darkens, Live, Color, Colors
  <2>2. gc'.color[o] \in {"white", "grey", "black"}
    BY <1>1 DEF Darkens, Live, Color, Colors
  <2>3. o # mStack => Wrote(o)
    BY <2>1, <2>2, ValuesStay DEF Wrote, Color
  <2> QED
    BY <2>3 DEF Moves
<1>4. \A x \in Objs \ {o, mStack} : Kept(x)
  BY DEF Kept, Darkens
<1>5. \A x \in Objs : Kept(x) \/ Moves(x)
  BY <1>2, <1>3, <1>4
<1>6. frame' \in frames \cup {Nil} /\ collect' = collect /\ delay' = delay
      /\ UNCHANGED <<mStack, frames, partial, mFlips, finalized, retired, program>>
  BY DEF MovesOnly, scanVars, IndInv, Types
<1>7. collect' \in [running : BOOLEAN, more : BOOLEAN, stackScanned : BOOLEAN] /\ ~collect'.stackScanned
  BY <1>6 DEF IndInv, Types, RootsScanned
<1> QED
  BY <1>5, <1>6, <1>7, MovesSafe

\* Only the stack is written to.
LEMMA StackSafe ==
  ASSUME IndInv, ~collect.running, MovesOnly, UNCHANGED gc, NEW q, Values(q),
         slots' = [slots EXCEPT ![mStack] = q]
  PROVE  IndInv'
<1>1. Darkens
  BY StackFacts DEF Darkens, IndInv, Color
<1>2. slots' \in [Objs -> SlotSeqs] /\ slots'[mStack] = q /\ \A x \in Objs \ {mStack} : slots'[x] = slots[x]
  BY StackFacts DEF IndInv, Types, Values
<1>3. mStack \in Objs \ (Threads \cup FinCells) /\ Live(mStack) /\ Color(mStack) # "permanent"
      /\ mStack # Process /\ mStack \notin frames /\ mStack \notin Cells
  BY StackFacts DEF IndInv, Types
<1>4. Values(slots'[mStack]) /\ \A x \in Objs \ {mStack, mStack} : slots'[x] = slots[x]
  BY <1>2
<1> HIDE DEF MovesOnly
<1> QED
  BY <1>1, <1>2, <1>3, <1>4, WritesSafe

\* Steps that change nothing but the stack, which needs no barrier.
LEMMA StackSteps ==
  ASSUME IndInv,
         \/ Pop \/ PushTempVar
         \/ \E o \in OnStack \cup {Process} : \E i \in DOMAIN slots[o] : PushSlot(o, i)
         \/ \E t \in Threads : PushThread(t)
  PROVE  IndInv'
<1>1. CASE Pop
  <2>1. Values(Front(slots[mStack]))
    BY <1>1, StackFacts, SequencesOfValues, NilIsValue DEF Pop
  <2> QED
    BY <1>1, <2>1, StackSafe DEF Pop
<1>2. ASSUME NEW o \in OnStack \cup {Process}, NEW i \in DOMAIN slots[o], PushSlot(o, i)
      PROVE  IndInv'
  <2>1. o \in Objs \ Threads /\ Live(o) /\ o \notin retired
    <3>1. CASE o \in OnStack \cap (Cells \ frames)
      BY <3>1, StackFacts, Disjoint DEF Value, IndInv, Types
    <3>2. CASE o = Process
      BY <3>2, Disjoint DEF IndInv, Types, RootsKept, Live
    <3> QED
      BY <1>2, <3>1, <3>2 DEF PushSlot
  <2>2. Value(slots[o][i])
    BY <1>2, <2>1, ObjectValues DEF PushSlot, Values
  <2>3. Values(Push(slots[o][i]))
    BY <2>2, StackFacts, SequencesOfValues DEF Push
  <2> QED
    BY <1>2, <2>3, StackSafe DEF PushSlot
<1>3. CASE PushTempVar
  <2>1. frame \in frames /\ frame \in Objs \ Threads /\ Live(frame) /\ frame \notin retired
        /\ Len(slots[frame]) = 2
    BY <1>3, Disjoint DEF PushTempVar, IndInv, Types, FramesShaped
  <2>2. Values(slots[frame]) /\ slots[frame] \in Seq(Objs \cup {Nil})
    BY <2>1, ObjectValues DEF IndInv, Types, SlotSeqs
  <2>3. 2 \in DOMAIN slots[frame]
    BY <2>1, <2>2
  <2>4. Values(Push(slots[frame][2]))
    <3>1. Value(slots[frame][2])
      BY <2>2, <2>3 DEF Values
    <3> QED
      BY <3>1, StackFacts, SequencesOfValues DEF Push
  <2> QED
    BY <1>3, <2>4, StackSafe DEF PushTempVar, Running
<1>4. ASSUME NEW t \in Threads, PushThread(t)
      PROVE  IndInv'
  <2>1. Values(slots[Process])
    BY ObjectValues, Disjoint DEF IndInv, RootsKept, Types, Live
  <2>2. Value(t)
    BY <1>4, <2>1 DEF PushThread, Range, Values
  <2>3. Values(Push(t))
    BY <2>2, StackFacts, SequencesOfValues DEF Push
  <2> QED
    BY <1>4, <2>3, StackSafe DEF PushThread, Running
<1> QED
  BY <1>1, <1>2, <1>3, <1>4

\* What the invariant says of a live cell.
LEMMA CellFacts ==
  ASSUME IndInv, NEW o \in Cells, Live(o)
  PROVE  /\ o \in Objs \ (Threads \cup FinCells) /\ o # mStack /\ o # Process
         /\ o \notin retired /\ Values(slots[o]) /\ slots[o] \in Seq(Objs \cup {Nil})
         /\ Color(o) = "black" => \A i \in DOMAIN slots[o] :
              slots[o][i] # Nil /\ (o = partial.obj => i <= partial.slot) =>
                  Color(slots[o][i]) # "white"
<1>1. /\ o \in Objs \ (Threads \cup FinCells) /\ o # mStack /\ o # Process
      /\ o \notin retired
  BY Disjoint, StackFacts DEF IndInv, Types
<1>2. Values(slots[o]) /\ slots[o] \in Seq(Objs \cup {Nil})
  BY <1>1, ObjectValues DEF Values, SlotSeqs
<1>3. ShadedRefs(o)
  BY <1>1 DEF IndInv, Sound
<1> QED
  BY <1>1, <1>2, <1>3 DEF ShadedRefs, ScannedSlots

\* A slot of a cell or of the process is written to, behind the barrier.
LEMMA SlotWritten ==
  ASSUME IndInv, ~collect.running, MovesOnly,
         NEW o \in Cells \cup {Process}, Live(o), Color(o) # "permanent",
         NEW i \in DOMAIN slots[o], NEW v, Value(v),
         slots' = [slots EXCEPT ![o][i] = v], gc' = GCWrite(gc, o, v),
         o = Process => i = 3, o \in frames => i = 2, o \in Cells \ frames => slots[o][i] \notin FinCells
  PROVE  IndInv'
<1>1. /\ o \in Objs \ (Threads \cup FinCells) /\ o # mStack /\ o \notin retired
      /\ Values(slots[o]) /\ slots[o] \in Seq(Objs \cup {Nil})
  <2>1. CASE o \in Cells
    BY <2>1, CellFacts
  <2>2. CASE o = Process
    <3>1. o \in Objs \ Threads /\ o \notin FinCells /\ o # mStack /\ o \notin retired
      BY <2>2, Disjoint, StackFacts DEF IndInv, Types
    <3> QED
      BY <3>1, ObjectValues DEF Values, SlotSeqs
  <2> QED
    BY <2>1, <2>2
<1>2. v \in Objs \cup {Nil}
  BY DEF Value
<1>3. /\ Exact(gc') /\ Shades(gc, gc')
      /\ gc.color[o] = "black" /\ v # Nil => gc'.color[v] # "white"
  BY <1>1, <1>2, GCWriteExact DEF IndInv
<1>4. Darkens
  BY <1>3, ShadesDarken
<1>5. /\ slots'[o] = [slots[o] EXCEPT ![i] = v]
      /\ \A x \in Objs \ {o} : slots'[x] = slots[x]
  BY <1>1 DEF IndInv, Types
<1>6. Values(slots'[o])
  BY <1>1, <1>5, SequencesOfValues
<1>7. slots' \in [Objs -> SlotSeqs]
  <2>1. slots \in [Objs -> SlotSeqs]
    BY DEF IndInv, Types
  <2>2. [slots[o] EXCEPT ![i] = v] \in SlotSeqs
    BY <1>5, <1>6 DEF Values
  <2> QED
    BY <2>1, <2>2
<1>8. Values(slots'[mStack])
  BY <1>1, <1>5, StackFacts
<1>9. DOMAIN slots'[o] = DOMAIN slots[o] /\ Len(slots'[o]) = Len(slots[o])
      /\ \A k \in DOMAIN slots[o] : slots'[o][k] = IF k = i THEN v ELSE slots[o][k]
  BY <1>1, <1>2, <1>5
<1>10. gc'.color[o] = "black" =>
         \A k \in DOMAIN slots'[o] :
            slots'[o][k] # Nil /\ (o = partial.obj => k <= partial.slot) =>
                gc'.color[slots'[o][k]] # "white"
  <2> SUFFICES ASSUME gc'.color[o] = "black", NEW k \in DOMAIN slots[o],
                      slots'[o][k] # Nil, o = partial.obj => k <= partial.slot
               PROVE  gc'.color[slots'[o][k]] # "white"
    BY <1>9
  <2>1. gc.color[o] = "black"
    BY <1>1, <1>3 DEF Shades
  <2>2. CASE k = i
    BY <1>3, <1>9, <2>1, <2>2
  <2>3. CASE k # i
    <3>1. ShadedRefs(o)
      BY <1>1 DEF IndInv, Sound
    <3>2. gc.color[slots[o][k]] # "white"
      BY <1>1, <1>9, <2>1, <2>3, <3>1 DEF ShadedRefs, ScannedSlots, Color
    <3>3. slots[o][k] \in Objs
      BY <1>1, <1>9, <2>3
    <3> QED
      BY <1>3, <1>9, <2>3, <3>2, <3>3 DEF Shades
  <2> QED
    BY <2>2, <2>3
<1>11. o = Process => Len(slots'[o]) = 3 /\ slots'[o][2] = slots[o][2]
  <2>1. ASSUME o = Process PROVE 2 \in DOMAIN slots[o] /\ Len(slots[o]) = 3
    BY <1>1, <2>1 DEF IndInv, RootsKept
  <2> QED
    BY <1>9, <2>1
<1>12. o \in frames => Len(slots'[o]) = 2 /\ slots'[o][1] \in frames \cup {Nil}
  <2>1. ASSUME o \in frames
        PROVE  1 \in DOMAIN slots[o] /\ Len(slots[o]) = 2 /\ slots[o][1] \in frames \cup {Nil}
    BY <1>1, <2>1 DEF IndInv, FramesShaped
  <2> QED
    BY <1>9, <2>1
<1>13. o \in Cells \ frames /\ 2 \in DOMAIN slots[o] /\ slots[o][2] \in FinCells =>
         2 \in DOMAIN slots'[o] /\ slots'[o][2] = slots[o][2]
  BY <1>9
<1> QED
  BY <1>1, <1>4, <1>5, <1>6, <1>7, <1>8, <1>10, <1>11, <1>12, <1>13, WritesSafe

\* Assignments to a slot, with the barrier GCWrite.
LEMMA SlotSteps ==
  ASSUME IndInv, NEW v \in OnStack \cup {Nil},
         \/ StoreClassVar(v) \/ StoreTempVar(v)
         \/ \E o \in OnStack, i \in 1..MaxSlots : PutSlot(o, i, v)
  PROVE  IndInv'
<1>1. Value(v)
  BY StackFacts, NilIsValue
<1>2. CASE StoreClassVar(v)
  <2>1. Live(Process) /\ Color(Process) # "permanent" /\ slots[Process] \in Seq(Objs \cup {Nil})
        /\ Len(slots[Process]) = 3
    BY Disjoint DEF IndInv, Types, RootsKept, Live, SlotSeqs
  <2>2. 3 \in DOMAIN slots[Process]
    BY <2>1
  <2>3. Process \notin frames /\ Process \notin Cells
    BY Disjoint DEF IndInv, Types
  <2> QED
    BY <1>1, <1>2, <2>1, <2>2, <2>3, SlotWritten DEF StoreClassVar, Running
<1>3. CASE StoreTempVar(v)
  <2>1. frame \in Cells /\ frame \in frames /\ Live(frame) /\ Len(slots[frame]) = 2 /\ frame # Process
    BY <1>3, Disjoint DEF StoreTempVar, IndInv, Types, FramesShaped
  <2>2. slots[frame] \in Seq(Objs \cup {Nil})
    BY <2>1, CellFacts
  <2>3. 2 \in DOMAIN slots[frame]
    BY <2>1, <2>2
  <2>4. Color(frame) # "permanent"
    BY <2>1 DEF IndInv, FramesShaped
  <2> QED
    BY <1>1, <1>3, <2>1, <2>3, <2>4, SlotWritten DEF StoreTempVar, Running
<1>4. ASSUME NEW o \in OnStack, NEW i \in 1..MaxSlots, PutSlot(o, i, v)
      PROVE  IndInv'
  <2>1. o \in Cells \ frames /\ Live(o) /\ Color(o) # "permanent" /\ o # Process
    BY <1>4, StackFacts, Disjoint DEF PutSlot, Mutable, Value
  <2> QED
    BY <1>1, <1>4, <2>1, SlotWritten DEF PutSlot, Running
<1> QED
  BY <1>2, <1>3, <1>4

Rewrites(o, q, r) == slots' = [slots EXCEPT ![o] = q, ![mStack] = r]

\* Of what o is given, nothing that counts as scanned is white.
Barriered(o, q) ==
    gc'.color[o] = "black" =>
        \A i \in DOMAIN q : q[i] # Nil /\ (o = partial.obj => i <= partial.slot) =>
            gc'.color[q[i]] # "white"

\* A step that gives a cell that is no frame new slots, and perhaps the stack.
LEMMA CellWritten ==
  ASSUME IndInv, ~collect.running, MovesOnly, Darkens,
         NEW o \in Cells \ frames, Live(o), Color(o) # "permanent",
         NEW q, Values(q), NEW r, Values(r), Rewrites(o, q, r), Barriered(o, q),
         2 \in DOMAIN slots[o] /\ slots[o][2] \in FinCells => 2 \in DOMAIN q /\ q[2] = slots[o][2]
  PROVE  IndInv'
<1>1. o \in Objs \ (Threads \cup FinCells) /\ o # mStack /\ o # Process /\ mStack \in Objs
  BY CellFacts, StackFacts
<1>2. slots \in [Objs -> SlotSeqs] /\ q \in SlotSeqs /\ r \in SlotSeqs
  BY DEF IndInv, Types, Values
<1>3. /\ slots' \in [Objs -> SlotSeqs] /\ slots'[o] = q /\ slots'[mStack] = r
      /\ \A x \in Objs \ {o, mStack} : slots'[x] = slots[x]
  BY <1>1, <1>2 DEF Rewrites
<1>4. gc'.color[o] = "black" =>
        \A i \in DOMAIN q : q[i] # Nil /\ (o = partial.obj => i <= partial.slot) =>
            gc'.color[q[i]] # "white"
  BY DEF Barriered
<1> QED
  BY <1>1, <1>3, <1>4, WritesSafe

\* A cell that is written to leaves the stack as it is.
LEMMA StackRewritten ==
  ASSUME IndInv, NEW o \in Cells, NEW q, slots' = [slots EXCEPT ![o] = q]
  PROVE  Rewrites(o, q, slots[mStack])
<1>1. o # mStack /\ mStack \in Objs /\ slots \in [Objs -> SlotSeqs]
  BY StackFacts DEF IndInv, Types
<1> QED
  BY <1>1 DEF Rewrites

Appends(o, v) == slots' = [slots EXCEPT ![o] = Append(@, v)] /\ gc' = GCWrite(gc, o, v)

\* Adding an element at the end of an array.
LEMMA Appended ==
  ASSUME IndInv, ~collect.running, MovesOnly,
         NEW o \in Cells \ frames, Live(o), Color(o) # "permanent", NEW v, Value(v),
         Appends(o, v)
  PROVE  IndInv'
<1> DEFINE q == Append(slots[o], v)
<1>1. /\ o \in Objs /\ slots[o] \in Seq(Objs \cup {Nil}) /\ Values(slots[o]) /\ v \in Objs \cup {Nil}
  BY CellFacts DEF Value
<1>2. /\ Exact(gc') /\ Shades(gc, gc')
      /\ gc.color[o] = "black" /\ v # Nil => gc'.color[v] # "white"
  BY <1>1, GCWriteExact DEF IndInv, Appends
<1>3. Values(q)
  BY <1>1, SequencesOfValues
<1>4. /\ DOMAIN q = 1..(Len(slots[o]) + 1) /\ q[Len(slots[o]) + 1] = v
      /\ \A i \in DOMAIN slots[o] : i \in DOMAIN q /\ q[i] = slots[o][i]
      /\ \A i \in DOMAIN q : i = Len(slots[o]) + 1 \/ i \in DOMAIN slots[o]
  BY <1>1
<1>5. Rewrites(o, q, slots[mStack])
  <2>1. slots' = [slots EXCEPT ![o] = q]
    BY DEF IndInv, Types, Appends
  <2> QED
    BY <2>1, StackRewritten
<1> HIDE DEF q
<1>6. ASSUME gc'.color[o] = "black", NEW i \in DOMAIN q, q[i] # Nil,
             o = partial.obj => i <= partial.slot
      PROVE  gc'.color[q[i]] # "white"
  <2>1. gc.color[o] = "black"
    BY <1>1, <1>2, <1>6 DEF Shades
  <2>2. CASE i = Len(slots[o]) + 1
    BY <1>2, <1>4, <1>6, <2>1, <2>2
  <2>3. CASE i \in DOMAIN slots[o]
    <3>1. q[i] = slots[o][i] /\ q[i] \in Objs
      BY <1>1, <1>4, <1>6, <2>3
    <3>2. gc.color[q[i]] # "white"
      BY <1>6, <2>1, <2>3, <3>1, CellFacts DEF Color
    <3> QED
      BY <1>2, <3>1, <3>2 DEF Shades
  <2> QED
    BY <1>4, <2>2, <2>3
<1>7. Darkens
  BY <1>2, ShadesDarken
<1>8. Values(slots[mStack])
  BY StackFacts
<1>9. 2 \in DOMAIN slots[o] /\ slots[o][2] \in FinCells => 2 \in DOMAIN q /\ q[2] = slots[o][2]
  BY <1>4
<1>10. Barriered(o, q)
  BY <1>6 DEF Barriered
<1> QED
  BY <1>3, <1>5, <1>7, <1>8, <1>9, <1>10, CellWritten

\* Array add, with its barrier, preserves the invariant.
LEMMA ArrayAddStep ==
  ASSUME IndInv, NEW o \in OnStack, NEW v \in OnStack \cup {Nil}, ArrayAdd(o, v)
  PROVE  IndInv'
<1>1. o \in Cells \ frames /\ Live(o) /\ Color(o) # "permanent"
  BY StackFacts DEF ArrayAdd, MutableArray, Mutable, Value
<1>2. Value(v)
  BY StackFacts, NilIsValue
<1> QED
  BY <1>1, <1>2, Appended DEF ArrayAdd, Running, Appends

\* A store by a primitive that has objects of its own preserves it.
LEMMA PrimitiveStoreStep ==
  ASSUME IndInv, NEW o \in delay.temps \cup OnStack, NEW v \in delay.temps \cup OnStack,
         PrimitiveStore(o, v)
  PROVE  IndInv'
<1>1. \A x \in delay.temps : x \in Cells \ frames /\ Live(x) /\ Color(x) # "permanent" /\ Value(x)
  BY Disjoint DEF IndInv, Types, TempsHeld, Value
<1>2. o \in Cells \ frames /\ Live(o) /\ Color(o) # "permanent"
  BY <1>1, StackFacts DEF PrimitiveStore, MutableArray, Mutable, Value
<1>3. Value(v) /\ v # Nil
  BY <1>1, StackFacts, Disjoint
<1>4. gc' = GCWrite(gc, o, v)
  BY <1>3 DEF PrimitiveStore, GCWriteNew, GCWrite, GCWriteBlack, Color
<1>5. ~collect.running
  BY DEF PrimitiveStore, IndInv, TempsHeld
<1> QED
  BY <1>2, <1>3, <1>4, <1>5, Appended DEF PrimitiveStore, Appends

\* The inserted element needs no barrier: the array is scanned again.
LEMMA ArrayInsertStep ==
  ASSUME IndInv, NEW o \in OnStack, NEW i \in 1..MaxSlots, NEW v \in OnStack \cup {Nil},
         ArrayInsert(o, i, v)
  PROVE  IndInv'
<1> DEFINE q == InsertAt(slots[o], i, v)
<1>1. o \in Cells \ frames /\ Live(o) /\ Color(o) # "permanent" /\ ~HasFinalizer(o)
  BY StackFacts DEF ArrayInsert, MutableArray, Mutable, Value
<1>2. Value(v) /\ v \in Objs \cup {Nil}
  BY StackFacts, NilIsValue DEF Value
<1>3. o \in Objs /\ slots[o] \in Seq(Objs \cup {Nil}) /\ Values(slots[o]) /\ o # mStack
  BY <1>1, CellFacts
<1>4. i \in 1..(Len(slots[o]) + 1) /\ ~collect.running /\ MovesOnly
  BY <1>3 DEF ArrayInsert, Running
<1>5. Values(q)
  <2> DEFINE a == SubSeq(slots[o], 1, i - 1)
             b == SubSeq(slots[o], i, Len(slots[o]))
  <2>1. Len(slots[o]) \in Nat /\ i - 1 \in 0..Len(slots[o]) /\ i - 1 \in Nat /\ i \in Nat \ {0}
    BY <1>3, <1>4
  <2>2. Values(a) /\ Values(b) /\ Values(<<v>>)
    BY <1>2, <1>3, <2>1, PartsOfValues, OneValue
  <2>3. q = (a \o <<v>>) \o b
    BY DEF InsertAt
  <2> HIDE DEF a, b, q
  <2>4. Values(a \o <<v>>)
    BY <2>2, JoinedValues
  <2> QED
    BY <2>2, <2>3, <2>4, JoinedValues
<1>6. Rewrites(o, q, slots[mStack])
  <2>1. slots' = [slots EXCEPT ![o] = q]
    BY DEF ArrayInsert, IndInv, Types
  <2> QED
    BY <1>1, <2>1, StackRewritten
<1>7. gc' = (IF Color(o) = "grey" THEN gc ELSE ToGrey(gc, o)) /\ Exact(gc)
  BY DEF ArrayInsert, IndInv
<1>8. /\ Exact(gc') /\ gc'.color[o] = "grey"
      /\ \A x \in Objs : x # o => gc'.color[x] = gc.color[x]
  <2>1. CASE Color(o) = "grey"
    BY <1>7, <2>1 DEF Color
  <2>2. CASE Color(o) # "grey"
    BY <1>3, <1>7, <2>2, ToGreyExact DEF Color
  <2> QED
    BY <2>1, <2>2
<1>9. gc.color[o] \in {"white", "grey", "black"}
  BY <1>1, <1>3 DEF IndInv, Exact, Heaps, Colors, Live, Color
<1>10. Darkens
  BY <1>3, <1>8, <1>9, StackFacts DEF Darkens, Color
<1>11. ~(2 \in DOMAIN slots[o] /\ slots[o][2] \in FinCells)
  BY <1>1 DEF HasFinalizer
<1>12. Values(slots[mStack])
  BY StackFacts
<1>13. Barriered(o, q)
  BY <1>8 DEF Barriered
<1> HIDE DEF q
<1> QED
  BY <1>1, <1>4, <1>5, <1>6, <1>10, <1>11, <1>12, <1>13, CellWritten

\* Array swap, which gives the barrier both elements, preserves it.
LEMMA ArraySwapStep ==
  ASSUME IndInv, NEW o \in OnStack, NEW i \in 1..MaxSlots, NEW j \in 1..MaxSlots, i < j,
         ArraySwap(o, i, j)
  PROVE  IndInv'
<1> DEFINE q == [slots[o] EXCEPT ![i] = slots[o][j], ![j] = slots[o][i]]
           h == GCWrite(gc, o, slots[o][i])
<1>1. o \in Cells \ frames /\ Live(o) /\ Color(o) # "permanent" /\ ~HasFinalizer(o)
  BY StackFacts DEF ArraySwap, MutableArray, Mutable, Value
<1>2. o \in Objs /\ slots[o] \in Seq(Objs \cup {Nil}) /\ Values(slots[o]) /\ o # mStack
  BY <1>1, CellFacts
<1>3. i \in DOMAIN slots[o] /\ j \in DOMAIN slots[o] /\ ~collect.running /\ MovesOnly
  BY DEF ArraySwap, Running
<1>4. Value(slots[o][i]) /\ Value(slots[o][j])
  BY <1>2, <1>3 DEF Values
<1>5. /\ DOMAIN q = DOMAIN slots[o]
      /\ \A k \in DOMAIN slots[o] :
            q[k] = IF k = j THEN slots[o][i] ELSE IF k = i THEN slots[o][j] ELSE slots[o][k]
  BY <1>2, <1>3
<1>6. Values(q)
  <2>1. Values([slots[o] EXCEPT ![i] = slots[o][j]])
    BY <1>2, <1>3, <1>4, SequencesOfValues
  <2>2. j \in DOMAIN [slots[o] EXCEPT ![i] = slots[o][j]]
    BY <1>3
  <2> QED
    BY <1>4, <2>1, <2>2, SequencesOfValues
<1>7. Rewrites(o, q, slots[mStack])
  <2>1. slots' = [slots EXCEPT ![o] = q]
    BY <1>2 DEF ArraySwap, IndInv, Types
  <2> QED
    BY <1>1, <2>1, StackRewritten
<1>8. /\ Exact(h) /\ Shades(gc, h)
      /\ gc.color[o] = "black" /\ slots[o][i] # Nil => h.color[slots[o][i]] # "white"
  BY <1>2, <1>4, GCWriteExact DEF IndInv, Value
<1>9. gc' = GCWrite(h, o, slots[o][j])
  BY DEF ArraySwap, SwapColors
<1> HIDE DEF q, h
<1>10. /\ Exact(gc') /\ Shades(h, gc')
       /\ h.color[o] = "black" /\ slots[o][j] # Nil => gc'.color[slots[o][j]] # "white"
  BY <1>2, <1>4, <1>8, <1>9, GCWriteExact DEF Value
<1>11. Shades(gc, gc')
  BY <1>8, <1>10 DEF Shades
<1>12. ASSUME gc'.color[o] = "black", NEW k \in DOMAIN q, q[k] # Nil,
             o = partial.obj => k <= partial.slot
       PROVE  gc'.color[q[k]] # "white"
  <2>1. gc.color[o] = "black" /\ h.color[o] = "black"
    BY <1>2, <1>8, <1>10, <1>11, <1>12 DEF Shades
  <2>2. CASE k = j
    <3>1. q[k] = slots[o][i] /\ q[k] \in Objs
      BY <1>2, <1>3, <1>5, <1>12, <2>2
    <3> QED
      BY <1>8, <1>10, <1>12, <2>1, <3>1 DEF Shades
  <2>3. CASE k = i /\ k # j
    BY <1>3, <1>5, <1>10, <1>12, <2>1, <2>3
  <2>4. CASE k # i /\ k # j
    <3>1. q[k] = slots[o][k] /\ q[k] \in Objs /\ k \in DOMAIN slots[o]
      BY <1>2, <1>5, <1>12, <2>4
    <3>2. gc.color[q[k]] # "white"
      BY <1>1, <1>12, <2>1, <3>1, CellFacts DEF Color
    <3> QED
      BY <1>11, <3>1, <3>2 DEF Shades
  <2> QED
    BY <2>2, <2>3, <2>4
<1>13. ~(2 \in DOMAIN slots[o] /\ slots[o][2] \in FinCells)
  BY <1>1 DEF HasFinalizer
<1>14. Darkens /\ Values(slots[mStack])
  BY <1>10, <1>11, ShadesDarken, StackFacts
<1>15. Barriered(o, q)
  BY <1>12 DEF Barriered
<1> QED
  BY <1>1, <1>3, <1>6, <1>7, <1>13, <1>14, <1>15, CellWritten

\* An element leaves an array for the top of the stack.
LEMMA Taken ==
  ASSUME IndInv, ~collect.running, MovesOnly, slots[mStack] # <<>>,
         NEW o \in Cells, Live(o), MutableArray(o),
         NEW i \in DOMAIN slots[o], NEW q, Values(q),
         Rewrites(o, q, ReplaceTop(slots[o][i])),
         Exact(gc'), Shades(gc, gc'), Barriered(o, q)
  PROVE  IndInv'
<1>1. Values(slots[mStack]) /\ Values(slots[o])
  BY StackFacts, CellFacts
<1>2. o \in Cells \ frames /\ Color(o) # "permanent" /\ ~HasFinalizer(o)
  BY DEF MutableArray, Mutable
<1>3. Values(ReplaceTop(slots[o][i]))
  BY <1>1, SequencesOfValues DEF ReplaceTop, Values
<1>4. Darkens
  BY ShadesDarken
<1>5. ~(2 \in DOMAIN slots[o] /\ slots[o][2] \in FinCells)
  BY <1>2 DEF HasFinalizer
<1> QED
  BY <1>2, <1>3, <1>4, <1>5, CellWritten

\* What was not white, or is given to the barrier, is not white afterwards.
LEMMA StaysBarriered ==
  ASSUME Shades(gc, gc'), NEW o \in Objs, NEW q, Values(q),
         Color(o) = "black" =>
            \A k \in DOMAIN q : q[k] # Nil /\ (o = partial.obj => k <= partial.slot) =>
               gc'.color[q[k]] # "white" \/ gc.color[q[k]] # "white"
  PROVE  Barriered(o, q)
<1>1. \A k \in DOMAIN q : q[k] \in Objs \cup {Nil}
  BY DEF Values, Value
<1> QED
  BY <1>1 DEF Barriered, Shades, Color

\* takeAt moves the last element down, and gives it to the barrier.
LEMMA ArrayTakeAtStep ==
  ASSUME IndInv, NEW o \in OnStack, NEW i \in 1..MaxSlots, ArrayTakeAt(o, i)
  PROVE  IndInv'
<1> DEFINE n == Len(slots[o])
           p == [slots[o] EXCEPT ![i] = slots[o][n]]
           q == Front(p)
<1>1. o \in Cells /\ Live(o) /\ i \in DOMAIN slots[o] /\ MutableArray(o) /\ slots[mStack] # <<>>
      /\ ~collect.running /\ MovesOnly
  BY StackFacts DEF HasTop, ArrayTakeAt, MutableArray, Mutable, Value, Running
<1>2. /\ o \in Objs /\ slots[o] \in Seq(Objs \cup {Nil}) /\ Values(slots[o])
      /\ n \in Nat /\ n \in DOMAIN slots[o] /\ DOMAIN slots[o] = 1..n
  BY <1>1, CellFacts
<1>3. Value(slots[o][n]) /\ slots[o][n] \in Objs \cup {Nil}
  BY <1>2 DEF Values, Value
<1>4. Values(p) /\ Len(p) = n /\ p \in Seq(Objs \cup {Nil})
      /\ \A k \in 1..n : p[k] = IF k = i THEN slots[o][n] ELSE slots[o][k]
  BY <1>1, <1>2, <1>3, SequencesOfValues
<1>5. Rewrites(o, q, ReplaceTop(slots[o][i]))
  BY <1>2 DEF Rewrites, ArrayTakeAt, ReplaceAt, Last, IndInv, Types
<1>6. gc' = GCWrite(gc, o, slots[o][n])
  BY DEF ArrayTakeAt, Last
<1>7. /\ Exact(gc') /\ Shades(gc, gc')
      /\ gc.color[o] = "black" /\ slots[o][n] # Nil => gc'.color[slots[o][n]] # "white"
  BY <1>2, <1>3, <1>6, GCWriteExact DEF IndInv
<1> HIDE DEF p
<1>8. Values(q) /\ \A k \in DOMAIN q : k \in DOMAIN slots[o] /\ q[k] = p[k]
  <2>1. n - 1 \in 0..Len(p) /\ 1 \in Nat \ {0} /\ q = SubSeq(p, 1, n - 1)
    BY <1>2, <1>4 DEF Front
  <2> HIDE DEF q, n
  <2>2. Values(q) /\ Len(q) = (IF 1 <= n - 1 THEN n - 1 ELSE 0)
        /\ \A k \in DOMAIN q : 1 + k - 1 \in DOMAIN p /\ q[k] = p[1 + k - 1]
    BY <1>4, <2>1, PartsOfValues
  <2>3. \A k \in DOMAIN q : k \in Nat
    BY <2>2 DEF Values, SlotSeqs
  <2>4. DOMAIN p = 1..n
    BY <1>4
  <2> QED
    BY <1>2, <2>2, <2>3, <2>4
<1> HIDE DEF q
<1>9. ASSUME Color(o) = "black", NEW k \in DOMAIN q, q[k] # Nil,
             o = partial.obj => k <= partial.slot
      PROVE  gc'.color[q[k]] # "white" \/ gc.color[q[k]] # "white"
  <2>1. CASE k = i
    <3>1. q[k] = slots[o][n]
      BY <1>2, <1>4, <1>8, <1>9, <2>1
    <3> QED
      BY <1>7, <1>9, <3>1 DEF Color
  <2>2. CASE k # i
    <3>1. q[k] = slots[o][k] /\ k \in DOMAIN slots[o]
      BY <1>2, <1>4, <1>8, <1>9, <2>2
    <3> QED
      BY <1>1, <1>9, <3>1, CellFacts DEF Color
  <2> QED
    BY <2>1, <2>2
<1>10. Barriered(o, q)
  BY <1>2, <1>7, <1>8, <1>9, StaysBarriered
<1> QED
  BY <1>1, <1>5, <1>7, <1>8, <1>10, Taken

\* All the elements were scanned: the array's scan is not under way.
LEMMA ArrayRemoveAtStep ==
  ASSUME IndInv, NEW o \in OnStack, NEW i \in 1..MaxSlots, ArrayRemoveAt(o, i), o # partial.obj
  PROVE  IndInv'
<1> DEFINE n == Len(slots[o])
           a == SubSeq(slots[o], 1, i - 1)
           b == SubSeq(slots[o], i + 1, n)
           q == a \o b
<1>1. o \in Cells /\ Live(o) /\ i \in DOMAIN slots[o] /\ MutableArray(o) /\ slots[mStack] # <<>>
      /\ ~collect.running /\ MovesOnly
  BY StackFacts DEF HasTop, ArrayRemoveAt, MutableArray, Mutable, Value, Running
<1>2. /\ o \in Objs /\ slots[o] \in Seq(Objs \cup {Nil}) /\ Values(slots[o])
      /\ n \in Nat /\ DOMAIN slots[o] = 1..n
  BY <1>1, CellFacts
<1>3. Rewrites(o, q, ReplaceTop(slots[o][i]))
  BY <1>2 DEF Rewrites, ArrayRemoveAt, RemoveAt, IndInv, Types
<1>4. Exact(gc') /\ Shades(gc, gc')
  <2>1. CASE i < n
    <3>1. i + 1 \in DOMAIN slots[o]
      BY <1>1, <1>2, <2>1
    <3>2. slots[o][i + 1] \in Objs \cup {Nil}
      BY <1>2, <3>1
    <3>3. gc' = GCWrite(gc, o, slots[o][i + 1]) /\ Exact(gc)
      BY <2>1 DEF ArrayRemoveAt, IndInv
    <3> QED
      BY <1>2, <3>2, <3>3, GCWriteExact
  <2>2. CASE ~(i < n)
    BY <2>2 DEF ArrayRemoveAt, Shades, IndInv
  <2> QED
    BY <2>1, <2>2
<1> HIDE DEF n
<1>5. i - 1 \in 0..n /\ 1 \in Nat \ {0} /\ i + 1 \in Nat \ {0} /\ n \in 0..n
  BY <1>1, <1>2
<1>6. Values(a) /\ \A k \in DOMAIN a : \E x \in DOMAIN slots[o] : a[k] = slots[o][x]
  BY <1>2, <1>5, PartsOfValues DEF n
<1>7. Values(b) /\ \A k \in DOMAIN b : \E x \in DOMAIN slots[o] : b[k] = slots[o][x]
  BY <1>2, <1>5, PartsOfValues DEF n
<1> HIDE DEF a, b
<1>8. Values(q) /\ \A k \in DOMAIN q : \E x \in DOMAIN slots[o] : q[k] = slots[o][x]
  <2>1. Values(q) /\ Len(q) = Len(a) + Len(b)
        /\ \A k \in DOMAIN q : q[k] = IF k <= Len(a) THEN a[k] ELSE b[k - Len(a)]
    BY <1>6, <1>7, JoinedValues
  <2>2. DOMAIN q = 1..Len(q) /\ DOMAIN a = 1..Len(a) /\ DOMAIN b = 1..Len(b)
        /\ Len(a) \in Nat /\ Len(b) \in Nat
    BY <1>6, <1>7, <2>1 DEF Values, SlotSeqs
  <2> HIDE DEF q
  <2>3. \A k \in DOMAIN q : IF k <= Len(a) THEN k \in DOMAIN a ELSE k - Len(a) \in DOMAIN b
    BY <2>1, <2>2
  <2> QED
    BY <1>6, <1>7, <2>1, <2>3
<1> HIDE DEF q
<1>9. ASSUME Color(o) = "black", NEW k \in DOMAIN q, q[k] # Nil
      PROVE  gc.color[q[k]] # "white"
  <2>1. PICK x \in DOMAIN slots[o] : q[k] = slots[o][x]
    BY <1>8
  <2> QED
    BY <1>1, <1>9, <2>1, CellFacts DEF Color
<1>10. Barriered(o, q)
  BY <1>2, <1>4, <1>8, <1>9, StaysBarriered
<1> QED
  BY <1>1, <1>3, <1>4, <1>8, <1>10, Taken

\* The caller of a frame is a frame, and stays so or is cleared.
LEMMA ReturnStep ==
  ASSUME IndInv, NEW keep \in BOOLEAN, Return(keep)
  PROVE  IndInv'
<1> DEFINE w == IF keep THEN slots[frame][1] ELSE Nil
<1>1. frame \in frames /\ frame \in Cells /\ Live(frame) /\ Color(frame) # "permanent"
      /\ Len(slots[frame]) = 2 /\ slots[frame][1] \in frames \cup {Nil}
  BY DEF Return, IndInv, Types, FramesShaped
<1>2. /\ frame \in Objs \ (Threads \cup FinCells) /\ frame # mStack /\ frame # Process
      /\ Values(slots[frame]) /\ slots[frame] \in Seq(Objs \cup {Nil})
  BY <1>1, CellFacts
<1>3. 1 \in DOMAIN slots[frame] /\ DOMAIN slots[frame] = 1..2
  BY <1>1, <1>2
<1>4. /\ UNCHANGED <<gc, mStack, frames, partial, mFlips, finalized, retired, program>>
      /\ collect' = collect /\ delay' = delay /\ ~collect.running
      /\ frame' \in frames \cup {Nil}
  BY <1>1 DEF Return, Running, scanVars
<1>5. slots \in [Objs -> SlotSeqs]
  BY DEF IndInv, Types
<1>6. /\ slots'[frame] = [slots[frame] EXCEPT ![1] = w]
      /\ \A x \in Objs \ {frame} : slots'[x] = slots[x]
      /\ slots' = [slots EXCEPT ![frame] = [slots[frame] EXCEPT ![1] = w]]
  BY <1>2, <1>5 DEF Return
<1>7. Value(w) /\ w \in frames \cup {Nil} /\ (w = Nil \/ w = slots[frame][1])
  BY <1>1, <1>2, <1>3, NilIsValue DEF Values
<1> HIDE DEF w
<1>8. Values([slots[frame] EXCEPT ![1] = w])
  BY <1>2, <1>3, <1>7, SequencesOfValues
<1>9. /\ slots' \in [Objs -> SlotSeqs] /\ DOMAIN slots'[frame] = 1..2 /\ Len(slots'[frame]) = 2
      /\ \A k \in 1..2 : slots'[frame][k] = IF k = 1 THEN w ELSE slots[frame][k]
  <2>1. slots' \in [Objs -> SlotSeqs]
    BY <1>2, <1>5, <1>6, <1>8 DEF Values
  <2> QED
    BY <1>1, <1>2, <1>3, <1>6, <1>7, <2>1 DEF Value
<1>10. Darkens
  BY <1>4, StackFacts DEF Darkens, IndInv, Color
<1>11. gc.color[frame] \in {"white", "grey", "black"}
  BY <1>1, <1>2 DEF IndInv, Exact, Heaps, Colors, Live, Color
<1>12. Wrote(frame)
  <2> SUFFICES ASSUME NEW k \in 1..2, slots'[frame][k] # Nil
               PROVE  /\ slots'[frame][k] \notin Stacks
                      /\ gc.color[slots'[frame][k]] # "free"
                      /\ gc.color[frame] = "black" /\ (frame = partial.obj => k <= partial.slot) =>
                            gc.color[slots'[frame][k]] # "white"
    BY <1>4, <1>9, <1>11 DEF Wrote
  <2>1. slots'[frame][k] = slots[frame][k] /\ k \in DOMAIN slots[frame]
    BY <1>3, <1>7, <1>9
  <2> QED
    BY <1>1, <1>2, <2>1, CellFacts DEF Values, Value, Live, Color
<1>13. Moves(frame)
  BY <1>2, <1>7, <1>9, <1>12, <1>1 DEF Moves
<1>14. \A x \in Objs \ {frame} : Kept(x)
  BY <1>4, <1>6 DEF Kept
<1>15. \A x \in Objs : Kept(x) \/ Moves(x)
  BY <1>13, <1>14
<1>16. collect' \in [running : BOOLEAN, more : BOOLEAN, stackScanned : BOOLEAN] /\ ~collect'.stackScanned
  BY <1>4 DEF IndInv, Types, RootsScanned
<1>17. slots' \in [Objs -> SlotSeqs]
  BY <1>9
<1> QED
  BY <1>4, <1>10, <1>15, <1>16, <1>17, MovesSafe

-----------------------------------------------------------------------------
(* Primitives, and the beginning and the end of a collection.              *)

\* The heap and the roots are left alone.
LEMMA HeapKept ==
  ASSUME IndInv,
         UNCHANGED <<gc, slots, mStack, frame, frames, partial, mFlips, finalized, retired, program>>,
         collect' \in [running : BOOLEAN, more : BOOLEAN, stackScanned : BOOLEAN],
         delay' \in [on : BOOLEAN, attempted : BOOLEAN, temps : SUBSET Cells],
         TempsHeld', RootsScanned'
  PROVE  IndInv'
<1>1. Types'
  BY DEF IndInv, Types
<1>2. Exact(gc')
  BY DEF IndInv
<1>3. \A o \in Objs : Sound(o)'
  BY DEF IndInv, Sound, LiveRefs, ShadedRefs, FrozenRefs, Live, Color, ScannedSlots
<1>4. RootsKept' /\ ThreadsShaped' /\ StacksUnshared' /\ FramesShaped'
  BY DEF IndInv, RootsKept, ThreadsShaped, StacksUnshared, FramesShaped, Live, Color
<1>5. FinalizersLinked' /\ FinalizedFree'
  BY DEF IndInv, FinalizersLinked, FinalizerOf, FinalizedFree, Live, Color
<1> QED
  BY <1>1, <1>2, <1>3, <1>4, <1>5 DEF IndInv

\* The beginning and the end of a collection, and of a primitive.
LEMMA BoundarySteps ==
  ASSUME IndInv, CollectBegin \/ CollectEnd \/ EnterPrimitive
  PROVE  IndInv'
<1>1. UNCHANGED <<gc, slots, mStack, frame, frames, partial, mFlips, finalized, retired, program>>
  BY DEF CollectBegin, CollectStarts, CollectEnd, EnterPrimitive, heapVars, scanVars
<1>2. collect \in [running : BOOLEAN, more : BOOLEAN, stackScanned : BOOLEAN]
      /\ delay \in [on : BOOLEAN, attempted : BOOLEAN, temps : SUBSET Cells]
      /\ TempsHeld /\ RootsScanned
  BY DEF IndInv, Types
<1>3. CASE CollectBegin \/ CollectEnd
  <2>1. delay' = delay
    BY <1>3 DEF CollectBegin, CollectStarts, CollectEnd
  <2>2. collect' \in [running : BOOLEAN, more : BOOLEAN, stackScanned : BOOLEAN]
        /\ ~collect'.stackScanned /\ (collect'.running => ~delay.on)
    <3>1. CASE CollectBegin
      BY <3>1 DEF CollectBegin, CollectStarts
    <3>2. CASE CollectEnd
      <4>1. collect' = [running |-> FALSE, more |-> FALSE, stackScanned |-> FALSE]
        BY <3>2 DEF CollectEnd, NotCollecting
      <4> QED
        BY <4>1
    <3> QED
      BY <1>3, <3>1, <3>2
  <2>3. TempsHeld'
    BY <1>1, <1>2, <2>1, <2>2 DEF TempsHeld, Live, Color
  <2>4. RootsScanned'
    BY <2>2 DEF RootsScanned
  <2> QED
    BY <1>1, <1>2, <2>1, <2>2, <2>3, <2>4, HeapKept
<1>4. CASE EnterPrimitive
  <2>1. collect' = collect /\ ~collect.running /\ delay' = [on |-> TRUE, attempted |-> FALSE, temps |-> {}]
    BY <1>4 DEF EnterPrimitive, Running, scanVars, NotDelayed
  <2>2. delay' \in [on : BOOLEAN, attempted : BOOLEAN, temps : SUBSET Cells]
    BY <2>1
  <2>3. TempsHeld'
    BY <2>1 DEF TempsHeld
  <2>4. RootsScanned'
    BY <1>2, <2>1 DEF RootsScanned
  <2> QED
    BY <1>1, <1>2, <2>1, <2>2, <2>3, <2>4, HeapKept
<1> QED
  BY <1>3, <1>4

\* The result of a primitive is on the stack before the collection it put off.
LEMMA ExitPrimitiveStep ==
  ASSUME IndInv, NEW v \in delay.temps \cup OnStack, ExitPrimitive(v)
  PROVE  IndInv'
<1> DEFINE q == ReplaceTop(v)
<1>1. Value(v)
  BY StackFacts, Disjoint DEF IndInv, Types, TempsHeld, Value
<1>2. Values(q)
  BY <1>1, StackFacts, SequencesOfValues DEF ExitPrimitive, ReplaceTop
<1>3. /\ UNCHANGED <<gc, mStack, frame, frames, partial, mFlips, finalized, retired, program>>
      /\ delay' = NotDelayed
  BY DEF ExitPrimitive
<1>4. ~collect.running
  BY DEF ExitPrimitive, IndInv, TempsHeld
<1>5. /\ collect' \in [running : BOOLEAN, more : BOOLEAN, stackScanned : BOOLEAN]
      /\ ~collect'.stackScanned
  BY <1>4 DEF ExitPrimitive, IndInv, Types, RootsScanned
<1>6. mStack \in Objs /\ slots \in [Objs -> SlotSeqs] /\ slots' = [slots EXCEPT ![mStack] = q] /\ q \in SlotSeqs
  BY <1>2, StackFacts DEF ExitPrimitive, IndInv, Types, Values
<1> HIDE DEF q
<1>7. slots' \in [Objs -> SlotSeqs] /\ slots'[mStack] = q /\ \A x \in Objs \ {mStack} : slots'[x] = slots[x]
  BY <1>6
<1>8. Darkens
  BY <1>3, StackFacts DEF Darkens, IndInv, Color
<1>9. Moves(mStack)
  <2>1. Wrote(mStack)
    BY <1>2, <1>3, <1>7, <1>8, StackFacts, ValuesStay DEF Wrote, Color
  <2> QED
    BY <2>1, StackFacts DEF Moves, IndInv, Types
<1>10. \A x \in Objs \ {mStack} : Kept(x)
  BY <1>3, <1>7 DEF Kept
<1>11. \A x \in Objs : Kept(x) \/ Moves(x)
  BY <1>9, <1>10
<1>12. frame' \in frames \cup {Nil}
  BY <1>3 DEF IndInv, Types
<1>13. slots' \in [Objs -> SlotSeqs]
  BY <1>7
<1> QED
  BY <1>3, <1>4, <1>5, <1>8, <1>11, <1>12, <1>13, MovesSafe

-----------------------------------------------------------------------------
(* Allocation.                                                             *)

\* Values, or the object that is being allocated.
NewValues(q, c) == q \in SlotSeqs /\ \A i \in DOMAIN q : q[i] = c \/ Value(q[i])

\* A free cell becomes white.
LEMMA WhitenedExact ==
  ASSUME IndInv, NEW c \in Objs, ~Live(c), NEW g, g = [gc EXCEPT !.color[c] = "white"]
  PROVE  Exact(g) /\ \A x \in Objs : g.color[x] = IF x = c THEN "white" ELSE gc.color[x]
<1>1. gc \in Heaps /\ gc.numGrey = Cardinality(Greys(gc)) /\ gc.color[c] = "free"
  BY DEF IndInv, Exact, Live, Color
<1>2. /\ g \in Heaps /\ g.numGrey = gc.numGrey
      /\ \A x \in Objs : g.color[x] = IF x = c THEN "white" ELSE gc.color[x]
  BY <1>1 DEF Heaps, Colors
<1>3. Greys(g) = Greys(gc)
  BY <1>1, <1>2 DEF Greys
<1> QED
  BY <1>1, <1>2, <1>3 DEF Exact

\* A new cell gets slots, and the stack perhaps a reference to it.
Allocates(c, q, r) ==
    /\ gc' = [gc EXCEPT !.color[c] = "white"]
    /\ slots' = [slots EXCEPT ![c] = q, ![mStack] = r]
    /\ finalized' = finalized \ {c}
    /\ UNCHANGED <<mStack, partial, mFlips, collect, retired, program>>

\* The new cell may become the frame, or a local of a primitive.
Registers(c, q) ==
    /\ \/ frames' = frames
       \/ frames' = frames \cup {c} /\ Len(q) = 2 /\ q[1] \in frames \cup {Nil}
    /\ frame' \in frames' \cup {Nil}
    /\ delay' \in [on : BOOLEAN, attempted : BOOLEAN, temps : SUBSET Cells]
    /\ delay'.on = delay.on
    /\ delay'.temps \subseteq delay.temps \cup {c}
    /\ c \in delay'.temps => delay.on /\ c \notin frames'

\* A cell that was free becomes a white object.
LEMMA Allocated ==
  ASSUME IndInv, ~collect.running, NEW c \in Cells, ~Live(c),
         NEW q, NewValues(q, c), NEW r, NewValues(r, c), Allocates(c, q, r), Registers(c, q)
  PROVE  IndInv'
<1>1. /\ c \in Objs \ (Threads \cup FinCells \cup Stacks \cup {Process}) /\ c # mStack
      /\ c \notin frames /\ c \notin delay.temps
  BY Disjoint, StackFacts DEF IndInv, Types, FramesShaped, TempsHeld
<1>2. /\ Exact(gc') /\ \A x \in Objs : gc'.color[x] = IF x = c THEN "white" ELSE gc.color[x]
  BY <1>1, WhitenedExact DEF Allocates
<1>3. /\ slots' \in [Objs -> SlotSeqs] /\ slots'[c] = q /\ slots'[mStack] = r
      /\ \A x \in Objs \ {c, mStack} : slots'[x] = slots[x]
  BY <1>1, StackFacts DEF Allocates, IndInv, Types, NewValues
<1>4. /\ UNCHANGED <<mStack, partial, mFlips, collect, retired, program>>
      /\ finalized' = finalized \ {c}
  BY DEF Allocates
<1>5. \A x \in Objs \ {c, mStack} : Kept(x)
  BY <1>2, <1>3 DEF Kept
<1>6. \A x \in Objs : Live(x)' <=> (Live(x) \/ x = c)
  BY <1>2 DEF Live, Color
<1>7. \A s \in {q, r} : \A i \in DOMAIN s : s[i] # Nil => s[i] \notin Stacks /\ gc'.color[s[i]] # "free"
  BY <1>1, <1>2 DEF NewValues, Value, Live, Color
<1>8. gc.color[c] = "free" /\ gc'.color[c] = "white" /\ gc.color[mStack] = "black"
      /\ gc'.color[mStack] = "black"
  BY <1>1, <1>2, StackFacts DEF Live, Color
<1>9. Wrote(c) /\ Wrote(mStack)
  BY <1>3, <1>7, <1>8 DEF Wrote
<1>10. \A x \in Objs : Kept(x) \/ Wrote(x)
  BY <1>5, <1>9
<1>11. \A t \in Threads \cup FinCells : t \in Objs \ {c, mStack}
  BY <1>1, StackFacts, Disjoint
<1>12. FinalizersLinked'
  <2>1. \A f \in FinCells : slots'[f] = slots[f] /\ (Live(f)' => Live(f))
    BY <1>3, <1>6, <1>11
  <2>2. \A o \in Objs : Live(o) => Live(o)'
    BY <1>6
  <2>3. frames' \cap {o \in Cells : Live(o)} \subseteq frames
    BY DEF Registers
  <2>4. \A o \in Cells \ frames : Live(o) => slots'[o] = slots[o]
    BY <1>3, StackFacts, Disjoint
  <2> QED
    BY <1>3, <2>1, <2>2, <2>3, <2>4, FinalizersKept
<1>13. frames \subseteq frames' /\ frames' \subseteq Cells /\ frame' \in frames' \cup {Nil}
  BY DEF Registers, IndInv, Types
<1>14. FramesShaped'
  <2>1. ASSUME NEW f \in frames
        PROVE  /\ Live(f)' /\ Color(f)' # "permanent"
               /\ Len(slots'[f]) = 2 /\ slots'[f][1] \in frames' \cup {Nil}
    <3>1. f \in Objs \ {c, mStack}
      BY <1>1, StackFacts, Disjoint DEF IndInv, Types
    <3> QED
      BY <1>2, <1>3, <1>6, <1>13, <3>1 DEF IndInv, FramesShaped, Color
  <2>2. c \in frames' => /\ Live(c)' /\ Color(c)' # "permanent"
                         /\ Len(slots'[c]) = 2 /\ slots'[c][1] \in frames' \cup {Nil}
    BY <1>1, <1>3, <1>8, <1>13 DEF Registers, Live, Color
  <2> QED
    BY <2>1, <2>2 DEF FramesShaped, Registers
<1>15. delay' \in [on : BOOLEAN, attempted : BOOLEAN, temps : SUBSET Cells]
  BY DEF Registers
<1>16. TempsHeld'
  <2>1. ASSUME NEW x \in delay'.temps
        PROVE  Live(x)' /\ Color(x)' # "permanent" /\ x \notin frames'
    <3>1. CASE x = c
      BY <1>8, <2>1, <3>1 DEF Registers, Live, Color
    <3>2. CASE x # c
      <4>1. x \in delay.temps /\ x \in Objs
        BY <2>1, <3>2, Disjoint DEF Registers, IndInv, Types
      <4>2. Live(x) /\ Color(x) # "permanent" /\ x \notin frames
        BY <4>1 DEF IndInv, TempsHeld
      <4>3. x \notin frames'
        BY <3>2, <4>2 DEF Registers
      <4> QED
        BY <1>2, <1>6, <3>2, <4>1, <4>2, <4>3 DEF Color
    <3> QED
      BY <3>1, <3>2
  <2>2. ~delay'.on => delay'.temps = {}
    BY DEF Registers, IndInv, TempsHeld
  <2>3. ~collect'.running
    BY <1>4
  <2> QED
    BY <2>1, <2>2, <2>3 DEF TempsHeld
<1>17. gc'.color[Process] \in {"grey", "black"}
  BY <1>1, <1>2, Disjoint DEF IndInv, RootsKept, Color
<1>18. Len(slots'[Process]) = 3 /\ slots'[Process][2] = slots[Process][2]
  BY <1>1, <1>3, StackFacts, Disjoint DEF IndInv, RootsKept
<1>19. finalized' \subseteq finalized /\ \A x \in finalized' : gc'.color[x] = gc.color[x]
  BY <1>2, <1>4, Disjoint DEF IndInv, Types
<1>20. collect' \in [running : BOOLEAN, more : BOOLEAN, stackScanned : BOOLEAN] /\ ~collect'.stackScanned
  BY <1>4 DEF IndInv, Types, RootsScanned
<1>21. \A t \in Threads : Kept(t)
  BY <1>5, <1>11
<1>22. slots' \in [Objs -> SlotSeqs]
  BY <1>3
<1>23. Settles
  BY <1>2, <1>4, <1>8, <1>12, <1>13, <1>14, <1>15, <1>16, <1>17, <1>18, <1>19, <1>20, <1>21, <1>22
     DEF Settles
<1> QED
  BY <1>10, <1>23, Mutates

\* What may be stored in a new object.
LEMMA AllocationFacts ==
  ASSUME IndInv, NEW c \in Cells
  PROVE  /\ \A q : Values(q) => NewValues(q, c)
         /\ NewValues(Push(c), c)
         /\ delay \in [on : BOOLEAN, attempted : BOOLEAN, temps : SUBSET Cells]
         /\ frame \in frames \cup {Nil}
         /\ Value(frame) /\ NewValues(<<>>, c)
         /\ ~Live(c) => c \notin delay.temps
<1>1. delay \in [on : BOOLEAN, attempted : BOOLEAN, temps : SUBSET Cells] /\ frame \in frames \cup {Nil}
      /\ (~Live(c) => c \notin delay.temps)
  BY DEF IndInv, Types, TempsHeld
<1>2. Value(frame)
  BY Disjoint DEF IndInv, Types, FramesShaped, Value
<1>3. NewValues(<<>>, c)
  BY DEF NewValues, SlotSeqs
<1>4. slots[mStack] \in Seq(Objs \cup {Nil}) /\ Values(slots[mStack]) /\ c \in Objs
  BY StackFacts, Disjoint DEF Values, SlotSeqs
<1>5. NewValues(Push(c), c)
  BY <1>4 DEF NewValues, SlotSeqs, Push, Values
<1> QED
  BY <1>1, <1>2, <1>3, <1>5 DEF NewValues, Values

\* The allocation of an object preserves the invariant.
LEMMA NewStep ==
  ASSUME IndInv, NEW c \in Cells, NEW n \in {0, 2}, New(c, n)
  PROVE  IndInv'
<1> DEFINE q == [i \in 1..n |-> Nil]
<1>1. NewValues(q, c)
  <2>1. q \in Seq(Objs \cup {Nil})
    OBVIOUS
  <2> QED
    BY <2>1, NilIsValue DEF NewValues, SlotSeqs
<1> HIDE DEF q
<1>2. Allocates(c, q, Push(c))
  BY DEF New, Allocates, q
<1>3. Registers(c, q)
  <2>1. frames' = frames /\ frame' = frame /\ delay' = delay /\ ~Live(c)
    BY DEF New, Unused, Live
  <2> QED
    BY <2>1, AllocationFacts DEF Registers
<1>4. ~collect.running /\ ~Live(c)
  BY DEF New, Unused, Live
<1> QED
  BY <1>1, <1>2, <1>3, <1>4, AllocationFacts, Allocated

\* A call, which allocates a frame, preserves it.
LEMMA CallStep ==
  ASSUME IndInv, NEW c \in Cells, Call(c)
  PROVE  IndInv'
<1> DEFINE v == Last(slots[mStack])
           q == <<frame, v>>
           r == Front(slots[mStack])
<1>1. Values(r) /\ Value(v) /\ Value(frame)
  BY StackFacts, NilIsValue, SequencesOfValues, AllocationFacts DEF Call
<1>2. Allocates(c, q, r)
  <2>1. slots' = [slots EXCEPT ![c] = q, ![mStack] = r]
    <3>1. c # mStack /\ mStack \in Objs /\ slots \in [Objs -> SlotSeqs]
      BY StackFacts DEF IndInv, Types
    <3> QED
      BY <3>1 DEF Call
  <2> QED
    BY <2>1 DEF Call, Allocates
<1> HIDE DEF v
<1>3. NewValues(q, c) /\ Len(q) = 2 /\ q[1] = frame
  <2>1. frame \in Objs \cup {Nil} /\ v \in Objs \cup {Nil}
    BY <1>1 DEF Value
  <2>2. q \in Seq(Objs \cup {Nil}) /\ DOMAIN q = 1..2 /\ q[1] = frame /\ q[2] = v /\ Len(q) = 2
    BY <2>1
  <2> QED
    BY <1>1, <2>2 DEF NewValues, SlotSeqs
<1> HIDE DEF q, r
<1>4. ~collect.running /\ ~Live(c)
  BY DEF Call, Unused, Live, Running
<1>5. Registers(c, q)
  <2>1. frames' = frames \cup {c} /\ frame' = c /\ delay' = delay
    BY DEF Call
  <2> QED
    BY <1>3, <1>4, <2>1, AllocationFacts DEF Registers
<1>6. NewValues(r, c)
  BY <1>1, AllocationFacts
<1> QED
  BY <1>2, <1>3, <1>4, <1>5, <1>6, Allocated

\* A closure, which refers to the current frame, preserves it.
LEMMA PushClosureStep ==
  ASSUME IndInv, NEW c \in Cells, PushClosure(c)
  PROVE  IndInv'
<1>1. ~collect.running /\ ~Live(c)
  BY DEF PushClosure, Unused, Live, Running
<1>2. NewValues(<<frame>>, c) /\ NewValues(Push(c), c)
  BY OneValue, AllocationFacts
<1>3. Allocates(c, <<frame>>, Push(c))
  BY DEF PushClosure, Allocates
<1>4. Registers(c, <<frame>>)
  <2>1. frames' = frames /\ frame' = frame /\ delay' = delay
    BY DEF PushClosure
  <2> QED
    BY <1>1, <2>1, AllocationFacts DEF Registers
<1> QED
  BY <1>1, <1>2, <1>3, <1>4, Allocated

\* An object that a primitive keeps in a local preserves it.
LEMMA NewTempStep ==
  ASSUME IndInv, NEW c \in Cells, NewTemp(c)
  PROVE  IndInv'
<1>1. ~collect.running /\ ~Live(c) /\ delay.on
  BY DEF NewTemp, Unused, Live, IndInv, TempsHeld
<1>2. NewValues(<<>>, c) /\ NewValues(slots[mStack], c)
  BY StackFacts, AllocationFacts
<1>3. Allocates(c, <<>>, slots[mStack])
  <2>1. c # mStack /\ mStack \in Objs /\ slots \in [Objs -> SlotSeqs]
    BY StackFacts DEF IndInv, Types
  <2>2. slots' = [slots EXCEPT ![c] = <<>>, ![mStack] = slots[mStack]]
    BY <2>1 DEF NewTemp
  <2> QED
    BY <2>2 DEF NewTemp, Allocates
<1>4. Registers(c, <<>>)
  <2>1. frames' = frames /\ frame' = frame
    BY DEF NewTemp
  <2>2. PICK enough \in BOOLEAN :
           delay' = [delay EXCEPT !.attempted = @ \/ enough, !.temps = @ \cup {c}]
    BY DEF NewTemp
  <2>3. delay \in [on : BOOLEAN, attempted : BOOLEAN, temps : SUBSET Cells]
    BY DEF IndInv, Types
  <2>4. delay'.on = delay.on /\ delay'.temps = delay.temps \cup {c}
    BY <2>2, <2>3
  <2>5. delay' \in [on : BOOLEAN, attempted : BOOLEAN, temps : SUBSET Cells]
    BY <2>2, <2>3
  <2>6. c \notin frames
    BY <1>1 DEF IndInv, FramesShaped
  <2>7. frame \in frames \cup {Nil}
    BY DEF IndInv, Types
  <2> QED
    BY <1>1, <2>1, <2>4, <2>5, <2>6, <2>7 DEF Registers
<1> QED
  BY <1>1, <1>2, <1>3, <1>4, Allocated

\* The finalizer is linked with its object, and grey if that is black.
LEMMA InstallFinalizerStep ==
  ASSUME IndInv, NEW o \in OnStack, NEW f \in FinCells, InstallFinalizer(o, f)
  PROVE  IndInv'
<1> DEFINE h == [gc EXCEPT !.color[f] = "white"]
<1>1. /\ o \in Cells \ frames /\ Live(o) /\ Color(o) # "permanent" /\ ~HasFinalizer(o)
      /\ Len(slots[o]) = 2 /\ ~Live(f) /\ ~collect.running
  BY StackFacts DEF InstallFinalizer, Mutable, Value, Running, Live
<1>2. /\ o \in Objs \ (Threads \cup FinCells) /\ o # mStack /\ o # Process /\ Values(slots[o])
      /\ slots[o] \in Seq(Objs \cup {Nil}) /\ DOMAIN slots[o] = 1..2
  BY <1>1, CellFacts
<1>3. f \in Objs \ (Threads \cup Cells \cup Stacks \cup {Process}) /\ f # mStack
  BY Disjoint DEF IndInv, Types
<1>4. Exact(h) /\ \A x \in Objs : h.color[x] = IF x = f THEN "white" ELSE gc.color[x]
  <2>1. h = [gc EXCEPT !.color[f] = "white"] /\ f \in Objs
    BY <1>3
  <2>2. ~Live(f) /\ IndInv
    BY <1>1
  <2> HIDE DEF h
  <2> QED
    BY ONLY <2>1, <2>2, WhitenedExact
<1>5. gc' = GCWriteNew(h, o, f)
  BY DEF InstallFinalizer
<1> HIDE DEF h
<1>6. /\ Exact(gc') /\ \A x \in Objs \ {f} : gc'.color[x] = gc.color[x]
      /\ gc'.color[f] = IF gc.color[o] = "black" THEN "grey" ELSE "white"
  <2>1. h.color[o] = gc.color[o]
    BY <1>2, <1>3, <1>4
  <2>2. CASE gc.color[o] = "black"
    <3>1. gc' = ToGrey(h, f)
      BY <1>5, <2>1, <2>2 DEF GCWriteNew
    <3> QED
      BY <1>3, <1>4, <2>2, <3>1, ToGreyExact
  <2>3. CASE gc.color[o] # "black"
    <3>1. gc' = h
      BY <1>5, <2>1, <2>3 DEF GCWriteNew
    <3> QED
      BY <1>3, <1>4, <2>3, <3>1
  <2> QED
    BY <2>2, <2>3
<1>7. slots \in [Objs -> SlotSeqs] /\ slots' = [slots EXCEPT ![f] = <<Nil, o>>, ![o][2] = f]
  BY DEF InstallFinalizer, IndInv, Types
<1>8. /\ slots'[f] = <<Nil, o>> /\ slots'[o] = [slots[o] EXCEPT ![2] = f]
      /\ \A x \in Objs \ {o, f} : slots'[x] = slots[x]
  BY <1>2, <1>3, <1>7
<1>9. /\ slots'[o] \in Seq(Objs \cup {Nil}) /\ Len(slots'[o]) = 2 /\ DOMAIN slots'[o] = 1..2
      /\ slots'[o][1] = slots[o][1] /\ slots'[o][2] = f
  BY <1>1, <1>2, <1>3, <1>8
<1>10. <<Nil, o>> \in Seq(Objs \cup {Nil})
  BY <1>2
<1>11. slots' \in [Objs -> SlotSeqs]
  <2>1. [slots[o] EXCEPT ![2] = f] \in SlotSeqs /\ <<Nil, o>> \in SlotSeqs
    BY <1>8, <1>9, <1>10 DEF SlotSeqs
  <2>2. slots' = [slots EXCEPT ![f] = <<Nil, o>>, ![o] = [slots[o] EXCEPT ![2] = f]]
    BY <1>2, <1>3, <1>7
  <2> QED
    BY <1>2, <1>3, <1>7, <2>1, <2>2
<1>12. UNCHANGED <<mStack, frame, frames, partial, mFlips, collect, finalized, delay, retired, program>>
  BY DEF InstallFinalizer, MovesOnly, scanVars
<1>13. gc.color[f] = "free" /\ gc.color[o] \in {"white", "grey", "black"}
  BY <1>1, <1>2, <1>3 DEF Live, Color, IndInv, Exact, Heaps, Colors
<1>14. Wrote(f)
  <2>1. DOMAIN slots'[f] = 1..2 /\ slots'[f][1] = Nil /\ slots'[f][2] = o
    BY <1>8
  <2>2. o \notin Stacks /\ gc'.color[o] # "free" /\ gc'.color[f] \in {"white", "grey"}
    BY <1>1, <1>2, <1>3, <1>6, <1>13, Disjoint
  <2>3. \A i \in DOMAIN slots'[f] : slots'[f][i] # Nil => slots'[f][i] = o
    BY <2>1
  <2> QED
    BY <1>13, <2>2, <2>3 DEF Wrote
<1>15. Wrote(o)
  <2>1. gc'.color[o] = gc.color[o]
    BY <1>2, <1>3, <1>6
  <2>2. ASSUME NEW i \in DOMAIN slots'[o], slots'[o][i] # Nil
        PROVE  /\ slots'[o][i] \notin Stacks
               /\ gc'.color[slots'[o][i]] # "free"
               /\ gc'.color[o] = "black" /\ (o = partial.obj => i <= partial.slot) =>
                     gc'.color[slots'[o][i]] # "white"
    <3>1. CASE i = 2
      BY <1>3, <1>6, <1>9, <2>1, <3>1
    <3>2. CASE i = 1
      <4>1. slots'[o][i] = slots[o][i] /\ i \in DOMAIN slots[o]
        BY <1>2, <1>9, <3>2
      <4>2. slots[o][i] \in Objs \ Stacks /\ Live(slots[o][i])
        BY <1>2, <2>2, <4>1 DEF Values, Value
      <4>3. slots[o][i] # f
        BY <1>1, <4>2
      <4>4. gc'.color[slots[o][i]] = gc.color[slots[o][i]]
        BY <1>6, <4>2, <4>3
      <4>5. gc.color[o] = "black" /\ (o = partial.obj => i <= partial.slot) => gc.color[slots[o][i]] # "white"
        BY <1>1, <2>2, <4>1, CellFacts DEF Color
      <4> QED
        BY <2>1, <4>1, <4>2, <4>4, <4>5 DEF Live, Color
    <3> QED
      BY <1>9, <3>1, <3>2
  <2> QED
    BY <1>13, <2>1, <2>2 DEF Wrote
<1>16. \A x \in Objs \ {o, f} : Kept(x)
  BY <1>6, <1>8 DEF Kept
<1>17. \A x \in Objs : Kept(x) \/ Wrote(x)
  BY <1>14, <1>15, <1>16
<1>18. FinalizersLinked'
  <2> SUFFICES ASSUME NEW g \in FinCells, Live(g)'
               PROVE  FinalizerOf(g)'
    BY DEF FinalizersLinked
  <2>1. Live(o)'
    BY <1>2, <1>3, <1>6, <1>13 DEF Live, Color
  <2>2. CASE g = f
    BY <1>1, <1>8, <1>9, <1>12, <2>1, <2>2 DEF FinalizerOf
  <2>3. CASE g # f
    <3>1. g \in Objs \ {o, f}
      BY <1>2, <2>3, Disjoint
    <3>2. FinalizerOf(g)
      BY <1>6, <3>1 DEF IndInv, FinalizersLinked, Live, Color
    <3>3. PICK x \in Cells \ frames : /\ slots[g] = <<Nil, x>> /\ Live(x)
                                     /\ 2 \in DOMAIN slots[x] /\ slots[x][2] = g
      BY <3>2 DEF FinalizerOf
    <3>4. x \in Objs \ {o, f}
      BY <1>1, <1>3, <3>3, Disjoint DEF HasFinalizer
    <3>5. slots'[x] = slots[x] /\ slots'[g] = slots[g] /\ Live(x)'
      BY <1>6, <1>8, <3>1, <3>3, <3>4 DEF Live, Color
    <3> QED
      BY <1>12, <3>3, <3>5 DEF FinalizerOf
  <2> QED
    BY <2>2, <2>3
<1>19. frames \subseteq Cells /\ frame \in frames \cup {Nil}
       /\ delay \in [on : BOOLEAN, attempted : BOOLEAN, temps : SUBSET Cells]
       /\ collect \in [running : BOOLEAN, more : BOOLEAN, stackScanned : BOOLEAN] /\ ~collect.stackScanned
  BY <1>1 DEF IndInv, Types, RootsScanned
<1>20. \A x \in Cells : Color(x)' = Color(x)
  BY <1>3, <1>6, Disjoint DEF Color
<1>21. FramesShaped'
  <2>1. \A x \in frames : x \in Cells /\ x \in Objs \ {o, f}
    BY <1>1, <1>3, Disjoint DEF IndInv, Types
  <2> QED
    BY <1>8, <1>12, <1>20, <2>1 DEF IndInv, FramesShaped, Live
<1>22. TempsHeld'
  BY <1>12, <1>19, <1>20 DEF IndInv, TempsHeld, Live
<1>23. /\ gc'.color[Process] \in {"grey", "black"} /\ gc'.color[mStack] = "black"
       /\ Len(slots'[Process]) = 3 /\ slots'[Process][2] = slots[Process][2]
  <2>1. Process \in Objs \ {o, f} /\ mStack \in Objs \ {f}
    BY <1>2, <1>3, StackFacts, Disjoint
  <2> QED
    BY <1>6, <1>8, <2>1 DEF IndInv, RootsKept, Color
<1>24. \A x \in finalized : gc'.color[x] = gc.color[x]
  BY <1>20 DEF IndInv, Types, Color
<1>25. \A t \in Threads : Kept(t)
  BY <1>2, <1>3, <1>16, Disjoint
<1>26. Settles
  BY <1>6, <1>11, <1>12, <1>18, <1>19, <1>21, <1>22, <1>23, <1>24, <1>25 DEF Settles
<1> QED
  BY <1>17, <1>26, Mutates

-----------------------------------------------------------------------------
(* Threads.                                                                *)

\* What the invariant says of the process object.
LEMMA ProcessValues ==
  ASSUME IndInv
  PROVE  /\ Values(slots[Process]) /\ slots[Process] \in Seq(Objs \cup {Nil})
         /\ DOMAIN slots[Process] = 1..3
         /\ CurThread \in Threads /\ Live(CurThread)
<1>1. Process \in Objs \ Threads /\ Live(Process) /\ Process \notin retired
  BY Disjoint DEF IndInv, Types, RootsKept, Live
<1>2. Values(slots[Process]) /\ slots[Process] \in Seq(Objs \cup {Nil})
  BY <1>1, ObjectValues DEF Values, SlotSeqs
<1>3. DOMAIN slots[Process] = 1..3
  BY <1>2 DEF IndInv, RootsKept
<1>4. CurThread \in Threads
  BY DEF CurThread, IndInv, RootsKept
<1>5. Value(slots[Process][2])
  BY <1>2, <1>3 DEF Values
<1> QED
  BY <1>2, <1>3, <1>4, <1>5, Disjoint DEF CurThread, Value

\* What the invariant says of a live thread.
LEMMA ThreadFacts ==
  ASSUME IndInv, NEW t \in Threads, Live(t)
  PROVE  /\ t \in Objs \ (Stacks \cup Cells \cup FinCells \cup {Process}) /\ t \notin retired
         /\ Color(t) # "permanent" /\ slots[t] \in Seq(Objs \cup {Nil}) /\ DOMAIN slots[t] = 1..2
         /\ slots[t][1] \in (Stacks \ ({mStack} \cup retired)) \cup {Nil}
         /\ slots[t][2] \in frames \cup {Nil}
         /\ \A i \in 1..2 : slots[t][i] # Nil => Live(slots[t][i])
         /\ Color(t) = "black" => \A i \in 1..2 :
              slots[t][i] # Nil /\ (t = partial.obj => i <= partial.slot) => Color(slots[t][i]) # "white"
<1>1. t \in Objs \ (Stacks \cup Cells \cup FinCells \cup {Process}) /\ t \notin retired /\ t # mStack
  BY Disjoint DEF IndInv, Types
<1>2. slots[t] \in Seq(Objs \cup {Nil}) /\ LiveRefs(t) /\ ShadedRefs(t)
  BY <1>1 DEF IndInv, Types, SlotSeqs, Sound
<1>3. /\ Color(t) # "permanent" /\ Len(slots[t]) = 2
      /\ slots[t][1] \in (Stacks \ ({mStack} \cup retired)) \cup {Nil}
      /\ slots[t][2] \in frames \cup {Nil}
  BY DEF IndInv, ThreadsShaped
<1>4. DOMAIN slots[t] = 1..2
  BY <1>2, <1>3
<1> QED
  BY <1>1, <1>2, <1>3, <1>4 DEF LiveRefs, ShadedRefs, ScannedSlots

\* What switchToThread does to the colours: the stack left behind is white or
\* grey, the one resumed black, and others are shaded; what the old thread and
\* the process now refer to is not white if they are black.
Switches(t, s, done) ==
    /\ Exact(gc')
    /\ \A x \in Objs \ {mStack, s} :
          gc'.color[x] = gc.color[x] \/ (gc.color[x] = "white" /\ gc'.color[x] = "grey")
    /\ gc'.color[s] = "black" /\ gc'.color[mStack] \in {"white", "grey"}
    /\ gc.color[CurThread] = "black" =>
          gc'.color[mStack] = "grey" /\ (~done /\ frame # Nil => gc'.color[frame] # "white")
    /\ gc.color[Process] = "black" => gc'.color[t] # "white"

\* The colours that a thread switch leaves.
LEMMA SwitchColorsFacts ==
  ASSUME IndInv, NEW t \in Threads, NEW done \in BOOLEAN, SwitchToThread(t, done)
  PROVE  Switches(t, slots[t][1], done)
<1> DEFINE s == slots[t][1]
           w == ToWhite(gc, mStack)
           g == GCWrite(w, CurThread, mStack)
           h == SavedColors(done)
           k == GCWrite(h, Process, t)
<1>1. /\ CurThread \in Threads /\ CurThread \in Objs /\ t \in Objs /\ t # CurThread /\ Live(t)
      /\ mStack \in Objs /\ Process \in Objs /\ frame \in Objs \cup {Nil}
      /\ frame \notin Stacks \cup Threads \cup {Process}
  <2>1. t \in OnStack \cup Range(slots[Process])
    BY DEF SwitchToThread
  <2>2. Value(t) /\ t # Nil
    BY <2>1, StackFacts, ProcessValues, Disjoint DEF Range, Values
  <2>3. frame \in Objs \cup {Nil} /\ frame \notin Stacks \cup Threads \cup {Process}
    BY Disjoint, GCAssumption DEF IndInv, Types
  <2> QED
    BY <2>2, <2>3, ProcessValues, StackFacts, Disjoint DEF SwitchToThread, Value
<1>2. s \in Stacks /\ s \in Objs /\ s # mStack
  BY <1>1, ThreadFacts, Disjoint DEF SwitchToThread
<1>3. CurThread # mStack /\ Process # mStack /\ t # mStack /\ CurThread # s /\ Process # s /\ t # s
      /\ frame # mStack /\ frame # s /\ frame # CurThread /\ frame # Process /\ frame # t
      /\ Process # t /\ Process # CurThread
  BY <1>1, <1>2, StackFacts, Disjoint DEF IndInv, Types
<1>4. Exact(gc) /\ gc.color[mStack] = "black"
  BY StackFacts DEF IndInv, Color
<1>5. Exact(w) /\ \A x \in Objs : w.color[x] = IF x = mStack THEN "white" ELSE gc.color[x]
  BY <1>1, <1>4, ToWhiteExact
<1> HIDE DEF w
<1>6. /\ Exact(g) /\ Shades(w, g)
      /\ w.color[CurThread] = "black" => g.color[mStack] # "white"
      /\ \A x \in Objs : x # mStack => g.color[x] = w.color[x]
  <2>1. Exact(w) /\ CurThread \in Objs /\ mStack \in Objs
    BY <1>1, <1>5
  <2> QED
    BY ONLY <2>1, GCWritten
<1>7. h = IF done THEN g ELSE GCWrite(g, CurThread, frame)
  BY DEF SavedColors, w
<1> HIDE DEF g, h
<1>8. /\ Exact(h) /\ Shades(g, h)
      /\ \A x \in Objs : x # frame => h.color[x] = g.color[x]
      /\ ~done /\ frame # Nil /\ g.color[CurThread] = "black" => h.color[frame] # "white"
  <2>1. CASE done
    BY <1>6, <1>7, <2>1 DEF Shades
  <2>2. CASE ~done
    <3>1. /\ h = GCWrite(g, CurThread, frame)
          /\ Exact(g) /\ CurThread \in Objs /\ frame \in Objs \cup {Nil}
      BY <1>1, <1>6, <1>7, <2>2
    <3> QED
      BY ONLY <3>1, GCWriteExact
  <2> QED
    BY <2>1, <2>2
<1>9. /\ Exact(k) /\ Shades(h, k)
      /\ \A x \in Objs : x # t => k.color[x] = h.color[x]
      /\ h.color[Process] = "black" => k.color[t] # "white"
  <2>1. Exact(h) /\ Process \in Objs /\ t \in Objs
    BY <1>1, <1>8
  <2> QED
    BY ONLY <2>1, GCWritten
<1>10. gc' = ToBlack(k, s)
  BY DEF SwitchToThread, SwitchColors, h
<1> HIDE DEF k, s
<1>11. Exact(gc') /\ \A x \in Objs : gc'.color[x] = IF x = s THEN "black" ELSE k.color[x]
  BY <1>2, <1>9, <1>10, ToBlackExact
<1>12. \A x \in Objs \ {mStack, s} :
          gc'.color[x] = gc.color[x] \/ (gc.color[x] = "white" /\ gc'.color[x] = "grey")
  BY <1>5, <1>6, <1>8, <1>9, <1>11 DEF Shades
<1>13. gc'.color[mStack] = g.color[mStack] /\ g.color[mStack] \in {"white", "grey"}
  BY <1>1, <1>2, <1>3, <1>5, <1>6, <1>8, <1>9, <1>11 DEF Shades
<1>14. gc.color[CurThread] = "black" =>
          gc'.color[mStack] = "grey" /\ (~done /\ frame # Nil => gc'.color[frame] # "white")
  <2> SUFFICES ASSUME gc.color[CurThread] = "black"
               PROVE  gc'.color[mStack] = "grey" /\ (~done /\ frame # Nil => gc'.color[frame] # "white")
    OBVIOUS
  <2>1. w.color[CurThread] = "black" /\ g.color[CurThread] = "black"
    BY <1>1, <1>3, <1>5, <1>6
  <2>2. ~done /\ frame # Nil => gc'.color[frame] # "white"
    <3> SUFFICES ASSUME ~done, frame # Nil PROVE gc'.color[frame] # "white"
      OBVIOUS
    <3>1. frame \in Objs /\ h.color[frame] # "white"
      BY <1>1, <1>8, <2>1
    <3> QED
      BY <1>3, <1>9, <1>11, <3>1
  <2> QED
    BY <1>6, <1>13, <2>1, <2>2
<1>15. gc.color[Process] = "black" => gc'.color[t] # "white"
  <2>1. h.color[Process] = gc.color[Process]
    BY <1>1, <1>3, <1>5, <1>6, <1>8
  <2> QED
    BY <1>1, <1>3, <1>9, <1>11, <2>1
<1>16. gc'.color[s] = "black"
  BY <1>2, <1>11
<1> QED
  BY <1>11, <1>12, <1>13, <1>14, <1>15, <1>16 DEF Switches, s

\* And what it does to the slots: the old thread takes the stack and the frame
\* it leaves, the new one gives up its own.
Hands(t, done) ==
    /\ slots' \in [Objs -> SlotSeqs]
    /\ slots'[CurThread] = IF done THEN <<mStack, Nil>> ELSE <<mStack, frame>>
    /\ slots'[t] = <<Nil, Nil>>
    /\ slots'[mStack] = IF done THEN <<>> ELSE slots[mStack]
    /\ DOMAIN slots'[Process] = 1..3 /\ Len(slots'[Process]) = 3
    /\ \A i \in 1..3 : slots'[Process][i] = IF i = 2 THEN t ELSE slots[Process][i]
    /\ \A x \in Objs \ {CurThread, t, mStack, Process} : slots'[x] = slots[x]

\* The slots that a thread switch leaves: the stack is handed over.
LEMMA SwitchSlotsFacts ==
  ASSUME IndInv, NEW t \in Threads, NEW done \in BOOLEAN, SwitchToThread(t, done)
  PROVE  Hands(t, done)
<1> DEFINE c == IF done THEN <<mStack, Nil>> ELSE <<mStack, frame>>
           m == IF done THEN <<>> ELSE slots[mStack]
           p == [slots[Process] EXCEPT ![2] = t]
<1>1. /\ CurThread \in Objs /\ t \in Objs /\ mStack \in Objs /\ Process \in Objs
      /\ frame \in Objs \cup {Nil} /\ t # CurThread /\ mStack # t /\ mStack # CurThread
      /\ Process \notin {CurThread, t, mStack}
  BY ProcessValues, StackFacts, Disjoint DEF SwitchToThread, IndInv, Types
<1>2. slots \in [Objs -> SlotSeqs] /\ slots[Process] \in Seq(Objs \cup {Nil}) /\ DOMAIN slots[Process] = 1..3
  BY ProcessValues DEF IndInv, Types
<1>3. slots' = [slots EXCEPT ![CurThread] = c, ![mStack] = m, ![Process] = p, ![t] = <<Nil, Nil>>]
  BY <1>1, <1>2 DEF SwitchToThread
<1>4. c \in SlotSeqs
  <2>1. <<mStack, Nil>> \in SlotSeqs /\ <<mStack, frame>> \in SlotSeqs
    BY <1>1 DEF SlotSeqs
  <2> QED
    BY <2>1
<1>5. m \in SlotSeqs /\ <<Nil, Nil>> \in SlotSeqs
  <2>1. <<>> \in SlotSeqs /\ <<Nil, Nil>> \in SlotSeqs /\ slots[mStack] \in SlotSeqs
    BY <1>1, <1>2 DEF SlotSeqs
  <2> QED
    BY <2>1
<1>6. p \in SlotSeqs /\ DOMAIN p = 1..3 /\ Len(p) = 3
      /\ \A i \in 1..3 : p[i] = IF i = 2 THEN t ELSE slots[Process][i]
  <2>1. DOMAIN p = 1..3 /\ \A i \in 1..3 : p[i] = IF i = 2 THEN t ELSE slots[Process][i]
    BY <1>2
  <2>2. p \in Seq(Objs \cup {Nil})
    <3>1. t \in OnStack \cup Range(slots[Process]) /\ Values(slots[Process])
      BY ProcessValues DEF SwitchToThread
    <3>2. Value(t) /\ 2 \in DOMAIN slots[Process]
      BY <1>2, <3>1, StackFacts DEF Range, Values
    <3> QED
      BY <3>1, <3>2, SequencesOfValues DEF Values, SlotSeqs
  <2> HIDE DEF p
  <2> QED
    BY <2>1, <2>2 DEF SlotSeqs
<1> HIDE DEF c, m, p
<1>7. /\ slots' \in [Objs -> SlotSeqs] /\ slots'[CurThread] = c /\ slots'[mStack] = m
      /\ slots'[Process] = p /\ slots'[t] = <<Nil, Nil>>
      /\ \A x \in Objs \ {CurThread, t, mStack, Process} : slots'[x] = slots[x]
  BY <1>1, <1>2, <1>3, <1>4, <1>5, <1>6
<1> QED
  BY <1>6, <1>7 DEF Hands, c, m

\* A thread holds the stack it is to return to; nobody else does.
LEMMA SwitchToThreadStep ==
  ASSUME IndInv, NEW t \in Threads, NEW done \in BOOLEAN, SwitchToThread(t, done)
  PROVE  IndInv'
<1>0. PICK m, s, cur : m = mStack /\ s = slots[t][1] /\ cur = CurThread
  OBVIOUS
<1>1. /\ Exact(gc')
      /\ \A x \in Objs \ {m, s} :
            gc'.color[x] = gc.color[x] \/ (gc.color[x] = "white" /\ gc'.color[x] = "grey")
      /\ gc'.color[s] = "black" /\ gc'.color[m] \in {"white", "grey"}
      /\ gc.color[cur] = "black" =>
            gc'.color[m] = "grey" /\ (~done /\ frame # Nil => gc'.color[frame] # "white")
      /\ gc.color[Process] = "black" => gc'.color[t] # "white"
  BY <1>0, SwitchColorsFacts DEF Switches
<1>2. /\ slots' \in [Objs -> SlotSeqs]
      /\ slots'[cur] = IF done THEN <<m, Nil>> ELSE <<m, frame>>
      /\ slots'[t] = <<Nil, Nil>>
      /\ slots'[m] = IF done THEN <<>> ELSE slots[m]
      /\ DOMAIN slots'[Process] = 1..3 /\ Len(slots'[Process]) = 3
      /\ \A i \in 1..3 : slots'[Process][i] = IF i = 2 THEN t ELSE slots[Process][i]
      /\ \A x \in Objs \ {cur, t, m, Process} : slots'[x] = slots[x]
  BY <1>0, SwitchSlotsFacts DEF Hands
<1>3. /\ mStack' = s /\ frame' = slots[t][2] /\ t # cur /\ s # Nil /\ ~collect.running /\ ~delay.on
      /\ UNCHANGED <<frames, partial, mFlips, collect, finalized, delay, retired, program>>
  BY <1>0 DEF SwitchToThread, Running, scanVars
<1>4. cur \in Threads /\ Live(cur) /\ Live(t)
  <2>1. t \in OnStack \cup Range(slots[Process])
    BY DEF SwitchToThread
  <2>2. Value(t) /\ t # Nil
    BY <2>1, StackFacts, ProcessValues, Disjoint DEF Range, Values
  <2> QED
    BY <1>0, <2>2, ProcessValues DEF Value
<1>5. s \in Stacks /\ s # m /\ s \notin retired /\ s \in Objs /\ Live(s) /\ slots[t][2] \in frames \cup {Nil}
  BY <1>0, <1>3, <1>4, ThreadFacts, Disjoint
<1>6. /\ cur \in Objs \ (Stacks \cup Cells \cup FinCells \cup {Process, t}) /\ cur \notin {m, s}
      /\ t \in Objs \ (Stacks \cup Cells \cup FinCells \cup {Process}) /\ t \notin {m, s}
      /\ m \in Objs /\ m \in Stacks /\ m \notin retired /\ m \notin Threads \cup Cells \cup FinCells
      /\ s \notin Threads \cup Cells \cup FinCells
      /\ Process \in Objs /\ Process \notin {cur, t, m, s} /\ Process \notin Threads
  BY <1>0, <1>3, <1>4, <1>5, ThreadFacts, Disjoint, StackFacts DEF IndInv, Types
<1>7. \A x \in Objs : Live(x) <=> Live(x)'
  <2>1. Live(s)' /\ Live(m)' /\ Live(m)
    BY <1>0, <1>1, StackFacts DEF Live, Color
  <2>2. \A x \in Objs \ {m, s} : Live(x) <=> Live(x)'
    BY <1>1 DEF Live, Color
  <2> QED
    BY <1>5, <2>1, <2>2
<1>8. \A x \in Objs \ {m, s} : /\ Color(x)' = "black" <=> Color(x) = "black"
                               /\ Color(x)' = "permanent" <=> Color(x) = "permanent"
                               /\ Color(x)' = "white" => Color(x) = "white"
  BY <1>1 DEF Color
<1>9. Types'
  <2>1. slots' \in [Objs -> SlotSeqs]
    BY <1>2
  <2> QED
    BY <1>3, <1>5, <2>1 DEF IndInv, Types
<1>10. PICK g : slots'[cur] = <<m, g>> /\ g \in frames \cup {Nil} /\ (g # Nil => g = frame /\ ~done)
  BY <1>2, Disjoint DEF IndInv, Types
<1>11. DOMAIN slots'[cur] = 1..2 /\ Len(slots'[cur]) = 2 /\ slots'[cur][1] = m /\ slots'[cur][2] = g
  BY <1>10
<1>12. DOMAIN slots'[t] = 1..2 /\ Len(slots'[t]) = 2 /\ slots'[t][1] = Nil /\ slots'[t][2] = Nil
  BY <1>2
<1>13. Sound(cur)'
  <2>1. g # Nil => g \in Objs /\ Live(g)'
    BY <1>7, <1>10, Disjoint DEF IndInv, Types, FramesShaped
  <2>2. Live(m)'
    BY <1>1 DEF Live, Color
  <2>3. LiveRefs(cur)'
    BY <1>11, <2>1, <2>2 DEF LiveRefs
  <2>4. Color(cur)' = "black" => Color(m)' # "white" /\ (g # Nil => Color(g)' # "white")
    BY <1>1, <1>6, <1>8, <1>10 DEF Color
  <2>5. ShadedRefs(cur)'
    BY <1>11, <2>4 DEF ShadedRefs, ScannedSlots
  <2>6. Color(cur)' # "permanent"
    BY <1>4, <1>6, <1>8, ThreadFacts
  <2> QED
    BY <2>3, <2>5, <2>6 DEF Sound, FrozenRefs
<1>14. Sound(t)'
  <2>1. \A i \in DOMAIN slots'[t] : slots'[t][i] = Nil
    BY <1>12
  <2> QED
    BY <2>1 DEF Sound, LiveRefs, FrozenRefs, ShadedRefs, ScannedSlots
<1>15. Sound(m)'
  <2>1. Values(slots[m])
    BY <1>0, StackFacts
  <2>2. \A i \in DOMAIN slots'[m] : slots'[m][i] # Nil => gc'.color[slots'[m][i]] # "free"
    <3>1. CASE done
      BY <1>2, <3>1
    <3>2. CASE ~done
      BY <1>2, <1>7, <2>1, <3>2 DEF Values, Value, Live, Color
    <3> QED
      BY <3>1, <3>2
  <2>3. Color(m)' \in {"white", "grey"}
    BY <1>1 DEF Color
  <2> QED
    BY <2>2, <2>3 DEF Sound, LiveRefs, FrozenRefs, ShadedRefs, Live, Color
<1>16. Sound(s)'
  <2>1. slots'[s] = slots[s] /\ Color(s)' = "black"
    BY <1>1, <1>2, <1>5, <1>6 DEF Color
  <2>2. Values(slots[s])
    BY <1>5, <1>6, ObjectValues
  <2>3. LiveRefs(s)'
    BY <1>7, <2>1, <2>2 DEF LiveRefs, Values, Value
  <2> QED
    BY <1>3, <2>1, <2>3 DEF Sound, FrozenRefs, ShadedRefs
<1>17. Sound(Process)'
  <2>1. Values(slots[Process]) /\ DOMAIN slots[Process] = 1..3
        /\ slots[Process] \in Seq(Objs \cup {Nil})
    BY ProcessValues
  <2>2. LiveRefs(Process)'
    BY <1>2, <1>4, <1>6, <1>7, <2>1 DEF LiveRefs, Values, Value
  <2>3. Color(Process)' # "permanent"
    BY <1>6, <1>8 DEF IndInv, RootsKept
  <2>4. ShadedRefs(Process)'
    <3> SUFFICES ASSUME Color(Process)' = "black", NEW i \in 1..3, slots'[Process][i] # Nil,
                        Process = partial.obj => i <= partial.slot
                 PROVE  gc'.color[slots'[Process][i]] # "white"
      BY <1>2, <1>3 DEF ShadedRefs, ScannedSlots, Color
    <3>1. Color(Process) = "black"
      BY <1>6, <1>8
    <3>2. CASE i = 2
      BY <1>1, <1>2, <3>1, <3>2 DEF Color
    <3>3. CASE i # 2
      <4>1. slots'[Process][i] = slots[Process][i] /\ slots[Process][i] \in Objs \ Stacks
        BY <1>2, <2>1, <3>3 DEF Values, Value
      <4>2. Process \notin retired /\ Process # mStack
        BY <1>0, <1>6, Disjoint DEF IndInv, Types
      <4>3. gc.color[slots[Process][i]] # "white"
        BY <1>6, <2>1, <3>1, <4>1, <4>2 DEF IndInv, Sound, ShadedRefs, ScannedSlots, Color
      <4>4. slots[Process][i] \in Objs \ {m, s}
        BY <1>5, <1>6, <4>1
      <4> QED
        BY <1>1, <4>1, <4>3, <4>4 DEF Color
    <3> QED
      BY <3>2, <3>3
  <2> QED
    BY <2>2, <2>3, <2>4 DEF Sound, FrozenRefs
<1>18. ASSUME NEW o \in Objs \ {cur, t, m, s, Process}
       PROVE  Sound(o)'
  <2>1. slots'[o] = slots[o] /\ Sound(o) /\ o # mStack /\ o # mStack'
    BY <1>0, <1>2, <1>3 DEF IndInv
  <2>2. \A i \in DOMAIN slots[o] : slots[o][i] \in Objs \cup {Nil}
    BY DEF IndInv, Types, SlotSeqs
  <2>3. LiveRefs(o)'
    BY <1>3, <1>7, <2>1, <2>2 DEF Sound, LiveRefs
  <2>4. ASSUME Live(o), NEW i \in DOMAIN slots[o], slots[o][i] # Nil
        PROVE  slots[o][i] \in Objs \ {m, s}
    <3>1. CASE o \in Threads
      <4>1. DOMAIN slots[o] = 1..2 /\ slots[o][1] # m /\ slots[o][2] \in frames \cup {Nil}
        BY <1>0, <1>5, <1>6, <2>4, <3>1, ThreadFacts, Disjoint
      <4>2. slots[o][1] # s
        BY <1>0, <1>3, <1>4, <2>4, <3>1 DEF IndInv, StacksUnshared
      <4>3. slots[o][2] \notin {m, s}
        BY <1>5, <1>6, <4>1, Disjoint DEF IndInv, Types
      <4> QED
        BY <2>2, <2>4, <4>1, <4>2, <4>3
    <3>2. CASE o \notin Threads
      BY <1>5, <1>6, <2>2, <2>4, <3>2 DEF IndInv, StacksUnshared
    <3> QED
      BY <3>1, <3>2
  <2>5. ShadedRefs(o)'
    <3> SUFFICES ASSUME Color(o)' = "black", o \notin retired,
                        NEW i \in ScannedSlots(o), slots[o][i] # Nil
                 PROVE  gc'.color[slots[o][i]] # "white"
      BY <1>3, <2>1 DEF ShadedRefs, ScannedSlots, Color
    <3>1. Color(o) = "black" /\ i \in DOMAIN slots[o]
      BY <1>8 DEF ScannedSlots
    <3>2. slots[o][i] \in Objs \ {m, s} /\ gc.color[slots[o][i]] # "white"
      BY <2>1, <2>4, <3>1 DEF Sound, ShadedRefs, Live, Color
    <3> QED
      BY <1>1, <3>2 DEF Color
  <2>6. FrozenRefs(o)'
    <3> SUFFICES ASSUME Color(o)' = "permanent", NEW i \in DOMAIN slots[o], slots[o][i] # Nil
                 PROVE  gc'.color[slots[o][i]] = "permanent"
      BY <2>1 DEF FrozenRefs, Color
    <3>1. Color(o) = "permanent"
      BY <1>8
    <3>2. slots[o][i] \in Objs \ {m, s} /\ gc.color[slots[o][i]] = "permanent"
      BY <2>1, <2>4, <3>1 DEF Sound, FrozenRefs, Live, Color
    <3> QED
      BY <1>1, <3>2
  <2> QED
    BY <2>3, <2>5, <2>6 DEF Sound
<1>19. \A o \in Objs : Sound(o)'
  BY <1>13, <1>14, <1>15, <1>16, <1>17, <1>18
<1>20. RootsKept'
  <2>1. gc'.color[Process] \in {"grey", "black"}
    BY <1>1, <1>6 DEF IndInv, RootsKept, Color
  <2>2. slots'[Process][2] = t /\ Len(slots'[Process]) = 3
    BY <1>2
  <2> QED
    BY <1>1, <1>3, <1>5, <2>1, <2>2 DEF RootsKept, Color
<1>21. \A u \in Threads : Live(u)' => Live(u) /\ u \in Objs \ {m, s, Process}
  BY <1>6, <1>7, Disjoint DEF IndInv, Types
<1>22. \A u \in Threads \ {cur, t} : slots'[u] = slots[u]
  BY <1>2, <1>6, Disjoint
<1>23. ASSUME NEW u \in Threads \ {cur, t}, Live(u)
       PROVE  slots[u][1] = Nil \/ (slots[u][1] \in Stacks \ ({m, s} \cup retired))
  <2>1. slots[u][1] \in (Stacks \ ({m} \cup retired)) \cup {Nil}
    BY <1>0, <1>23, ThreadFacts
  <2>2. slots[u][1] = Nil \/ slots[u][1] # s
    BY <1>0, <1>3, <1>4, <1>23 DEF IndInv, StacksUnshared
  <2> QED
    BY <2>1, <2>2
<1>24. ThreadsShaped'
  <2> SUFFICES ASSUME NEW u \in Threads, Live(u)'
               PROVE  /\ Color(u)' # "permanent" /\ Len(slots'[u]) = 2
                      /\ slots'[u][1] \in (Stacks \ ({s} \cup retired)) \cup {Nil}
                      /\ slots'[u][2] \in frames \cup {Nil}
    BY <1>3 DEF ThreadsShaped
  <2>1. Color(u)' # "permanent" /\ Live(u)
    BY <1>8, <1>21, ThreadFacts
  <2>2. CASE u = cur
    BY <1>5, <1>6, <1>10, <1>11, <2>1, <2>2
  <2>3. CASE u = t
    BY <1>12, <2>1, <2>3
  <2>4. CASE u \notin {cur, t}
    <3>1. slots'[u] = slots[u] /\ Len(slots[u]) = 2 /\ slots[u][2] \in frames \cup {Nil}
      BY <1>22, <2>1, <2>4 DEF IndInv, ThreadsShaped
    <3> QED
      BY <1>23, <2>1, <2>4, <3>1
  <2> QED
    BY <2>2, <2>3, <2>4
<1>25. StacksUnshared'
  <2>1. ASSUME NEW u \in Threads, NEW v \in Threads, Live(u)', Live(v)', u # v
        PROVE  slots'[u][1] = Nil \/ slots'[u][1] # slots'[v][1]
    <3>0. Live(u) /\ Live(v)
      BY <1>21, <2>1
    <3>1. CASE u = cur
      <4>1. CASE v = t
        BY <1>6, <1>11, <1>12, <3>1, <4>1, Disjoint
      <4>2. CASE v # t
        <5>1. v \in Threads \ {cur, t}
          BY <2>1, <3>1, <4>2
        <5>2. slots'[v] = slots[v] /\ slots[v][1] # m
          BY <1>6, <1>22, <1>23, <3>0, <5>1, Disjoint
        <5> QED
          BY <1>11, <3>1, <5>2
      <4> QED
        BY <4>1, <4>2
    <3>2. CASE u = t
      BY <1>12, <3>2
    <3>3. CASE u \notin {cur, t}
      <4>1. slots'[u] = slots[u] /\ slots[u][1] # m
        BY <1>6, <1>22, <1>23, <3>0, <3>3, Disjoint
      <4>2. CASE v = cur
        BY <1>11, <4>1, <4>2
      <4>3. CASE v = t
        BY <1>12, <4>1, <4>3
      <4>4. CASE v \notin {cur, t}
        BY <1>22, <2>1, <3>0, <4>1, <4>4 DEF IndInv, StacksUnshared
      <4> QED
        BY <4>2, <4>3, <4>4
    <3> QED
      BY <3>1, <3>2, <3>3
  <2>2. ASSUME NEW o \in Objs \ Threads, NEW i \in DOMAIN slots'[o]
        PROVE  slots'[o][i] \notin Stacks
    <3>1. CASE o = Process
      <4>1. CASE i = 2
        BY <1>2, <1>6, <3>1, <4>1
      <4>2. CASE i # 2
        <5>1. i \in 1..3 /\ slots'[o][i] = slots[o][i] /\ i \in DOMAIN slots[o]
          BY <1>2, <2>2, <3>1, <4>2, ProcessValues
        <5> QED
          BY <2>2, <5>1 DEF IndInv, StacksUnshared
      <4> QED
        BY <4>1, <4>2
    <3>2. CASE o = m
      BY <1>2, <2>2, <3>2 DEF IndInv, StacksUnshared
    <3>3. CASE o \notin {Process, m}
      <4>1. slots'[o] = slots[o]
        BY <1>2, <1>4, <2>2, <3>3
      <4> QED
        BY <2>2, <4>1 DEF IndInv, StacksUnshared
    <3> QED
      BY <3>1, <3>2, <3>3
  <2>3. \A x \in retired : Live(x)'
    BY <1>7, Disjoint DEF IndInv, StacksUnshared, Types
  <2> QED
    BY <1>3, <2>1, <2>2, <2>3 DEF StacksUnshared
<1>26. \A f \in Cells \cup FinCells : slots'[f] = slots[f] /\ f \in Objs \ {m, s}
  BY <1>2, <1>5, <1>6, Disjoint
<1>27. FramesShaped'
  <2>1. frames \subseteq Cells
    BY DEF IndInv, Types
  <2> QED
    BY <1>3, <1>7, <1>8, <1>26, <2>1 DEF IndInv, FramesShaped
<1>28. TempsHeld'
  BY <1>3 DEF IndInv, TempsHeld
<1>29. FinalizersLinked'
  <2>1. slots' \in [Objs -> SlotSeqs] /\ \A f \in FinCells : slots'[f] = slots[f] /\ (Live(f)' => Live(f))
    BY <1>2, <1>7, <1>26
  <2>2. \A o \in Objs : Live(o) => Live(o)'
    BY <1>7
  <2>3. frames' \cap {o \in Cells : Live(o)} \subseteq frames
    BY <1>3
  <2>4. \A o \in Cells \ frames : slots'[o] = slots[o]
    BY <1>26
  <2> QED
    BY <2>1, <2>2, <2>3, <2>4, FinalizersKept
<1>30. FinalizedFree'
  BY <1>3, <1>7, Disjoint DEF IndInv, FinalizedFree, Types
<1>31. RootsScanned'
  BY <1>3 DEF IndInv, RootsScanned
<1> QED
  BY <1>1, <1>9, <1>19, <1>20, <1>24, <1>25, <1>27, <1>28, <1>29, <1>30, <1>31 DEF IndInv

\* The array that takes over is free: no thread refers to it.
LEMMA ReallocStackStep ==
  ASSUME IndInv, NEW s \in SpareStacks, ReallocStack(s)
  PROVE  IndInv'
<1>0. PICK m : m = mStack
  OBVIOUS
<1>1. s \in Stacks /\ gc.color[s] = "free" /\ s \in Objs /\ ~Live(s)
  BY Disjoint DEF ReallocStack, Color, Live
<1>2. /\ gc' = [gc EXCEPT !.color[s] = "black"] /\ slots' = [slots EXCEPT ![s] = slots[m]]
      /\ mStack' = s /\ retired' = retired \cup {m} /\ ~collect.running /\ ~delay.on
      /\ UNCHANGED <<frame, frames, partial, mFlips, collect, finalized, delay, program>>
  BY <1>0 DEF ReallocStack, Running, scanVars
<1>3. /\ gc \in Heaps /\ gc.numGrey = Cardinality(Greys(gc)) /\ slots \in [Objs -> SlotSeqs]
      /\ m \in Objs /\ m \in Stacks /\ Live(m) /\ Values(slots[m]) /\ m # s
  BY <1>0, <1>1, StackFacts DEF IndInv, Exact, Types
<1>4. gc' \in Heaps /\ gc'.numGrey = gc.numGrey
      /\ \A x \in Objs : gc'.color[x] = IF x = s THEN "black" ELSE gc.color[x]
  BY <1>1, <1>2, <1>3 DEF Heaps, Colors
<1>5. Exact(gc')
  <2>1. Greys(gc') = Greys(gc)
    BY <1>1, <1>4 DEF Greys
  <2> QED
    BY <1>3, <1>4, <2>1 DEF Exact
<1>6. slots' \in [Objs -> SlotSeqs] /\ slots'[s] = slots[m] /\ \A x \in Objs \ {s} : slots'[x] = slots[x]
  BY <1>1, <1>2, <1>3
<1>7. \A x \in Objs : Live(x) => Live(x)' /\ Color(x)' = Color(x) /\ x # s
  BY <1>1, <1>4 DEF Live, Color
<1>8. \A x \in Objs \ {s} : Live(x)' => Live(x)
  BY <1>4 DEF Live, Color
<1>9. Types'
  <2>1. retired \cup {m} \subseteq Stacks
    BY <1>3 DEF IndInv, Types
  <2> QED
    BY <1>1, <1>2, <1>6, <2>1 DEF IndInv, Types
<1>10. ASSUME NEW o \in Objs
       PROVE  Sound(o)'
  <2>1. CASE o = s
    <3>1. Color(s)' = "black"
      BY <1>1, <1>4 DEF Color
    <3>2. \A i \in DOMAIN slots'[s] : slots'[s][i] # Nil => gc'.color[slots'[s][i]] # "free"
      BY <1>3, <1>6, <1>7 DEF Values, Value, Live, Color
    <3> QED
      BY <1>2, <2>1, <3>1, <3>2 DEF Sound, LiveRefs, FrozenRefs, ShadedRefs, Live, Color
  <2>2. CASE o # s
    <3>1. slots'[o] = slots[o] /\ Sound(o) /\ Color(o)' = Color(o)
      BY <1>4, <1>6, <2>2 DEF IndInv, Color
    <3>2. \A i \in DOMAIN slots[o] : slots[o][i] \in Objs \cup {Nil}
      BY <1>3 DEF SlotSeqs
    <3>3. LiveRefs(o)'
      BY <1>2, <1>7, <3>1, <3>2 DEF Sound, LiveRefs, Live, Color
    <3>4. FrozenRefs(o)'
      <4>1. ASSUME Color(o) = "permanent", NEW i \in DOMAIN slots[o], slots[o][i] # Nil
            PROVE  gc'.color[slots[o][i]] = "permanent"
        BY <1>1, <1>4, <3>1, <3>2, <4>1 DEF Sound, FrozenRefs, Color
      <4> QED
        BY <3>1, <4>1 DEF FrozenRefs, Color
    <3>5. ShadedRefs(o)'
      <4>1. ASSUME Color(o) = "black", o \notin retired \cup {m}, NEW i \in ScannedSlots(o), slots[o][i] # Nil
            PROVE  gc'.color[slots[o][i]] # "white"
        <5>1. i \in DOMAIN slots[o] /\ slots[o][i] \in Objs
          BY <3>2, <4>1 DEF ScannedSlots
        <5>2. gc.color[slots[o][i]] # "white"
          BY <1>0, <3>1, <4>1 DEF Sound, ShadedRefs, Color
        <5> QED
          BY <1>4, <5>1, <5>2
      <4> QED
        BY <1>2, <3>1, <4>1 DEF ShadedRefs, ScannedSlots, Color
    <3> QED
      BY <3>3, <3>4, <3>5 DEF Sound
  <2> QED
    BY <2>1, <2>2
<1>11. s \notin retired
  BY <1>1 DEF IndInv, StacksUnshared
<1>12. RootsKept'
  <2>1. Process \in Objs \ {s}
    BY <1>1, Disjoint
  <2>2. gc'.color[s] = "black" /\ s \notin retired'
    BY <1>1, <1>2, <1>3, <1>4, <1>11
  <2> QED
    BY <1>2, <1>4, <1>6, <2>1, <2>2 DEF IndInv, RootsKept, Color
<1>13. ASSUME NEW t \in Threads
       PROVE  slots'[t] = slots[t] /\ t \in Objs \ {s} /\ Color(t)' = Color(t)
  BY <1>1, <1>4, <1>6, Disjoint DEF Color
<1>14. ThreadsShaped'
  <2> SUFFICES ASSUME NEW t \in Threads, Live(t)'
               PROVE  /\ Color(t)' # "permanent" /\ Len(slots'[t]) = 2
                      /\ slots'[t][1] \in (Stacks \ ({s} \cup retired')) \cup {Nil}
                      /\ slots'[t][2] \in frames \cup {Nil}
    BY <1>2 DEF ThreadsShaped
  <2>1. Live(t) /\ Color(t) # "permanent" /\ Len(slots[t]) = 2 /\ slots[t][2] \in frames \cup {Nil}
    BY <1>8, <1>13 DEF IndInv, ThreadsShaped
  <2>2. slots[t][1] \in (Stacks \ ({m} \cup retired)) \cup {Nil} /\ (slots[t][1] # Nil => Live(slots[t][1]))
    BY <1>0, <2>1, ThreadFacts
  <2> QED
    BY <1>1, <1>2, <1>13, <2>1, <2>2
<1>15. StacksUnshared'
  <2>1. \A t, u \in Threads :
          Live(t)' /\ Live(u)' /\ t # u => slots'[t][1] = Nil \/ slots'[t][1] # slots'[u][1]
    BY <1>8, <1>13 DEF IndInv, StacksUnshared
  <2>2. \A o \in Objs \ Threads : \A i \in DOMAIN slots'[o] : slots'[o][i] \notin Stacks
    <3>1. \A i \in DOMAIN slots[m] : slots[m][i] \notin Stacks
      BY <1>3, Disjoint DEF IndInv, StacksUnshared
    <3> QED
      BY <1>6, <3>1 DEF IndInv, StacksUnshared
  <2>3. \A x \in retired' : Live(x)'
    BY <1>2, <1>3, <1>7, Disjoint DEF IndInv, StacksUnshared, Types
  <2> QED
    BY <2>1, <2>2, <2>3 DEF StacksUnshared
<1>16. \A f \in Cells \cup FinCells : slots'[f] = slots[f] /\ f \in Objs \ {s} /\ Color(f)' = Color(f)
  BY <1>1, <1>4, <1>6, Disjoint DEF Color
<1>17. FramesShaped'
  <2>1. frames \subseteq Cells
    BY DEF IndInv, Types
  <2> QED
    BY <1>2, <1>16, <2>1 DEF IndInv, FramesShaped, Live
<1>18. TempsHeld'
  BY <1>2 DEF IndInv, TempsHeld
<1>19. FinalizersLinked'
  <2>1. slots' \in [Objs -> SlotSeqs] /\ \A f \in FinCells : slots'[f] = slots[f] /\ (Live(f)' => Live(f))
    BY <1>6, <1>8, <1>16
  <2>2. \A o \in Objs : Live(o) => Live(o)'
    BY <1>7
  <2>3. frames' \cap {o \in Cells : Live(o)} \subseteq frames
    BY <1>2
  <2>4. \A o \in Cells \ frames : slots'[o] = slots[o]
    BY <1>16
  <2> QED
    BY <2>1, <2>2, <2>3, <2>4, FinalizersKept
<1>20. FinalizedFree'
  BY <1>2, <1>16 DEF IndInv, FinalizedFree, Types, Live
<1>21. RootsScanned'
  BY <1>2 DEF IndInv, RootsScanned
<1> QED
  BY <1>5, <1>9, <1>10, <1>12, <1>14, <1>15, <1>17, <1>18, <1>19, <1>20, <1>21 DEF IndInv

-----------------------------------------------------------------------------
(* Frozen objects.                                                         *)

\* Closed, in terms of slots.
LEMMA ClosedSlots ==
  ASSUME NEW S
  PROVE  Closed(S) <=> \A x \in S : \A i \in DOMAIN slots[x] : slots[x][i] # Nil => slots[x][i] \in S
<1>1. ASSUME Closed(S), NEW x \in S, NEW i \in DOMAIN slots[x], slots[x][i] # Nil
      PROVE  slots[x][i] \in S
  <2>1. slots[x][i] \in Range(slots[x])
    BY DEF Range
  <2>2. slots[x][i] \in Targets(S)
    BY <1>1, <2>1 DEF Targets
  <2> QED
    BY <1>1, <2>2 DEF Closed
<1>2. ASSUME \A x \in S : \A i \in DOMAIN slots[x] : slots[x][i] # Nil => slots[x][i] \in S
      PROVE  Closed(S)
  <2> SUFFICES ASSUME NEW y \in Targets(S)
               PROVE  y \in S
    BY DEF Closed
  <2>1. PICK x \in S : y \in Range(slots[x])
    BY DEF Targets
  <2>2. y # Nil
    BY DEF Targets
  <2>3. PICK i \in DOMAIN slots[x] : y = slots[x][i]
    BY <2>1 DEF Range
  <2> QED
    BY <1>2, <2>2, <2>3
<1> QED
  BY <1>1, <1>2

\* Only what exists is reached.
LEMMA FrozenLive ==
  ASSUME IndInv, NEW o \in OnStack, NEW objs \in SUBSET ((Cells \cup FinCells) \ frames), Frozen(o, objs)
  PROVE  /\ \A x \in objs : Live(x) /\ x \in Objs \ (Threads \cup Stacks \cup {Process})
         /\ \A x \in objs : \A i \in DOMAIN slots[x] : slots[x][i] # Nil => slots[x][i] \in objs
<1> DEFINE S == {x \in objs : Live(x)}
<1>1. \A x \in objs : x \in Objs \ (Threads \cup Stacks \cup {Process}) /\ x \notin retired
  BY Disjoint DEF IndInv, Types
<1>2. \A x \in objs : \A i \in DOMAIN slots[x] : slots[x][i] # Nil => slots[x][i] \in objs
  <2>1. Closed(objs)
    BY DEF Frozen
  <2> QED
    BY <2>1, ClosedSlots
<1>3. ASSUME NEW x \in S, NEW i \in DOMAIN slots[x], slots[x][i] # Nil
      PROVE  slots[x][i] \in S
  <2>1. LiveRefs(x)
    BY <1>1 DEF IndInv, Sound
  <2> QED
    BY <1>1, <1>2, <1>3, <2>1 DEF LiveRefs
<1>4. Closed(S)
  <2> HIDE DEF S
  <2> QED
    BY <1>3, ClosedSlots
<1>5. o \in S /\ S \in SUBSET objs
  BY StackFacts DEF Frozen, Value
<1>6. S = objs
  <2> HIDE DEF S
  <2> QED
    BY <1>4, <1>5 DEF Frozen
<1> QED
  BY <1>1, <1>2, <1>6

\* A deep freeze, which makes a closed set permanent, preserves the invariant.
LEMMA DeepFreezeStep ==
  ASSUME IndInv, NEW o \in OnStack, DeepFreeze(o)
  PROVE  IndInv'
<1>1. PICK objs \in SUBSET ((Cells \cup FinCells) \ frames) :
         /\ Frozen(o, objs)
         /\ gc' = [color |-> [x \in Objs |-> IF x \in objs THEN "permanent" ELSE Color(x)],
                   numGrey |-> gc.numGrey - Cardinality({x \in objs : Color(x) = "grey"})]
  BY DEF DeepFreeze
<1>2. /\ \A x \in objs : Live(x) /\ x \in Objs \ (Threads \cup Stacks \cup {Process})
      /\ \A x \in objs : \A i \in DOMAIN slots[x] : slots[x][i] # Nil => slots[x][i] \in objs
  BY <1>1, FrozenLive
<1>3. \A x \in Objs : gc'.color[x] = IF x \in objs THEN "permanent" ELSE gc.color[x]
  BY <1>1 DEF Color
<1>4. Exact(gc')
  <2> DEFINE G == {x \in objs : Color(x) = "grey"}
  <2>1. G \subseteq Greys(gc) /\ G = Greys(gc) \cap objs
    BY <1>2 DEF Greys, Color
  <2>2. Greys(gc') = Greys(gc) \ G
    BY <1>3, <2>1 DEF Greys
  <2>3. IsFiniteSet(Greys(gc)) /\ Cardinality(Greys(gc)) \in Nat /\ gc.numGrey = Cardinality(Greys(gc))
        /\ gc \in Heaps
    BY GreysFinite DEF IndInv, Exact
  <2> HIDE DEF G
  <2>4. Cardinality(Greys(gc) \ G) = Cardinality(Greys(gc)) - Cardinality(G)
    <3>1. Cardinality(Greys(gc) \ G) = Cardinality(Greys(gc)) - Cardinality(Greys(gc) \cap G)
      BY <2>3, FS_Difference
    <3>2. Greys(gc) \cap G = G
      BY <2>1
    <3> QED
      BY <3>1, <3>2
  <2>5. gc'.numGrey = gc.numGrey - Cardinality(G)
    BY <1>1 DEF G
  <2>6. gc'.numGrey = Cardinality(Greys(gc')) /\ gc'.numGrey \in Nat
    BY <2>2, <2>3, <2>4, <2>5, GreysFinite
  <2>7. gc'.color \in [Objs -> Colors]
    <3>1. \A x \in Objs : gc.color[x] \in Colors
      BY <2>3 DEF Heaps
    <3>2. \A x \in Objs : (IF x \in objs THEN "permanent" ELSE Color(x)) \in Colors
      BY <3>1 DEF Colors, Color
    <3>3. gc'.color = [x \in Objs |-> IF x \in objs THEN "permanent" ELSE Color(x)]
      BY <1>1
    <3> QED
      BY <3>2, <3>3
  <2>8. gc' \in Heaps
    <3>1. gc' = [color |-> gc'.color, numGrey |-> gc'.numGrey]
      BY <1>1
    <3> QED
      BY <2>6, <2>7, <3>1 DEF Heaps
  <2> QED
    BY <2>6, <2>8 DEF Exact
<1>5. UNCHANGED <<slots, mStack, frame, frames, partial, mFlips, collect, finalized, delay, retired, program>>
      /\ ~collect.running /\ ~delay.on
  BY DEF DeepFreeze, MovesOnly, scanVars, Running
<1>6. \A x \in Objs : Live(x) <=> Live(x)'
  BY <1>2, <1>3 DEF Live, Color
<1>7. ASSUME NEW x \in Objs
      PROVE  Sound(x)'
  <2>1. \A i \in DOMAIN slots[x] : slots[x][i] \in Objs \cup {Nil}
    BY DEF IndInv, Types, SlotSeqs
  <2>2. Sound(x)
    BY DEF IndInv
  <2>3. LiveRefs(x)'
    BY <1>5, <1>6, <2>1, <2>2 DEF Sound, LiveRefs
  <2>4. FrozenRefs(x)'
    <3>1. CASE x \in objs
      <4>1. \A i \in DOMAIN slots[x] : slots[x][i] # Nil => gc'.color[slots[x][i]] = "permanent"
        BY <1>2, <1>3, <3>1
      <4> QED
        BY <1>5, <4>1 DEF FrozenRefs, Color
    <3>2. CASE x \notin objs
      <4>1. Color(x)' = Color(x)
        BY <1>3, <3>2 DEF Color
      <4>2. ASSUME Color(x) = "permanent", NEW i \in DOMAIN slots[x], slots[x][i] # Nil
            PROVE  gc'.color[slots[x][i]] = "permanent"
        BY <1>3, <2>1, <2>2, <4>2 DEF Sound, FrozenRefs, Color
      <4> QED
        BY <1>5, <4>1, <4>2 DEF FrozenRefs, Color
    <3> QED
      BY <3>1, <3>2
  <2>5. ShadedRefs(x)'
    <3>1. ASSUME gc'.color[x] = "black", x \notin {mStack} \cup retired, NEW i \in ScannedSlots(x), slots[x][i] # Nil
          PROVE  gc'.color[slots[x][i]] # "white"
      <4>1. gc.color[x] = "black"
        BY <1>3, <3>1
      <4>2. gc.color[slots[x][i]] # "white" /\ slots[x][i] \in Objs
        BY <2>1, <2>2, <3>1, <4>1 DEF Sound, ShadedRefs, ScannedSlots, Color
      <4> QED
        BY <1>3, <4>2
    <3> QED
      BY <1>5, <3>1 DEF ShadedRefs, ScannedSlots, Color
  <2> QED
    BY <2>3, <2>4, <2>5 DEF Sound
<1>8. \A x \in Threads \cup Stacks \cup frames \cup {Process} : Color(x)' = Color(x)
  <2>1. \A x \in Threads \cup Stacks \cup frames \cup {Process} : x \in Objs /\ x \notin objs
    BY <1>2, Disjoint DEF IndInv, Types
  <2> QED
    BY <1>3, <2>1 DEF Color
<1>9. Types'
  BY <1>5 DEF IndInv, Types
<1>10. RootsKept'
  BY <1>5, <1>8 DEF IndInv, RootsKept, Types
<1>11. ThreadsShaped' /\ StacksUnshared'
  <2>1. \A s \in retired : Live(s)'
    BY <1>8 DEF IndInv, StacksUnshared, Types, Live
  <2>2. \A t \in Threads : Color(t)' = Color(t) /\ (Live(t)' <=> Live(t))
    BY <1>8 DEF Live
  <2> QED
    BY <1>5, <2>1, <2>2 DEF IndInv, ThreadsShaped, StacksUnshared
<1>12. FramesShaped'
  BY <1>5, <1>8 DEF IndInv, FramesShaped, Live
<1>13. TempsHeld'
  BY <1>5 DEF IndInv, TempsHeld
<1>14. FinalizersLinked'
  <2>1. slots' \in [Objs -> SlotSeqs] /\ \A f \in FinCells : slots'[f] = slots[f] /\ (Live(f)' => Live(f))
    BY <1>5, <1>6, Disjoint DEF IndInv, Types
  <2>2. \A x \in Objs : Live(x) => Live(x)'
    BY <1>6
  <2>3. frames' \cap {x \in Cells : Live(x)} \subseteq frames
    BY <1>5
  <2>4. \A x \in Cells \ frames : slots'[x] = slots[x]
    BY <1>5
  <2> QED
    BY <2>1, <2>2, <2>3, <2>4, FinalizersKept
<1>15. FinalizedFree'
  BY <1>5, <1>6, Disjoint DEF IndInv, FinalizedFree, Types
<1>16. RootsScanned'
  BY <1>5 DEF IndInv, RootsScanned
<1> QED
  BY <1>4, <1>7, <1>9, <1>10, <1>11, <1>12, <1>13, <1>14, <1>15, <1>16 DEF IndInv

-----------------------------------------------------------------------------
(* Scanning.                                                               *)

\* White objects become grey, grey ones black.
Advances(h, g) ==
    \A x \in Objs : \/ g.color[x] = h.color[x]
                    \/ h.color[x] = "white" /\ g.color[x] = "grey"
                    \/ h.color[x] = "grey" /\ g.color[x] = "black"

\* What a black object refers to, as far as the slots in I.
ScannedAs(o, I) == \A i \in I : slots[o][i] # Nil => gc'.color[slots[o][i]] # "white"

\* A step of the collector is safe if it only darkens, and what it blackens is
\* scanned as far as the scan position says.
LEMMA ScanSafe ==
  ASSUME IndInv, collect.running, Exact(gc'), Advances(gc, gc'),
         UNCHANGED <<slots, mStack, frame, frames, mFlips, delay, finalized, retired, program>>,
         partial' \in [obj : Objs \cup {Nil}, slot : Nat],
         collect' \in [running : BOOLEAN, more : BOOLEAN, stackScanned : BOOLEAN],
         collect'.running, RootsScanned',
         \A x \in Objs : gc'.color[x] = "black" /\ x \notin {mStack} \cup retired =>
             ScannedAs(x, ScannedSlots(x)')
  PROVE  IndInv'
<1>1. \A x \in Objs : /\ Live(x) <=> Live(x)'
                      /\ Color(x) = "permanent" <=> Color(x)' = "permanent"
  BY DEF Advances, Live, Color
<1>2. Types'
  BY DEF IndInv, Types
<1>3. ASSUME NEW x \in Objs
      PROVE  Sound(x)'
  <2>1. \A i \in DOMAIN slots[x] : slots[x][i] \in Objs \cup {Nil}
    BY DEF IndInv, Types, SlotSeqs
  <2>2. Sound(x)
    BY DEF IndInv
  <2>3. LiveRefs(x)'
    BY <1>1, <2>1, <2>2 DEF Sound, LiveRefs
  <2>4. FrozenRefs(x)'
    BY <1>1, <2>1, <2>2 DEF Sound, FrozenRefs
  <2>5. ShadedRefs(x)'
    BY DEF ShadedRefs, ScannedAs, Color
  <2> QED
    BY <2>3, <2>4, <2>5 DEF Sound
<1>4. RootsKept'
  BY StackFacts, Disjoint DEF IndInv, RootsKept, Advances, Color
<1>5. ThreadsShaped' /\ StacksUnshared'
  <2>1. \A s \in retired : Live(s)'
    BY <1>1, Disjoint DEF IndInv, StacksUnshared, Types
  <2>2. \A t \in Threads : Live(t)' => Live(t) /\ (Color(t)' = "permanent" => Color(t) = "permanent")
    BY <1>1, Disjoint
  <2> QED
    BY <2>1, <2>2 DEF IndInv, ThreadsShaped, StacksUnshared
<1>6. FramesShaped'
  <2>1. frames \subseteq Objs
    BY Disjoint DEF IndInv, Types
  <2> QED
    BY <1>1, <2>1 DEF IndInv, FramesShaped
<1>7. TempsHeld'
  BY DEF IndInv, TempsHeld
<1>8. FinalizersLinked'
  <2>1. slots' \in [Objs -> SlotSeqs] /\ \A f \in FinCells : slots'[f] = slots[f] /\ (Live(f)' => Live(f))
    BY <1>1, Disjoint DEF IndInv, Types
  <2>2. \A x \in Objs : Live(x) => Live(x)'
    BY <1>1
  <2>3. frames' \cap {x \in Cells : Live(x)} \subseteq frames
    OBVIOUS
  <2>4. \A x \in Cells \ frames : slots'[x] = slots[x]
    OBVIOUS
  <2> QED
    BY <2>1, <2>2, <2>3, <2>4, FinalizersKept
<1>9. FinalizedFree'
  BY <1>1, Disjoint DEF IndInv, FinalizedFree, Types
<1> QED
  BY <1>2, <1>3, <1>4, <1>5, <1>6, <1>7, <1>8, <1>9 DEF IndInv

\* The roots stay scanned.
LEMMA RootsStayScanned ==
  ASSUME IndInv, Advances(gc, gc'), UNCHANGED <<slots, mStack, frame>>,
         collect'.stackScanned = collect.stackScanned, collect'.running
  PROVE  RootsScanned'
<1>1. Values(slots[mStack]) /\ frame \in Objs \cup {Nil}
  BY StackFacts, Disjoint DEF IndInv, Types
<1>2. RootsScanned
  BY DEF IndInv
<1>3. \A x \in Objs : gc.color[x] # "white" => gc'.color[x] # "white"
  BY DEF Advances
<1> QED
  BY <1>1, <1>2, <1>3 DEF RootsScanned, Values, Value, Color

\* What was not white stays so.
LEMMA StaysScanned ==
  ASSUME IndInv, Advances(gc, gc'), NEW x \in Objs, gc.color[x] = "black",
         x \notin {mStack} \cup retired
  PROVE  ScannedAs(x, ScannedSlots(x))
<1>1. ShadedRefs(x) /\ \A i \in DOMAIN slots[x] : slots[x][i] \in Objs \cup {Nil}
  BY DEF IndInv, Sound, Types, SlotSeqs
<1>2. \A y \in Objs : gc.color[y] # "white" => gc'.color[y] # "white"
  BY DEF Advances
<1>3. ScannedSlots(x) \subseteq DOMAIN slots[x]
  BY DEF ScannedSlots
<1> QED
  BY <1>1, <1>2, <1>3 DEF ScannedAs, ShadedRefs, Color

\* A step of the collector may use the credit up, and nothing else.
LEMMA CreditTypes ==
  ASSUME IndInv, collect.running, NEW more \in BOOLEAN, CreditAfter(more)
  PROVE  /\ collect' \in [running : BOOLEAN, more : BOOLEAN, stackScanned : BOOLEAN]
         /\ collect'.running /\ collect'.stackScanned = collect.stackScanned
<1>1. collect \in [running : BOOLEAN, more : BOOLEAN, stackScanned : BOOLEAN]
  BY DEF IndInv, Types
<1> QED
  BY <1>1 DEF CreditAfter

\* An object is made black, then some of its slots, q, are scanned.
LEMMA BlackenedExact ==
  ASSUME IndInv, NEW o \in Objs, gc.color[o] = "grey", NEW q \in SlotSeqs, NEW g,
         g = ScanSlots(ToBlack(gc, o), q)
  PROVE  /\ Exact(g) /\ Advances(gc, g)
         /\ \A x \in Objs : g.color[x] = "black" => x = o \/ gc.color[x] = "black"
         /\ \A i \in DOMAIN q : q[i] # Nil => g.color[q[i]] # "white"
<1> DEFINE h == ToBlack(gc, o)
<1>1. Exact(gc)
  BY DEF IndInv
<1>2. Exact(h) /\ \A x \in Objs : h.color[x] = IF x = o THEN "black" ELSE gc.color[x]
  BY ONLY <1>1, o \in Objs, ToBlackExact
<1> HIDE DEF h
<1>3. g = ScanSlots(h, q)
  BY DEF h
<1>4. /\ Exact(ScanSlots(h, q)) /\ Shades(h, ScanSlots(h, q))
      /\ \A i \in DOMAIN q : q[i] # Nil => ScanSlots(h, q).color[q[i]] # "white"
  BY ONLY <1>2, q \in SlotSeqs, ScanSlotsExact
<1>5. Exact(g) /\ Shades(h, g) /\ \A i \in DOMAIN q : q[i] # Nil => g.color[q[i]] # "white"
  BY <1>3, <1>4
<1>6. \A x \in Objs : g.color[x] = "black" => x = o \/ gc.color[x] = "black"
  BY <1>2, <1>5 DEF Shades
<1>7. Advances(gc, g)
  BY <1>2, <1>5 DEF Shades, Advances
<1> QED
  BY <1>5, <1>6, <1>7

\* Scanning a whole object preserves the invariant.
LEMMA ScanOneObjStep ==
  ASSUME IndInv, NEW o \in Objs, ScanOneObj(o)
  PROVE  IndInv'
<1>1. /\ collect.running /\ partial.obj = Nil /\ gc.color[o] = "grey"
      /\ gc' = ScanSlots(ToBlack(gc, o), slots[o])
      /\ UNCHANGED <<slots, mStack, frame, frames, mFlips, delay, finalized, retired, program>>
      /\ partial' = partial /\ slots[o] \in SlotSeqs
  BY DEF ScanOneObj, ScanVarsOnly, Color, IndInv, Types
<1>2. /\ Exact(gc') /\ Advances(gc, gc')
      /\ \A x \in Objs : gc'.color[x] = "black" => x = o \/ gc.color[x] = "black"
      /\ \A i \in DOMAIN slots[o] : slots[o][i] # Nil => gc'.color[slots[o][i]] # "white"
  BY <1>1, BlackenedExact
<1>3. PICK more \in BOOLEAN : CreditAfter(more)
  BY DEF ScanOneObj
<1>4. /\ collect' \in [running : BOOLEAN, more : BOOLEAN, stackScanned : BOOLEAN]
      /\ collect'.running /\ collect'.stackScanned = collect.stackScanned
  BY <1>1, <1>3, CreditTypes
<1>5. RootsScanned'
  BY <1>1, <1>2, <1>4, RootsStayScanned
<1>6. partial' \in [obj : Objs \cup {Nil}, slot : Nat]
  BY <1>1 DEF IndInv, Types
<1>7. ASSUME NEW x \in Objs, gc'.color[x] = "black", x \notin {mStack} \cup retired
      PROVE  ScannedAs(x, ScannedSlots(x)')
  <2>1. ScannedSlots(x)' = ScannedSlots(x) /\ ScannedSlots(x) \subseteq DOMAIN slots[x]
    BY <1>1 DEF ScannedSlots
  <2>2. CASE x = o
    BY <1>2, <2>1, <2>2 DEF ScannedAs
  <2>3. CASE gc.color[x] = "black"
    BY <1>2, <1>7, <2>1, <2>3, StaysScanned
  <2> QED
    BY <1>2, <1>7, <2>2, <2>3
<1> QED
  BY <1>1, <1>2, <1>4, <1>5, <1>6, <1>7, ScanSafe

\* Scanning the first slots of a large object preserves it.
LEMMA ScanOneObjPartlyStep ==
  ASSUME IndInv, NEW o \in Objs, NEW n \in 1..MaxSlots, ScanOneObjPartly(o, n)
  PROVE  IndInv'
<1> DEFINE q == SubSeq(slots[o], 1, n)
<1>1. /\ collect.running /\ partial.obj = Nil /\ gc.color[o] = "grey" /\ n < Len(slots[o])
      /\ gc' = ScanSlots(ToBlack(gc, o), q)
      /\ UNCHANGED <<slots, mStack, frame, frames, mFlips, delay, finalized, retired, program>>
      /\ partial' = [obj |-> o, slot |-> n] /\ slots[o] \in Seq(Objs \cup {Nil}) /\ CreditAfter(FALSE)
  BY DEF ScanOneObjPartly, ScanVarsOnly, Color, IndInv, Types, SlotSeqs
<1>2. n \in Nat \ {0} /\ Len(slots[o]) \in Nat /\ n <= Len(slots[o]) /\ DOMAIN slots[o] = 1..Len(slots[o])
  BY <1>1, GCAssumption
<1>3. q \in SlotSeqs /\ DOMAIN q = 1..n /\ \A i \in 1..n : q[i] = slots[o][i]
  BY <1>1, <1>2 DEF SlotSeqs
<1> HIDE DEF q
<1>4. /\ Exact(gc') /\ Advances(gc, gc')
      /\ \A x \in Objs : gc'.color[x] = "black" => x = o \/ gc.color[x] = "black"
      /\ \A i \in DOMAIN q : q[i] # Nil => gc'.color[q[i]] # "white"
  BY <1>1, <1>3, BlackenedExact
<1>5. /\ collect' \in [running : BOOLEAN, more : BOOLEAN, stackScanned : BOOLEAN]
      /\ collect'.running /\ collect'.stackScanned = collect.stackScanned
  BY <1>1, CreditTypes
<1>6. RootsScanned'
  BY <1>1, <1>4, <1>5, RootsStayScanned
<1>7. partial' \in [obj : Objs \cup {Nil}, slot : Nat]
  BY <1>1, <1>2
<1>8. ASSUME NEW x \in Objs, gc'.color[x] = "black", x \notin {mStack} \cup retired
      PROVE  ScannedAs(x, ScannedSlots(x)')
  <2>1. CASE x = o
    <3>1. ScannedSlots(o)' = {i \in DOMAIN slots[o] : i <= n}
      BY <1>1 DEF ScannedSlots
    <3>2. ScannedSlots(o)' \subseteq 1..n
      BY <1>2, <3>1
    <3> QED
      BY <1>3, <1>4, <2>1, <3>2 DEF ScannedAs
  <2>2. CASE x # o
    <3>1. ScannedSlots(x)' = ScannedSlots(x)
      BY <1>1, <2>2, Disjoint DEF ScannedSlots
    <3>2. gc.color[x] = "black"
      BY <1>4, <1>8, <2>2
    <3> QED
      BY <1>4, <1>8, <3>1, <3>2, StaysScanned
  <2> QED
    BY <2>1, <2>2
<1> QED
  BY <1>1, <1>4, <1>5, <1>6, <1>7, <1>8, ScanSafe

\* A part of a sequence of slots.
LEMMA PartOfSlots ==
  ASSUME NEW q \in SlotSeqs, NEW m \in Nat \ {0}, NEW n \in 0..Len(q)
  PROVE  /\ SubSeq(q, m, n) \in SlotSeqs
         /\ \A i \in m..n : i - m + 1 \in DOMAIN SubSeq(q, m, n) /\ SubSeq(q, m, n)[i - m + 1] = q[i]
<1> DEFINE s == SubSeq(q, m, n)
<1>1. q \in Seq(Objs \cup {Nil}) /\ Len(q) \in Nat /\ n \in Nat /\ n <= Len(q)
  BY DEF SlotSeqs
<1>2. s \in Seq(Objs \cup {Nil}) /\ Len(s) = (IF m <= n THEN n - m + 1 ELSE 0) /\ DOMAIN s = 1..Len(s)
      /\ \A k \in 1..Len(s) : s[k] = q[m + k - 1]
  BY <1>1
<1> HIDE DEF s
<1>3. ASSUME NEW i \in m..n
      PROVE  i - m + 1 \in DOMAIN s /\ s[i - m + 1] = q[i]
  <2>1. i - m + 1 \in 1..Len(s) /\ m + (i - m + 1) - 1 = i
    BY <1>1, <1>2
  <2> QED
    BY <1>2, <2>1
<1> QED
  BY <1>2, <1>3 DEF s, SlotSeqs

\* The slots of the object whose scan is under way, from the next one to n.
LEMMA PartScanned ==
  ASSUME IndInv, collect.running, partial.obj # Nil, NEW n \in 0..Len(slots[partial.obj]),
         gc' = ScanSlots(gc, SubSeq(slots[partial.obj], partial.slot + 1, n)),
         UNCHANGED <<slots, mStack, frame, frames, mFlips, delay, finalized, retired, program>>,
         NEW more \in BOOLEAN, CreditAfter(more),
         partial' \in [obj : Objs \cup {Nil}, slot : Nat],
         partial'.obj \in {Nil, partial.obj},
         \A i \in DOMAIN slots[partial.obj] :
            partial'.obj = Nil \/ i <= partial'.slot => i <= n
  PROVE  IndInv'
<1>0. PICK o, v, m, q : o = partial.obj /\ v = slots[o] /\ m = partial.slot + 1 /\ q = SubSeq(v, m, n)
  OBVIOUS
<1>1. /\ o \in Objs /\ o # Nil /\ v \in SlotSeqs /\ partial.slot \in Nat
      /\ m \in Nat \ {0} /\ n \in 0..Len(v)
  BY <1>0 DEF IndInv, Types
<1>2. q \in SlotSeqs /\ \A i \in m..n : \E k \in DOMAIN q : q[k] = slots[o][i]
  <2>1. /\ SubSeq(v, m, n) \in SlotSeqs
        /\ \A i \in m..n : i - m + 1 \in DOMAIN SubSeq(v, m, n) /\ SubSeq(v, m, n)[i - m + 1] = v[i]
    BY ONLY <1>1, PartOfSlots
  <2> QED
    BY <1>0, <2>1
<1>3. Exact(gc) /\ gc' = ScanSlots(gc, q)
  BY <1>0 DEF IndInv
<1>4. /\ Exact(gc') /\ Shades(gc, gc')
      /\ \A i \in DOMAIN q : q[i] # Nil => gc'.color[q[i]] # "white"
  <2>1. /\ Exact(ScanSlots(gc, q)) /\ Shades(gc, ScanSlots(gc, q))
        /\ \A i \in DOMAIN q : q[i] # Nil => ScanSlots(gc, q).color[q[i]] # "white"
    BY ONLY <1>2, <1>3, ScanSlotsExact
  <2> QED
    BY <1>3, <2>1
<1>5. Advances(gc, gc') /\ \A x \in Objs : gc'.color[x] = "black" => gc.color[x] = "black"
  BY <1>4 DEF Shades, Advances
<1>6. /\ collect' \in [running : BOOLEAN, more : BOOLEAN, stackScanned : BOOLEAN]
      /\ collect'.running /\ collect'.stackScanned = collect.stackScanned
  BY CreditTypes
<1>7. RootsScanned'
  BY <1>5, <1>6, RootsStayScanned
<1>8. ASSUME NEW x \in Objs, gc'.color[x] = "black", x \notin {mStack} \cup retired
      PROVE  ScannedAs(x, ScannedSlots(x)')
  <2>0. gc.color[x] = "black" /\ ScannedAs(x, ScannedSlots(x))
    BY <1>5, <1>8, StaysScanned
  <2>1. CASE x = o
    <3> SUFFICES ASSUME NEW i \in ScannedSlots(o)', slots[o][i] # Nil
                 PROVE  gc'.color[slots[o][i]] # "white"
      BY <2>1 DEF ScannedAs
    <3>1. i \in DOMAIN slots[o] /\ i <= n /\ i \in Nat
      <4>1. i \in DOMAIN slots[o] /\ (o = partial'.obj => i <= partial'.slot)
        BY DEF ScannedSlots
      <4>2. i \in Nat
        BY <1>0, <1>1, <4>1 DEF SlotSeqs
      <4> QED
        BY <1>0, <1>1, <4>1, <4>2
    <3>2. CASE i <= partial.slot
      <4>1. i \in ScannedSlots(o)
        BY <1>0, <3>1, <3>2 DEF ScannedSlots
      <4> QED
        BY <2>0, <2>1, <4>1 DEF ScannedAs
    <3>3. CASE ~(i <= partial.slot)
      <4>1. i \in m..n
        BY <1>0, <1>1, <3>1, <3>3
      <4> QED
        BY <1>2, <1>4, <4>1
    <3> QED
      BY <3>2, <3>3
  <2>2. CASE x # o
    <3>1. ScannedSlots(x)' = ScannedSlots(x)
      BY <1>0, <2>2, Disjoint DEF ScannedSlots
    <3> QED
      BY <2>0, <3>1
  <2> QED
    BY <2>1, <2>2
<1>9. \A x \in Objs : gc'.color[x] = "black" /\ x \notin {mStack} \cup retired =>
         ScannedAs(x, ScannedSlots(x)')
  BY <1>8
<1> QED
  BY ONLY IndInv, collect.running, <1>4, <1>5, <1>6, <1>7, <1>9,
     partial' \in [obj : Objs \cup {Nil}, slot : Nat],
     UNCHANGED <<slots, mStack, frame, frames, mFlips, delay, finalized, retired, program>>, ScanSafe

\* Going on with a large object preserves the invariant.
LEMMA PartialScanSteps ==
  ASSUME IndInv, DoPartialScanRest \/ \E n \in 1..MaxSlots : DoPartialScanMore(n)
  PROVE  IndInv'
<1>1. /\ partial \in [obj : Objs \cup {Nil}, slot : Nat]
      /\ partial.obj # Nil => slots[partial.obj] \in Seq(Objs \cup {Nil})
  BY DEF IndInv, Types, SlotSeqs
<1>2. CASE DoPartialScanRest
  <2>1. /\ collect.running /\ partial.obj # Nil /\ partial' = [obj |-> Nil, slot |-> 0]
        /\ gc' = ScanSlots(gc, SubSeq(slots[partial.obj], partial.slot + 1, Len(slots[partial.obj])))
        /\ UNCHANGED <<slots, mStack, frame, frames, mFlips, delay, finalized, retired, program>>
    BY <1>2 DEF DoPartialScanRest, ScanVarsOnly, NoPartial
  <2>2. PICK more \in BOOLEAN : CreditAfter(more)
    BY <1>2 DEF DoPartialScanRest
  <2>3. Len(slots[partial.obj]) \in Nat /\ DOMAIN slots[partial.obj] = 1..Len(slots[partial.obj])
    BY <1>1, <2>1
  <2>4. partial' \in [obj : Objs \cup {Nil}, slot : Nat] /\ partial'.obj = Nil
    BY <2>1
  <2>5. Len(slots[partial.obj]) \in 0..Len(slots[partial.obj])
        /\ \A i \in DOMAIN slots[partial.obj] : i <= Len(slots[partial.obj])
    BY <2>3
  <2> QED
    BY <2>1, <2>2, <2>4, <2>5, PartScanned
<1>3. ASSUME NEW n \in 1..MaxSlots, DoPartialScanMore(n)
      PROVE  IndInv'
  <2> DEFINE k == partial.slot + n
  <2>1. /\ collect.running /\ partial.obj # Nil /\ partial' = [partial EXCEPT !.slot = @ + n]
        /\ k < Len(slots[partial.obj])
        /\ gc' = ScanSlots(gc, SubSeq(slots[partial.obj], partial.slot + 1, k))
        /\ UNCHANGED <<slots, mStack, frame, frames, mFlips, delay, finalized, retired, program>>
        /\ CreditAfter(FALSE)
    BY <1>3 DEF DoPartialScanMore, ScanVarsOnly
  <2>2. Len(slots[partial.obj]) \in Nat /\ n \in Nat /\ partial.slot \in Nat
    BY <1>1, <2>1, GCAssumption
  <2>3. k \in 0..Len(slots[partial.obj]) /\ k \in Nat
    BY <2>1, <2>2
  <2>4. partial' \in [obj : Objs \cup {Nil}, slot : Nat] /\ partial'.obj = partial.obj /\ partial'.slot = k
    BY <1>1, <2>1, <2>2
  <2> HIDE DEF k
  <2>5. \A i \in DOMAIN slots[partial.obj] : partial'.obj = Nil \/ i <= partial'.slot => i <= k
    BY <2>1, <2>4
  <2> QED
    BY <2>1, <2>3, <2>4, <2>5, PartScanned
<1> QED
  BY <1>2, <1>3

\* The current frame is the first of the chain.
LEMMA CollectRootsStep ==
  ASSUME IndInv, CollectRoots
  PROVE  IndInv'
<1> DEFINE h == ScanSlots(gc, slots[mStack])
           W == {f \in FrameChain : h.color[f] = "white"}
<1>1. /\ collect.running /\ gc' = ScanRoots(gc) /\ partial' = partial
      /\ collect' = [collect EXCEPT !.stackScanned = TRUE]
      /\ UNCHANGED <<slots, mStack, frame, frames, mFlips, delay, finalized, retired, program>>
  BY DEF CollectRoots, ScanVarsOnly
<1>2. Exact(gc) /\ slots[mStack] \in SlotSeqs /\ Values(slots[mStack])
  BY StackFacts DEF IndInv, Values
<1>3. /\ Exact(h) /\ Shades(gc, h)
      /\ \A i \in DOMAIN slots[mStack] : slots[mStack][i] # Nil => h.color[slots[mStack][i]] # "white"
  BY ONLY <1>2, ScanSlotsExact
<1>4. gc' = [color |-> [o \in Objs |-> IF o \in W THEN "grey" ELSE h.color[o]],
             numGrey |-> h.numGrey + Cardinality(W)]
  BY <1>1 DEF ScanRoots
<1>5. W \in SUBSET Objs /\ \A o \in W : h.color[o] = "white"
  BY Disjoint DEF FrameChain, IndInv, Types
<1>6. frame # Nil => frame \in Objs /\ frame \in frames /\ (h.color[frame] = "white" => frame \in W)
  BY Disjoint DEF FrameChain, IndInv, Types
<1> HIDE DEF h, W
<1>7. Exact(gc') /\ Shades(h, gc') /\ \A o \in W : gc'.color[o] = "grey"
  BY ONLY <1>3, <1>4, <1>5, ShadeSetExact
<1>8. Advances(gc, gc') /\ \A x \in Objs : gc'.color[x] = "black" => gc.color[x] = "black"
  BY <1>3, <1>7 DEF Shades, Advances
<1>9. /\ collect' \in [running : BOOLEAN, more : BOOLEAN, stackScanned : BOOLEAN]
      /\ collect'.running
  <2>1. collect \in [running : BOOLEAN, more : BOOLEAN, stackScanned : BOOLEAN]
    BY DEF IndInv, Types
  <2> QED
    BY <1>1, <2>1
<1>10. RootsScanned'
  <2>1. \A i \in DOMAIN slots[mStack] : slots[mStack][i] # Nil => gc'.color[slots[mStack][i]] # "white"
    BY <1>2, <1>3, <1>7 DEF Values, Value, Shades
  <2>2. frame # Nil => gc'.color[frame] # "white"
    BY <1>6, <1>7 DEF Shades
  <2> QED
    BY <1>1, <1>9, <2>1, <2>2 DEF RootsScanned, Color
<1>11. partial' \in [obj : Objs \cup {Nil}, slot : Nat]
  BY <1>1 DEF IndInv, Types
<1>12. ASSUME NEW x \in Objs, gc'.color[x] = "black", x \notin {mStack} \cup retired
       PROVE  ScannedAs(x, ScannedSlots(x)')
  <2>1. ScannedSlots(x)' = ScannedSlots(x)
    BY <1>1 DEF ScannedSlots
  <2> QED
    BY <1>8, <1>12, <2>1, StaysScanned
<1> QED
  BY <1>1, <1>7, <1>8, <1>9, <1>10, <1>11, <1>12, ScanSafe

-----------------------------------------------------------------------------
(* The flip.                                                               *)

\* When Flip begins nothing is grey, and what is not white, other than an
\* array that reallocStack replaced, refers to nothing white.
LEMMA ReadyToFlip ==
  ASSUME IndInv, Flip
  PROVE  /\ \A x \in Objs : gc.color[x] \in {"free", "white", "black", "permanent"}
         /\ gc.color[Process] = "black" /\ gc.color[mStack] = "black"
         /\ \A o \in Objs : gc.color[o] \in {"black", "permanent"} /\ o \notin retired =>
              \A i \in DOMAIN slots[o] : slots[o][i] # Nil =>
                 slots[o][i] \in Objs /\ gc.color[slots[o][i]] \in {"black", "permanent"}
         /\ frame # Nil => frame \in frames /\ gc.color[frame] \in {"black", "permanent"}
<1>1. gc.numGrey = 0 /\ partial.obj = Nil /\ collect.stackScanned
  BY DEF Flip, MoreGrey, IndInv, Exact, Heaps
<1>2. Greys(gc) = {}
  <2>1. Cardinality(Greys(gc)) = 0 /\ IsFiniteSet(Greys(gc))
    BY <1>1, GreysFinite DEF IndInv, Exact
  <2> QED
    BY <2>1, FS_EmptySet
<1>3. \A x \in Objs : gc.color[x] \in {"free", "white", "black", "permanent"}
  BY <1>2 DEF IndInv, Exact, Heaps, Colors, Greys
<1>4. gc.color[Process] = "black" /\ gc.color[mStack] = "black"
  BY <1>3, Disjoint DEF IndInv, RootsKept, Color
<1>5. ASSUME NEW o \in Objs, gc.color[o] \in {"black", "permanent"}, o \notin retired,
             NEW i \in DOMAIN slots[o], slots[o][i] # Nil
      PROVE  slots[o][i] \in Objs /\ gc.color[slots[o][i]] \in {"black", "permanent"}
  <2>1. slots[o][i] \in Objs
    BY <1>5 DEF IndInv, Types, SlotSeqs
  <2>2. gc.color[slots[o][i]] # "free"
    BY <1>5 DEF IndInv, Sound, LiveRefs, Live, Color
  <2>3. gc.color[slots[o][i]] # "white"
    <3>1. CASE o = mStack
      BY <1>1, <1>5, <3>1 DEF IndInv, RootsScanned, Color
    <3>2. CASE o # mStack /\ gc.color[o] = "black"
      <4>1. ShadedRefs(o) /\ o # partial.obj
        BY <1>1, Disjoint DEF IndInv, Sound
      <4> QED
        BY <1>5, <3>2, <4>1 DEF ShadedRefs, ScannedSlots, Color
    <3>3. CASE gc.color[o] = "permanent"
      BY <1>5, <3>3 DEF IndInv, Sound, FrozenRefs, Color
    <3> QED
      BY <1>5, <3>1, <3>2, <3>3
  <2> QED
    BY <1>3, <2>1, <2>2, <2>3
<1>6. ASSUME frame # Nil
      PROVE  frame \in frames /\ gc.color[frame] \in {"black", "permanent"}
  <2>1. frame \in frames /\ frame \in Objs
    BY <1>6, Disjoint DEF IndInv, Types
  <2>2. gc.color[frame] # "white" /\ gc.color[frame] # "free"
    BY <1>1, <1>6, <2>1 DEF IndInv, RootsScanned, FramesShaped, Live, Color
  <2> QED
    BY <1>3, <2>1, <2>2
<1> QED
  BY <1>3, <1>4, <1>5, <1>6

\* The objects whose finalizer runs die with it.
LEMMA FinalizedDie ==
  ASSUME IndInv, Flip
  PROVE  \A o \in Finalized : o \in Cells /\ gc.color[o] = "white"
<1> SUFFICES ASSUME NEW f \in FinCells, gc.color[f] = "white"
             PROVE  slots[f][2] \in Cells /\ gc.color[slots[f][2]] = "white"
  BY DEF Finalized, DyingFinalizers, Color
<1>1. FinalizerOf(f)
  BY DEF IndInv, FinalizersLinked, Live, Color
<1>2. PICK o \in Cells \ frames : /\ slots[f] = <<Nil, o>> /\ Live(o)
                                 /\ 2 \in DOMAIN slots[o] /\ slots[o][2] = f
  BY <1>1 DEF FinalizerOf
<1>3. slots[f][2] = o
  BY <1>2
<1>4. o \in Objs /\ o \notin retired /\ f # Nil
  BY <1>2, CellFacts, Disjoint
<1>5. gc.color[o] \notin {"black", "permanent"}
  <2>1. ASSUME gc.color[o] \in {"black", "permanent"} PROVE FALSE
    <3>1. gc.color[slots[o][2]] \in {"black", "permanent"}
      BY <1>2, <1>4, <2>1, ReadyToFlip
    <3> QED
      BY <1>2, <3>1
  <2> QED
    BY <2>1
<1>6. gc.color[o] = "white"
  BY <1>2, <1>4, <1>5, ReadyToFlip DEF Live, Color
<1> QED
  BY <1>2, <1>3, <1>6

\* The colours after a flip.
LEMMA FlipColors ==
  ASSUME IndInv, Flip
  PROVE  /\ Exact(gc')
         /\ \A x \in Objs :
              gc'.color[x] = IF x = mStack THEN "black" ELSE IF x = Process THEN "grey"
                             ELSE IF gc.color[x] = "white" THEN "free"
                             ELSE IF gc.color[x] = "black" /\ MajorFlip THEN "white"
                             ELSE gc.color[x]
<1> DEFINE w == [color |-> Flipped(gc, MajorFlip), numGrey |-> 0]
           h == ToGrey(w, Process)
<1>1. \A x \in Objs : gc.color[x] \in {"free", "white", "black", "permanent"}
  BY ReadyToFlip
<1>2. \A x \in Objs : w.color[x] = IF gc.color[x] = "white" THEN "free"
                                   ELSE IF gc.color[x] = "black" /\ MajorFlip THEN "white"
                                   ELSE gc.color[x]
  BY <1>1 DEF Flipped
<1>3. w.color = [x \in Objs |-> w.color[x]] /\ w = [color |-> w.color, numGrey |-> 0] /\ w.numGrey = 0
  BY DEF Flipped
<1>4. gc' = ToBlack(h, mStack)
  BY DEF Flip
<1> HIDE DEF w
<1>5. Exact(w)
  <2>1. \A x \in Objs : w.color[x] \in Colors /\ w.color[x] # "grey"
    BY <1>1, <1>2 DEF Colors
  <2>2. w.color \in [Objs -> Colors]
    BY <1>3, <2>1
  <2>3. w \in Heaps
    BY <1>3, <2>2 DEF Heaps
  <2>4. Greys(w) = {}
    BY <2>1 DEF Greys
  <2> QED
    BY <1>3, <2>3, <2>4, FS_EmptySet DEF Exact
<1>6. Process \in Objs /\ w.color[Process] # "grey" /\ mStack \in Objs /\ mStack # Process
  BY <1>1, <1>2, Disjoint, StackFacts
<1>7. Exact(h) /\ \A x \in Objs : h.color[x] = IF x = Process THEN "grey" ELSE w.color[x]
  BY ONLY <1>5, <1>6, ToGreyExact
<1> HIDE DEF h
<1>8. Exact(ToBlack(h, mStack))
      /\ \A x \in Objs : ToBlack(h, mStack).color[x] = IF x = mStack THEN "black" ELSE h.color[x]
  BY ONLY <1>6, <1>7, ToBlackExact
<1>9. Exact(gc') /\ \A x \in Objs : gc'.color[x] = IF x = mStack THEN "black" ELSE h.color[x]
  BY <1>4, <1>8
<1> QED
  BY <1>2, <1>6, <1>7, <1>9

\* A flip clears what it frees, and nothing else.
LEMMA FlipSlots ==
  ASSUME IndInv, Flip
  PROVE  /\ slots' \in [Objs -> SlotSeqs]
         /\ \A x \in Objs : slots'[x] = IF gc.color[x] = "white" THEN <<>> ELSE slots[x]
<1>1. slots \in [Objs -> SlotSeqs] /\ <<>> \in SlotSeqs
  BY DEF IndInv, Types, SlotSeqs
<1>2. \A x \in Objs : x \in Finalized => gc.color[x] = "white"
  BY FinalizedDie
<1>3. slots' = [o \in Objs |->
                   IF Color(o) = "white" THEN <<>>
                   ELSE IF o \in Finalized
                        THEN [i \in DOMAIN slots[o] |-> IF i <= 2 THEN Nil ELSE slots[o][i]]
                        ELSE slots[o]]
  BY DEF Flip
<1>4. \A x \in Objs : slots'[x] = IF gc.color[x] = "white" THEN <<>> ELSE slots[x]
  BY <1>2, <1>3 DEF Color
<1>5. slots' = [x \in Objs |-> slots'[x]]
  BY <1>3
<1>6. \A x \in Objs : slots'[x] \in SlotSeqs
  BY <1>1, <1>4
<1> QED
  BY <1>4, <1>5, <1>6

\* What the flip keeps refers to nothing that it frees.
LEMMA FlipStep ==
  ASSUME IndInv, Flip
  PROVE  IndInv'
<1>0. PICK m : m = mStack
  OBVIOUS
<1>1. /\ Exact(gc')
      /\ \A x \in Objs :
              gc'.color[x] = IF x = m THEN "black" ELSE IF x = Process THEN "grey"
                             ELSE IF gc.color[x] = "white" THEN "free"
                             ELSE IF gc.color[x] = "black" /\ MajorFlip THEN "white"
                             ELSE gc.color[x]
  BY <1>0, FlipColors
<1>2. /\ slots' \in [Objs -> SlotSeqs]
      /\ \A x \in Objs : slots'[x] = IF gc.color[x] = "white" THEN <<>> ELSE slots[x]
  BY FlipSlots
<1>3. /\ \A x \in Objs : gc.color[x] \in {"free", "white", "black", "permanent"}
      /\ gc.color[Process] = "black" /\ gc.color[m] = "black"
  BY <1>0, ReadyToFlip
<1>4. \A o \in Objs : gc.color[o] \in {"black", "permanent"} /\ o \notin retired =>
         \A i \in DOMAIN slots[o] : slots[o][i] # Nil =>
            slots[o][i] \in Objs /\ gc.color[slots[o][i]] \in {"black", "permanent"}
  BY ReadyToFlip
<1>5. /\ finalized' = finalized \cup Finalized
      /\ frames' = {f \in frames : gc.color[f] # "white"}
      /\ retired' = {s \in retired : gc.color[s] # "white"}
      /\ mFlips' = (mFlips + 1) % FlipPeriod
      /\ collect' = [running |-> FALSE, more |-> FALSE, stackScanned |-> FALSE]
      /\ UNCHANGED <<mStack, frame, partial, delay, program>> /\ collect.running
  BY DEF Flip, NotCollecting, Color
<1>6. m \in Objs /\ Process \in Objs /\ m # Process /\ m \notin retired /\ m \in Stacks
      /\ \A x \in Threads \cup Cells \cup FinCells : x # m /\ x # Process /\ x \in Objs
  BY <1>0, StackFacts, Disjoint DEF IndInv, Types
<1>7. \A x \in Objs : gc'.color[x] # "free" <=> gc.color[x] \in {"black", "permanent"}
  BY <1>1, <1>3
<1>8. \A x \in Objs : gc'.color[x] # "free" => slots'[x] = slots[x]
  BY <1>2, <1>7
<1>9. \A x \in Objs : x \notin retired' /\ gc'.color[x] # "free" => x \notin retired
  BY <1>5, <1>7
<1>10. \A o \in Objs : gc'.color[o] # "free" /\ o \notin retired' =>
         \A i \in DOMAIN slots[o] : slots[o][i] # Nil =>
            slots[o][i] \in Objs /\ gc'.color[slots[o][i]] # "free"
  BY <1>4, <1>7, <1>9
<1>11. Types'
  <2>1. finalized' \subseteq Cells
    BY <1>5, FinalizedDie DEF IndInv, Types
  <2>2. frames' \subseteq Cells /\ frame' \in frames' \cup {Nil}
    BY <1>3, <1>5, ReadyToFlip DEF IndInv, Types
  <2>3. mFlips' \in 0..(FlipPeriod - 1)
    BY <1>5, GCAssumption DEF IndInv, Types
  <2>4. collect' \in [running : BOOLEAN, more : BOOLEAN, stackScanned : BOOLEAN]
    BY <1>5
  <2>5. retired' \subseteq Stacks
    BY <1>5 DEF IndInv, Types
  <2> QED
    BY <1>2, <1>5, <2>1, <2>2, <2>3, <2>4, <2>5 DEF IndInv, Types
<1>12. ASSUME NEW o \in Objs
       PROVE  Sound(o)'
  <2>1. LiveRefs(o)'
    BY <1>8, <1>10 DEF LiveRefs, Live, Color
  <2>2. FrozenRefs(o)'
    <3>1. ASSUME gc'.color[o] = "permanent", NEW i \in DOMAIN slots[o], slots[o][i] # Nil
          PROVE  gc'.color[slots[o][i]] = "permanent"
      <4>1. gc.color[o] = "permanent" /\ slots[o][i] \in Objs
        BY <1>1, <1>3, <3>1 DEF IndInv, Types, SlotSeqs
      <4>2. gc.color[slots[o][i]] = "permanent"
        BY <3>1, <4>1 DEF IndInv, Sound, FrozenRefs, Color
      <4> QED
        BY <1>1, <1>3, <4>1, <4>2
    <3> QED
      BY <1>8, <3>1 DEF FrozenRefs, Color
  <2>3. ShadedRefs(o)'
    <3>1. ASSUME gc'.color[o] = "black", o \notin {m} \cup retired', NEW i \in DOMAIN slots[o], slots[o][i] # Nil
          PROVE  gc'.color[slots[o][i]] # "white"
      <4>1. gc.color[o] = "black" /\ ~MajorFlip /\ o \notin retired
        BY <1>1, <1>3, <1>9, <3>1
      <4>2. slots[o][i] \in Objs /\ gc.color[slots[o][i]] \in {"black", "permanent"}
        BY <1>4, <3>1, <4>1
      <4> QED
        BY <1>1, <4>1, <4>2
    <3>2. ScannedSlots(o)' \subseteq DOMAIN slots'[o]
      BY DEF ScannedSlots
    <3> QED
      BY <1>0, <1>5, <1>8, <3>1, <3>2 DEF ShadedRefs, Color
  <2> QED
    BY <2>1, <2>2, <2>3 DEF Sound
<1>13. RootsKept'
  <2>1. gc'.color[Process] = "grey" /\ gc'.color[m] = "black" /\ slots'[Process] = slots[Process]
    BY <1>1, <1>3, <1>6, <1>8
  <2> QED
    BY <1>0, <1>5, <1>6, <2>1 DEF IndInv, RootsKept, Color
<1>14. \A x \in frames : x \in Cells /\ x \in Objs /\ (gc.color[x] \in {"black", "permanent"} => x \in frames')
  BY <1>5, <1>6 DEF IndInv, Types
<1>15. ASSUME NEW t \in Threads, gc'.color[t] # "free"
       PROVE  /\ slots'[t] = slots[t] /\ Live(t) /\ gc'.color[t] # "permanent" /\ Len(slots[t]) = 2
              /\ slots[t][1] \in (Stacks \ ({m} \cup retired')) \cup {Nil}
              /\ slots[t][2] \in frames' \cup {Nil}
  <2>1. slots'[t] = slots[t] /\ gc.color[t] \in {"black", "permanent"} /\ Live(t)
    BY <1>6, <1>7, <1>8, <1>15 DEF Live, Color
  <2>2. /\ Color(t) # "permanent" /\ Len(slots[t]) = 2 /\ DOMAIN slots[t] = 1..2
        /\ slots[t][1] \in (Stacks \ ({m} \cup retired)) \cup {Nil}
        /\ slots[t][2] \in frames \cup {Nil} /\ t \notin retired
    BY <1>0, <2>1, ThreadFacts DEF IndInv, ThreadsShaped
  <2>3. slots[t][2] # Nil => gc.color[slots[t][2]] \in {"black", "permanent"}
    BY <1>4, <1>6, <2>1, <2>2
  <2>4. gc'.color[t] # "permanent"
    BY <1>1, <1>6, <2>2 DEF Color
  <2> QED
    BY <1>5, <1>14, <2>1, <2>2, <2>3, <2>4
<1>16. ThreadsShaped'
  <2>1. \A t \in Threads : Live(t)' =>
            /\ Color(t)' # "permanent" /\ Len(slots'[t]) = 2
            /\ slots'[t][1] \in (Stacks \ ({mStack'} \cup retired')) \cup {Nil}
            /\ slots'[t][2] \in frames' \cup {Nil}
    BY <1>0, <1>5, <1>15 DEF Live, Color
  <2> QED
    BY <2>1 DEF ThreadsShaped
<1>17. StacksUnshared'
  <2>1. \A t, u \in Threads :
          Live(t)' /\ Live(u)' /\ t # u => slots'[t][1] = Nil \/ slots'[t][1] # slots'[u][1]
    BY <1>15 DEF IndInv, StacksUnshared, Live, Color
  <2>2. \A o \in Objs \ Threads : \A i \in DOMAIN slots'[o] : slots'[o][i] \notin Stacks
    <3>1. \A i \in DOMAIN <<>> : FALSE
      OBVIOUS
    <3> QED
      BY <1>2, <3>1 DEF IndInv, StacksUnshared
  <2>3. \A s \in retired' : Live(s)'
    <3>1. \A s \in retired' : s \in Objs /\ gc.color[s] \in {"black", "permanent"}
      BY <1>3, <1>5, Disjoint DEF IndInv, StacksUnshared, Types, Live, Color
    <3> QED
      BY <1>7, <3>1 DEF Live, Color
  <2> QED
    BY <2>1, <2>2, <2>3 DEF StacksUnshared
<1>18. FramesShaped'
  <2> SUFFICES ASSUME NEW f \in frames'
               PROVE  /\ gc'.color[f] # "free" /\ gc'.color[f] # "permanent"
                      /\ Len(slots'[f]) = 2 /\ slots'[f][1] \in frames' \cup {Nil}
    BY DEF FramesShaped, Live, Color
  <2>1. f \in frames /\ f \in Cells /\ f \in Objs /\ gc.color[f] = "black"
        /\ Len(slots[f]) = 2 /\ slots[f][1] \in frames \cup {Nil} /\ Live(f)
    BY <1>3, <1>5, <1>14 DEF IndInv, FramesShaped, Live, Color
  <2>2. 1 \in DOMAIN slots[f] /\ f \notin retired
    <3>1. slots[f] \in Seq(Objs \cup {Nil}) /\ f \notin retired
      BY <2>1, CellFacts
    <3> QED
      BY <2>1, <3>1
  <2>3. slots[f][1] # Nil => gc.color[slots[f][1]] \in {"black", "permanent"}
    BY <1>4, <2>1, <2>2
  <2>4. gc'.color[f] # "free" /\ gc'.color[f] # "permanent" /\ slots'[f] = slots[f]
    BY <1>1, <1>6, <1>7, <1>8, <2>1
  <2> QED
    BY <1>14, <2>1, <2>3, <2>4
<1>19. TempsHeld'
  BY <1>5 DEF IndInv, TempsHeld
<1>20. FinalizersLinked'
  <2> SUFFICES ASSUME NEW f \in FinCells, gc'.color[f] # "free"
               PROVE  FinalizerOf(f)'
    BY DEF FinalizersLinked, Live, Color
  <2>1. f \in Objs /\ gc.color[f] \in {"black", "permanent"} /\ slots'[f] = slots[f]
    BY <1>6, <1>7, <1>8
  <2>2. FinalizerOf(f)
    BY <2>1 DEF IndInv, FinalizersLinked, Live, Color
  <2>3. PICK o \in Cells \ frames : /\ slots[f] = <<Nil, o>> /\ Live(o)
                                   /\ 2 \in DOMAIN slots[o] /\ slots[o][2] = f
    BY <2>2 DEF FinalizerOf
  <2>4. 2 \in DOMAIN slots[f] /\ slots[f][2] = o /\ o # Nil /\ f \notin retired
    BY <2>3, Disjoint DEF IndInv, Types
  <2>5. o \in Objs /\ gc.color[o] \in {"black", "permanent"}
    BY <1>4, <2>1, <2>4
  <2>6. slots'[o] = slots[o] /\ gc'.color[o] # "free"
    BY <1>7, <1>8, <2>5
  <2>7. o \in Cells \ frames'
    BY <1>5, <2>3
  <2> QED
    BY <2>1, <2>3, <2>6, <2>7 DEF FinalizerOf, Live, Color
<1>21. FinalizedFree'
  <2>1. \A x \in Finalized : gc'.color[x] = "free"
    BY <1>1, <1>6, FinalizedDie
  <2>2. \A x \in finalized : gc'.color[x] = "free"
    BY <1>1, <1>6 DEF IndInv, FinalizedFree, Types, Live, Color
  <2> QED
    BY <1>5, <2>1, <2>2 DEF FinalizedFree, Live, Color
<1>22. RootsScanned'
  BY <1>5 DEF RootsScanned
<1> QED
  BY <1>1, <1>11, <1>12, <1>13, <1>16, <1>17, <1>18, <1>19, <1>20, <1>21, <1>22 DEF IndInv

-----------------------------------------------------------------------------
(* The initial states.                                                     *)

\* The colours at the start.
LEMMA InitColors ==
  ASSUME Init
  PROVE  /\ Exact(gc)
         /\ \A o \in Objs :
              gc.color[o] = IF o = Process THEN "grey" ELSE IF o = StackOf[Main] THEN "black"
                            ELSE IF o \in {Main} \cup Created \cup {StackOf[t] : t \in Created}
                            THEN "white" ELSE "free"
<1> DEFINE c == [o \in Objs |->
                CASE o = Process -> "grey"
                  [] o = StackOf[Main] -> "black"
                  [] o = Main -> "white"
                  [] o \in Created \cup {StackOf[t] : t \in Created} -> "white"
                  [] OTHER -> "free"]
<1>0. Created \subseteq Routines
  BY DEF Created
<1>1. gc = [color |-> c, numGrey |-> 1]
  BY DEF Init
<1>2. /\ Main \in Threads /\ Created \subseteq Threads /\ \A t \in Threads : StackOf[t] \in Stacks
      /\ StackOf[Main] \notin {StackOf[t] : t \in Created}
  <2>1. Main \in Threads /\ Created \subseteq Threads /\ \A t \in Threads : StackOf[t] \in Stacks
    BY <1>0, GCAssumption DEF Threads
  <2>2. ASSUME NEW t \in Created PROVE StackOf[Main] # StackOf[t]
    BY <1>0, <2>1, GCAssumption, ObjectsAssumption DEF IsInjective
  <2> QED
    BY <2>1, <2>2
<1>3. /\ Process \notin Threads /\ \A t \in Threads : t # StackOf[Main]
      /\ \A t \in Threads : StackOf[t] # Process
  BY <1>2, Disjoint
<1>4. \A o \in Objs : c[o] = IF o = Process THEN "grey" ELSE IF o = StackOf[Main] THEN "black"
                             ELSE IF o \in {Main} \cup Created \cup {StackOf[t] : t \in Created}
                             THEN "white" ELSE "free"
  <2> SUFFICES ASSUME NEW o \in Objs
               PROVE  c[o] = IF o = Process THEN "grey" ELSE IF o = StackOf[Main] THEN "black"
                             ELSE IF o \in {Main} \cup Created \cup {StackOf[t] : t \in Created}
                             THEN "white" ELSE "free"
    OBVIOUS
  <2>1. CASE o = Process
    BY <1>2, <1>3, <2>1
  <2>2. CASE o = StackOf[Main]
    BY <1>2, <1>3, <2>2
  <2>3. CASE o = Main
    BY <1>2, <1>3, <2>3
  <2>4. CASE o \notin {Process, StackOf[Main], Main}
    BY <2>4
  <2> QED
    BY <2>1, <2>2, <2>3, <2>4
<1>5. c \in [Objs -> Colors]
  <2>1. \A o \in Objs : c[o] \in Colors
    BY <1>4 DEF Colors
  <2>2. c = [o \in Objs |-> c[o]]
    OBVIOUS
  <2> HIDE DEF c
  <2> QED
    BY <2>1, <2>2
<1> HIDE DEF c
<1>6. gc \in Heaps /\ gc.color = c /\ gc.numGrey = 1
  BY <1>1, <1>5 DEF Heaps
<1>7. Greys(gc) = {Process}
  <2>1. \A o \in Objs : gc.color[o] = "grey" <=> o = Process
    BY <1>4, <1>6
  <2> QED
    BY <2>1, Disjoint DEF Greys
<1>8. Cardinality({Process}) = 1
  BY FS_Singleton
<1> QED
  BY <1>4, <1>6, <1>7, <1>8 DEF Exact

\* The slots at the start.
LEMMA InitSlots ==
  ASSUME Init
  PROVE  /\ slots \in [Objs -> SlotSeqs]
         /\ \E r \in Created \cup {Nil} : slots[Process] = <<Main, Main, r>>
         /\ \A t \in Created : slots[t] = <<StackOf[t], Nil>>
         /\ slots[Main] = <<Nil, Nil>>
         /\ \A o \in Objs \ ({Process, Main} \cup Created) : slots[o] = <<>>
<1> DEFINE r == IF Created = {} THEN Nil ELSE CHOOSE t \in Created : TRUE
           P == <<Main, Main, r>>
<1>1. r \in Created \cup {Nil} /\ Created \subseteq Routines
  BY DEF Created
<1> HIDE DEF r
<1>2. /\ Main \in Threads /\ Created \subseteq Threads /\ Main \notin Created
      /\ Process \notin Threads /\ Threads \subseteq Objs /\ Process \in Objs
      /\ \A t \in Threads : StackOf[t] \in Objs
  BY <1>1, Disjoint, GCAssumption, ObjectsAssumption DEF Threads
<1>3. slots = [o \in Objs |-> CASE o = Process -> P
                                [] o \in Created -> <<StackOf[o], Nil>>
                                [] o = Main -> <<Nil, Nil>>
                                [] OTHER -> <<>>]
  BY DEF Init, r
<1>4. P \in SlotSeqs /\ <<Nil, Nil>> \in SlotSeqs /\ <<>> \in SlotSeqs
      /\ \A t \in Created : <<StackOf[t], Nil>> \in SlotSeqs
  BY <1>1, <1>2 DEF SlotSeqs
<1> HIDE DEF P
<1>5. slots[Process] = P
  BY <1>2, <1>3
<1>6. ASSUME NEW t \in Created PROVE slots[t] = <<StackOf[t], Nil>>
  <2>1. t \in Objs /\ t # Process /\ t # Main
    BY <1>2
  <2> QED
    BY <1>3, <2>1
<1>7. slots[Main] = <<Nil, Nil>>
  BY <1>2, <1>3
<1>8. ASSUME NEW o \in Objs \ ({Process, Main} \cup Created) PROVE slots[o] = <<>>
  BY <1>3
<1>9. slots \in [Objs -> SlotSeqs]
  <2>1. \A o \in Objs : slots[o] \in SlotSeqs
    BY <1>4, <1>5, <1>6, <1>7, <1>8
  <2>2. slots = [o \in Objs |-> slots[o]]
    BY <1>3
  <2> QED
    BY <2>1, <2>2
<1> QED
  BY <1>1, <1>5, <1>6, <1>7, <1>8, <1>9 DEF P

\* The invariant holds at the start.
LEMMA InitIndInv == Init => IndInv
<1> SUFFICES ASSUME Init
             PROVE  IndInv
  OBVIOUS
<1>1. /\ Exact(gc)
      /\ \A o \in Objs :
           gc.color[o] = IF o = Process THEN "grey" ELSE IF o = StackOf[Main] THEN "black"
                         ELSE IF o \in {Main} \cup Created \cup {StackOf[t] : t \in Created}
                         THEN "white" ELSE "free"
  BY InitColors
<1>2. /\ slots \in [Objs -> SlotSeqs]
      /\ \A t \in Created : slots[t] = <<StackOf[t], Nil>>
      /\ slots[Main] = <<Nil, Nil>>
      /\ \A o \in Objs \ ({Process, Main} \cup Created) : slots[o] = <<>>
  BY InitSlots
<1>3. PICK r \in Created \cup {Nil} : slots[Process] = <<Main, Main, r>>
  BY InitSlots
<1>4. /\ Main \in Threads /\ Created \subseteq Threads /\ Main \notin Created
      /\ Process \notin Threads /\ Threads \subseteq Objs /\ Process \in Objs
      /\ \A t \in Threads : StackOf[t] \in Objs /\ StackOf[t] \in Stacks /\ StackOf[t] # Process
      /\ \A t, u \in Threads : StackOf[t] = StackOf[u] => t = u
      /\ Threads \cap Stacks = {}
  <2>1. Created \subseteq Routines
    BY DEF Created
  <2> QED
    BY <2>1, Disjoint, GCAssumption, ObjectsAssumption DEF Threads, IsInjective
<1>5. /\ mStack = StackOf[Main] /\ frame = Nil /\ frames = {} /\ partial = [obj |-> Nil, slot |-> 0]
      /\ mFlips = 0 /\ collect = [running |-> FALSE, more |-> FALSE, stackScanned |-> FALSE]
      /\ delay = [on |-> FALSE, attempted |-> FALSE, temps |-> {}]
      /\ finalized = {} /\ retired = {} /\ program \in Programs
  BY DEF Init, NoPartial, NotCollecting, NotDelayed
<1>6. Types
  <2>1. partial \in [obj : Objs \cup {Nil}, slot : Nat]
    BY <1>5
  <2>2. collect \in [running : BOOLEAN, more : BOOLEAN, stackScanned : BOOLEAN]
    BY <1>5
  <2>3. delay \in [on : BOOLEAN, attempted : BOOLEAN, temps : SUBSET Cells]
    BY <1>5
  <2>4. mFlips \in 0..(FlipPeriod - 1)
    BY <1>5, GCAssumption
  <2>5. mStack \in Stacks
    BY <1>4, <1>5
  <2> QED
    BY <1>2, <1>5, <2>1, <2>2, <2>3, <2>4, <2>5 DEF Types
<1>7. gc.color[Process] = "grey" /\ gc.color[mStack] = "black" /\ gc.color[Main] = "white"
  BY <1>1, <1>4, <1>5
<1>8. ASSUME NEW t \in Created
      PROVE  gc.color[t] = "white" /\ gc.color[StackOf[t]] = "white"
  <2>1. t # Process /\ t # StackOf[Main] /\ t \in Objs
    BY <1>4
  <2>2. StackOf[t] \in Objs /\ StackOf[t] # Process /\ StackOf[t] # StackOf[Main]
    BY <1>4
  <2> QED
    BY <1>1, <2>1, <2>2
<1>9. /\ DOMAIN slots[Process] = 1..3 /\ Len(slots[Process]) = 3
      /\ slots[Process][1] = Main /\ slots[Process][2] = Main /\ slots[Process][3] = r
  BY <1>3
<1>10. ASSUME NEW t \in Created
       PROVE  DOMAIN slots[t] = 1..2 /\ Len(slots[t]) = 2 /\ slots[t][1] = StackOf[t] /\ slots[t][2] = Nil
  <2>1. slots[t] = <<StackOf[t], Nil>>
    BY <1>2
  <2> QED
    BY ONLY <2>1
<1>11. DOMAIN slots[Main] = 1..2 /\ Len(slots[Main]) = 2 /\ slots[Main][1] = Nil /\ slots[Main][2] = Nil
  BY <1>2
<1>12. ASSUME NEW o \in Objs
       PROVE  Sound(o)
  <2>1. LiveRefs(o)
    <3>1. CASE o = Process
      BY <1>7, <1>8, <1>9, <3>1 DEF LiveRefs, Live, Color
    <3>2. CASE o \in Created
      BY <1>8, <1>10, <3>2 DEF LiveRefs, Live, Color
    <3>3. CASE o = Main
      BY <1>11, <3>3 DEF LiveRefs
    <3>4. CASE o \notin {Process, Main} \cup Created
      <4>1. DOMAIN slots[o] = {}
        BY <1>2, <3>4
      <4> QED
        BY <4>1 DEF LiveRefs
    <3> QED
      BY <3>1, <3>2, <3>3, <3>4
  <2>2. Color(o) = "black" => o = mStack
    BY <1>1, <1>5 DEF Color
  <2>3. Color(o) # "permanent"
    BY <1>1 DEF Color
  <2> QED
    BY <2>1, <2>2, <2>3 DEF Sound, ShadedRefs, FrozenRefs
<1>13. RootsKept
  BY <1>4, <1>5, <1>7, <1>9 DEF RootsKept, Color
<1>14. ASSUME NEW t \in Threads, Live(t)
       PROVE  t \in {Main} \cup Created
  <2>1. t \in Objs /\ t # Process /\ t # StackOf[Main] /\ t \notin {StackOf[u] : u \in Created}
    BY <1>4
  <2> QED
    BY <1>1, <1>14, <2>1 DEF Live, Color
<1>15. ThreadsShaped
  <2> SUFFICES ASSUME NEW t \in Threads, Live(t)
               PROVE  /\ Color(t) # "permanent" /\ Len(slots[t]) = 2
                      /\ slots[t][1] \in (Stacks \ ({mStack} \cup retired)) \cup {Nil}
                      /\ slots[t][2] \in frames \cup {Nil}
    BY DEF ThreadsShaped
  <2>1. CASE t = Main
    BY <1>7, <1>11, <2>1 DEF Color
  <2>2. CASE t \in Created
    <3>1. StackOf[t] \in Stacks \ ({mStack} \cup retired)
      BY <1>4, <1>5, <2>2
    <3> QED
      BY <1>8, <1>10, <2>2, <3>1 DEF Color
  <2> QED
    BY <1>14, <2>1, <2>2
<1>16. StacksUnshared
  <2>1. ASSUME NEW t \in Threads, NEW u \in Threads, Live(t), Live(u), t # u
        PROVE  slots[t][1] = Nil \/ slots[t][1] # slots[u][1]
    <3>1. CASE t = Main
      BY <1>11, <3>1
    <3>2. CASE t \in Created /\ u = Main
      <4>1. slots[t][1] \in Stacks /\ slots[u][1] = Nil
        BY <1>4, <1>10, <1>11, <3>2
      <4> QED
        BY <4>1, Disjoint
    <3>3. CASE t \in Created /\ u \in Created
      BY <1>4, <1>10, <2>1, <3>3
    <3> QED
      BY <1>14, <2>1, <3>1, <3>2, <3>3
  <2>2. ASSUME NEW o \in Objs \ Threads, NEW i \in DOMAIN slots[o]
        PROVE  slots[o][i] \notin Stacks
    <3>1. o = Process
      <4>1. o # Process => slots[o] = <<>>
        BY <1>2, <1>4
      <4> QED
        BY <2>2, <4>1
    <3> QED
      BY <1>4, <1>9, <2>2, <3>1, Disjoint
  <2> QED
    BY <1>5, <2>1, <2>2 DEF StacksUnshared
<1>17. FramesShaped /\ TempsHeld /\ FinalizedFree /\ RootsScanned
  BY <1>5 DEF FramesShaped, TempsHeld, FinalizedFree, RootsScanned
<1>18. FinalizersLinked
  <2>1. ASSUME NEW f \in FinCells PROVE ~Live(f)
    <3>1. f \in Objs /\ f \notin Threads /\ f \notin Stacks /\ f # Process
      BY Disjoint
    <3>2. f \notin {StackOf[t] : t \in Created} /\ f # StackOf[Main] /\ f \notin {Main} \cup Created
      BY <1>4, <3>1
    <3> QED
      BY <1>1, <3>1, <3>2 DEF Live, Color
  <2> QED
    BY <2>1 DEF FinalizersLinked
<1> QED
  BY <1>1, <1>6, <1>12, <1>13, <1>15, <1>16, <1>17, <1>18 DEF IndInv

-----------------------------------------------------------------------------
(* The theorems.                                                           *)

\* Every step of the collector preserves it.
LEMMA CollectorSafe ==
  ASSUME IndInv, Collector
  PROVE  IndInv'
<1>1. CASE CollectBegin \/ CollectEnd
  BY <1>1, BoundarySteps
<1>2. ASSUME NEW o \in Objs, ScanOneObj(o) \/ \E n \in 1..MaxSlots : ScanOneObjPartly(o, n)
      PROVE  IndInv'
  BY <1>2, ScanOneObjStep, ScanOneObjPartlyStep
<1>3. CASE \E o \in {x \in Objs : Color(x) = "grey"} :
               ScanOneObj(o) \/ \E n \in 1..MaxSlots : ScanOneObjPartly(o, n)
  BY <1>2, <1>3
<1>4. CASE DoPartialScanRest \/ \E n \in 1..MaxSlots : DoPartialScanMore(n)
  BY <1>4, PartialScanSteps
<1>5. CASE CollectRoots
  BY <1>5, CollectRootsStep
<1>6. CASE Flip
  BY <1>6, FlipStep
<1> QED
  BY <1>1, <1>3, <1>4, <1>5, <1>6 DEF Collector

\* Every step of the program preserves it.
LEMMA ProgramSafe ==
  ASSUME IndInv, Program
  PROVE  IndInv'
<1>1. CASE \E c \in Cells : New(c, IF "finalizer" \in program.ops THEN 2 ELSE 0)
  BY <1>1, NewStep
<1>2. CASE \/ Pop \/ PushTempVar
           \/ \E o \in OnStack \cup {Process} : \E i \in DOMAIN slots[o] : PushSlot(o, i)
           \/ \E t \in Threads : PushThread(t)
  BY <1>2, StackSteps
<1>3. CASE \E v \in OnStack \cup {Nil} : StoreClassVar(v) \/ StoreTempVar(v)
  BY <1>3, SlotSteps
<1>4. ASSUME NEW o \in OnStack, NEW i \in 1..MaxSlots, NEW v \in OnStack \cup {Nil},
             PutSlot(o, i, v) \/ ArrayInsert(o, i, v)
      PROVE  IndInv'
  <2>1. CASE PutSlot(o, i, v)
    BY <2>1, SlotSteps
  <2>2. CASE ArrayInsert(o, i, v)
    BY <2>2, ArrayInsertStep
  <2> QED
    BY <1>4, <2>1, <2>2
<1>5. CASE \E o \in OnStack, v \in OnStack \cup {Nil} : ArrayAdd(o, v)
  BY <1>5, ArrayAddStep
<1>6. CASE \E o \in OnStack, i, j \in 1..MaxSlots : i < j /\ ArraySwap(o, i, j)
  BY <1>6, ArraySwapStep
<1>7. CASE \E o \in OnStack, i \in 1..MaxSlots : ArrayTakeAt(o, i)
  BY <1>7, ArrayTakeAtStep
<1>8. CASE \E c \in Cells : Call(c) \/ PushClosure(c) \/ NewTemp(c)
  BY <1>8, CallStep, PushClosureStep, NewTempStep
<1>9. CASE \E keep \in BOOLEAN : Return(keep)
  BY <1>9, ReturnStep
<1>10. CASE \E t \in Threads, done \in BOOLEAN : SwitchToThread(t, done)
  BY <1>10, SwitchToThreadStep
<1>11. CASE \E s \in SpareStacks : ReallocStack(s)
  BY <1>11, ReallocStackStep
<1>12. CASE EnterPrimitive
  BY <1>12, BoundarySteps
<1>13. CASE \E o \in delay.temps \cup OnStack, v \in delay.temps \cup OnStack : PrimitiveStore(o, v)
  BY <1>13, PrimitiveStoreStep
<1>14. CASE \E v \in delay.temps \cup OnStack : ExitPrimitive(v)
  BY <1>14, ExitPrimitiveStep
<1>15. CASE \E o \in OnStack, f \in FinCells : InstallFinalizer(o, f)
  BY <1>15, InstallFinalizerStep
<1>16. CASE \E o \in OnStack : DeepFreeze(o)
  BY <1>16, DeepFreezeStep
<1>17. CASE \E o \in OnStack, i \in 1..MaxSlots, v \in OnStack \cup {Nil} :
               PutSlot(o, i, v) \/ ArrayInsert(o, i, v)
  BY <1>4, <1>17
<1> QED
  BY <1>1, <1>2, <1>3, <1>5, <1>6, <1>7, <1>8, <1>9, <1>10, <1>11, <1>12, <1>13, <1>14, <1>15,
     <1>16, <1>17 DEF Program

\* The invariant is inductive.
LEMMA NextIndInv == IndInv /\ [Next]_vars => IndInv'
<1> SUFFICES ASSUME IndInv, [Next]_vars
             PROVE  IndInv'
  OBVIOUS
<1>1. CASE Collector
  BY <1>1, CollectorSafe
<1>2. CASE Program
  BY <1>2, ProgramSafe
<1>3. CASE RemoveAtSettled
  BY <1>3, ArrayRemoveAtStep DEF RemoveAtSettled
<1>4. CASE UNCHANGED vars
  <2>1. UNCHANGED <<gc, slots, mStack, frame, frames, partial, mFlips, finalized, retired, program>>
        /\ collect' = collect /\ delay' = delay
    BY <1>4 DEF vars
  <2>2. collect' \in [running : BOOLEAN, more : BOOLEAN, stackScanned : BOOLEAN]
        /\ delay' \in [on : BOOLEAN, attempted : BOOLEAN, temps : SUBSET Cells]
    BY <2>1 DEF IndInv, Types
  <2>3. TempsHeld'
    BY <2>1 DEF IndInv, TempsHeld, Live, Color
  <2>4. RootsScanned'
    BY <2>1 DEF IndInv, RootsScanned, Color
  <2> QED
    BY <2>1, <2>2, <2>3, <2>4, HeapKept
<1> QED
  BY <1>1, <1>2, <1>3, <1>4 DEF Next

\* Every behaviour satisfies the inductive invariant.
THEOREM Inductive == Spec => []IndInv
  BY InitIndInv, NextIndInv, PTL DEF Spec

\* The collector can trust the colours: the count of grey objects is exact, no
\* black object refers to a white one through a scanned slot, and frozen
\* objects refer to frozen ones, whatever the program does between the steps of
\* a collection and within its primitives.
THEOREM ColorsTrusted == Spec => []ColorsSound
<1>1. IndInv => ColorsSound
  <2> SUFFICES ASSUME IndInv
               PROVE  ColorsSound
    OBVIOUS
  <2>1. GreyCountExact
    BY DEF IndInv, Exact, Greys, GreyCountExact, Color
  <2>2. NoBlackToWhite
    BY DEF IndInv, Sound, ShadedRefs, NoBlackToWhite
  <2>3. PermanentClosed
    BY DEF IndInv, Sound, FrozenRefs, PermanentClosed, Refs, Range
  <2> QED
    BY <2>1, <2>2, <2>3 DEF ColorsSound
<1> QED
  BY <1>1, Inductive, PTL

\* Flip frees nothing that an object in use, the stack, the frame register or a
\* primitive still refers to.
THEOREM NothingLost == Spec => []NoDangling
<1>1. IndInv => NoDangling
  <2> SUFFICES ASSUME IndInv
               PROVE  NoDangling
    OBVIOUS
  <2>1. \A o \in Objs \ retired : Live(o) => \A x \in Refs(o) : Live(x)
    BY DEF IndInv, Sound, LiveRefs, Refs, Range
  <2>2. Live(Process) /\ Live(mStack)
    BY StackFacts DEF IndInv, RootsKept, Live
  <2>3. frame # Nil => Live(frame)
    BY DEF IndInv, Types, FramesShaped
  <2>4. \A x \in delay.temps : Live(x)
    BY DEF IndInv, TempsHeld
  <2> QED
    BY <2>1, <2>2, <2>3, <2>4 DEF NoDangling
<1> QED
  BY <1>1, Inductive, PTL

\* A finalizer runs only for an object that the program can no longer reach:
\* the objects that are not free, less the stacks that were replaced, hold all
\* that is reached from the roots.
THEOREM FinalizedLate == Spec => []FinalizedUnreachable
<1>1. IndInv => FinalizedUnreachable
  <2> SUFFICES ASSUME IndInv
               PROVE  Unreachable(finalized)
    BY DEF FinalizedUnreachable
  <2> DEFINE L == {x \in Objs : Live(x) /\ x \notin retired}
             T == L \ Roots
  <2>1. Roots \subseteq L
    <3>1. Process \in L
      BY Disjoint DEF IndInv, RootsKept, Live, Types
    <3>2. mStack \in L
      BY StackFacts
    <3>3. \A x \in Cells : Live(x) => x \in L
      BY CellFacts
    <3>4. frame # Nil => frame \in Cells /\ Live(frame)
      BY DEF IndInv, Types, FramesShaped
    <3>5. \A x \in delay.temps : x \in Cells /\ Live(x)
      BY DEF IndInv, Types, TempsHeld
    <3> HIDE DEF L
    <3> QED
      BY <3>1, <3>2, <3>3, <3>4, <3>5 DEF Roots
  <2>2. \A x \in finalized : x \notin L
    BY DEF IndInv, FinalizedFree
  <2>3. ASSUME NEW x \in L, NEW i \in DOMAIN slots[x], slots[x][i] # Nil
        PROVE  slots[x][i] \in L
    <3>1. slots[x][i] \in Objs /\ Live(slots[x][i])
      BY <2>3 DEF IndInv, Sound, LiveRefs, Types, SlotSeqs
    <3>2. CASE x \in Threads
      <4>1. DOMAIN slots[x] = 1..2 /\ slots[x][1] \notin retired /\ slots[x][2] \in frames \cup {Nil}
        BY <3>2, ThreadFacts, Disjoint DEF IndInv, Types
      <4>2. slots[x][2] \notin retired
        BY <4>1, Disjoint DEF IndInv, Types
      <4> QED
        BY <2>3, <3>1, <4>1, <4>2
    <3>3. CASE x \notin Threads
      BY <2>3, <3>1, <3>3 DEF IndInv, StacksUnshared, Types
    <3> QED
      BY <3>2, <3>3
  <2> HIDE DEF L
  <2>4. Closed(L)
    BY <2>3, ClosedSlots
  <2>5. Roots \cup T = L
    BY <2>1
  <2>6. T \in SUBSET (Objs \ (Roots \cup finalized))
    BY <2>2 DEF L
  <2>7. Roots \cap finalized = {}
    BY <2>1, <2>2
  <2> HIDE DEF T
  <2>8. Closed(Roots \cup T)
    BY <2>4, <2>5
  <2> QED
    BY <2>6, <2>7, <2>8 DEF Unreachable
<1> QED
  BY <1>1, Inductive, PTL

=============================================================================
