----------------------------- MODULE ScopeBuffer -----------------------------
(***************************************************************************)
(* The triple buffer through which a server shows audio to a scope view.   *)
(*                                                                         *)
(* A ScopeOut2 unit of the server's audio thread (the writer) and a        *)
(* QcScopeShm widget of the language process (the reader) share one        *)
(* scope_buffer in shared memory and never lock.  The buffer has three     *)
(* data regions: the writer fills region `in', the reader paints region    *)
(* `out', and one atomic exchange with `stage' hands a region over.        *)
(*                                                                         *)
(* Each access of a variable that both sides touch is one step.  `in' is   *)
(* only touched by the writer and `out' only by the reader, so the         *)
(* exchange and the assignment of its result are one step.  The exchange   *)
(* is taken to be a full barrier, as it is on x86.                         *)
(***************************************************************************)
EXTENDS Integers

CONSTANTS
  Sizes,      \* the maxFrames values a ScopeOut2 unit may ask for
  Periods,    \* the values of the unit's period input
  BlockSize,  \* inNumSamples, the frames of one control period
  MaxPush,    \* bound on the number of pushes
  MaxAlloc    \* bound on the number of allocations

ASSUME ScopeAssumption ==
  /\ Sizes \subseteq Nat
  /\ Periods \subseteq Nat
  /\ BlockSize \in Nat \ {0}
  /\ MaxPush \in Nat
  /\ MaxAlloc \in Nat

VARIABLES
  status,   \* _status
  size,     \* _size
  stage,    \* _stage
  in,       \* _in
  out,      \* _out
  frames,   \* _state[r].frames
  changed,  \* _state[r].changed
  wpc,      \* where the writer is: "none" is no unit, "fill" between pushes
  rpc,      \* where the reader is in updateScope
  loaded,   \* the reader's copy of _stage in pull
  view,     \* _availableFrames and what _data points at: the widget's picture
  serial,   \* history: pushes so far
  allocs,   \* history: allocations so far
  content   \* history: which push filled region r, under which allocation

writerVars == <<status, size, in, frames, wpc, serial, allocs, content>>
readerVars == <<out, rpc, loaded, view>>
vars == <<status, size, stage, in, out, frames, changed, wpc, rpc, loaded,
          view, serial, allocs, content>>

Region == 0..2

\* The region before it was ever pushed.
Blank == [push |-> 0, alloc |-> 0]

Larger(a, b) == IF a < b THEN b ELSE a
Smaller(a, b) == IF a < b THEN a ELSE b

Init ==
  /\ status = "free"
  /\ size = 0
  /\ stage = 0 /\ in = 1 /\ out = 2
  /\ frames = [r \in Region |-> 0]
  /\ changed = [r \in Region |-> FALSE]
  /\ wpc = "none" /\ rpc = "idle"
  /\ loaded = 0
  /\ view = [frames |-> 0, push |-> 0, alloc |-> 0]
  /\ serial = 0 /\ allocs = 0
  /\ content = [r \in Region |-> Blank]

-----------------------------------------------------------------------------
(* The writer: a ScopeOut2 unit's constructor, calculation and destructor. *)

\* ScopeOut2_Ctor of a unit that finds the buffer free.  The regions' frame
\* counts and changed flags are left as the previous unit left them.
Allocate(n) ==
  /\ wpc = "none"
  /\ status = "free"
  /\ allocs < MaxAlloc
  /\ size' = n
  /\ status' = "initialized"
  /\ wpc' = "fill"
  /\ allocs' = allocs + 1
  /\ UNCHANGED <<stage, in, frames, changed, serial, content>>
  /\ UNCHANGED readerVars

\* ScopeOut2_Ctor when the shared pool is exhausted: the size is stored before
\* the memory is asked for, and the buffer stays free.
AllocateFails(n) ==
  /\ wpc = "none"
  /\ status = "free"
  /\ size' = n
  /\ UNCHANGED <<status, stage, in, frames, changed, wpc, serial, allocs, content>>
  /\ UNCHANGED readerVars

\* ScopeOut2_Dtor.  Only the status and the memory go: the indices stay.
Release ==
  /\ wpc = "fill"
  /\ status' = "free"
  /\ wpc' = "none"
  /\ UNCHANGED <<size, stage, in, frames, changed, serial, allocs, content>>
  /\ UNCHANGED readerVars

\* The frames after which ScopeOut2_next pushes: at least one block.
PeriodFrames(p) == Larger(BlockSize, Smaller(size, p))

\* The period is complete: the unit fills region `in' to the end and push
\* stores how many frames it holds.
PushFrames(p) ==
  /\ wpc = "fill"
  /\ serial < MaxPush
  /\ frames' = [frames EXCEPT ![in] = PeriodFrames(p)]
  /\ content' = [content EXCEPT ![in] = [push |-> serial + 1, alloc |-> allocs]]
  /\ wpc' = "flag"
  /\ UNCHANGED <<status, size, stage, in, changed, serial, allocs>>
  /\ UNCHANGED readerVars

\* Mutation: push does not raise the flag.
RaisedNone == changed

Raised == [changed EXCEPT ![in] = TRUE]

PushChanged ==
  /\ wpc = "flag"
  /\ changed' = Raised
  /\ wpc' = "swap"
  /\ UNCHANGED <<status, size, stage, in, frames, serial, allocs, content>>
  /\ UNCHANGED readerVars

\* What the exchange of push returns.
PushedOut == stage

PushExchange ==
  /\ wpc = "swap"
  /\ stage' = in
  /\ in' = PushedOut
  /\ serial' = serial + 1
  /\ wpc' = "fill"
  /\ UNCHANGED <<status, size, frames, changed, allocs, content>>
  /\ UNCHANGED readerVars

Writer ==
  \/ \E n \in Sizes : Allocate(n) \/ AllocateFails(n)
  \/ Release
  \/ \E p \in Periods : PushFrames(p)
  \/ PushChanged
  \/ PushExchange

-----------------------------------------------------------------------------
(* The reader: QcScopeShm::updateScope, on every tick of the view's timer. *)

\* A buffer that is not valid ends the update.
CheckValid ==
  /\ rpc = "idle"
  /\ rpc' = IF status = "initialized" THEN "load" ELSE "idle"
  /\ UNCHANGED <<stage, changed, out, loaded, view>>
  /\ UNCHANGED writerVars

LoadStage ==
  /\ rpc = "load"
  /\ loaded' = stage
  /\ rpc' = "test"
  /\ UNCHANGED <<stage, changed, out, view>>
  /\ UNCHANGED writerVars

\* Mutation: pull exchanges whether the region has changed or not.
AfterTestAlways == "clear"

AfterTest == IF changed[loaded] THEN "clear" ELSE "read"

TestChanged ==
  /\ rpc = "test"
  /\ rpc' = AfterTest
  /\ UNCHANGED <<stage, changed, out, loaded, view>>
  /\ UNCHANGED writerVars

Cleared == [changed EXCEPT ![out] = FALSE]

ClearChanged ==
  /\ rpc = "clear"
  /\ changed' = Cleared
  /\ rpc' = "swap"
  /\ UNCHANGED <<stage, out, loaded, view>>
  /\ UNCHANGED writerVars

\* Mutation: pull takes the region it loaded instead of the one exchanged.
PulledOutLoaded == loaded

\* What the exchange of pull returns.
PulledOut == stage

PullExchange ==
  /\ rpc = "swap"
  /\ stage' = out
  /\ out' = PulledOut
  /\ rpc' = "read"
  /\ UNCHANGED <<changed, loaded, view>>
  /\ UNCHANGED writerVars

\* pull returns the frames of `out'; a zero count leaves the picture alone.
ReadFrames ==
  /\ rpc = "read"
  /\ view' = IF frames[out] # 0
             THEN [frames |-> frames[out], push |-> content[out].push,
                   alloc |-> content[out].alloc]
             ELSE view
  /\ rpc' = "idle"
  /\ UNCHANGED <<stage, changed, out, loaded>>
  /\ UNCHANGED writerVars

Reader == CheckValid \/ LoadStage \/ TestChanged \/ ClearChanged
          \/ PullExchange \/ ReadFrames

Next == Writer \/ Reader

Spec == Init /\ [][Next]_vars

\* The audio thread finishes a push it has begun; the timer keeps polling.
Fairness == WF_vars(PushChanged \/ PushExchange) /\ WF_vars(Reader)

FairSpec == Spec /\ Fairness
-----------------------------------------------------------------------------
(* Properties *)

TypeOK ==
  /\ status \in {"free", "initialized"}
  /\ size \in Sizes \cup {0}
  /\ stage \in Region /\ in \in Region /\ out \in Region /\ loaded \in Region
  /\ frames \in [Region -> Nat]
  /\ changed \in [Region -> BOOLEAN]
  /\ wpc \in {"none", "fill", "flag", "swap"}
  /\ rpc \in {"idle", "load", "test", "clear", "swap", "read"}
  /\ view \in [frames : Nat, push : Nat, alloc : Nat]
  /\ serial \in Nat /\ allocs \in Nat
  /\ content \in [Region -> [push : Nat, alloc : Nat]]

\* The writer's region, the reader's region and the staged one are always
\* three different regions, whatever the interleaving of push and pull: what
\* is painted is never being written.
Disjoint == in # out /\ in # stage /\ out # stage

\* The picture never goes back in time: between two pictures of one scope the
\* push number only grows, although pull tests the changed flag of a region
\* that may have left the stage before the exchange.
NeverBackwards == [][view'.push >= view.push]_vars

\* An exchange of pull always brings a region pushed later than the one it
\* gives up: pull never trades its picture for a stale region.
ExchangeIsFresh ==
  [][PullExchange => content[out'].push > content[out].push]_vars

\* A region pushed by the current unit holds no more frames than the unit
\* allocated or, where that is less, than one block; it holds more than was
\* allocated exactly when the unit asked for less than a block, and then it is
\* written and painted past its end.  Whatever earlier units and failed
\* allocations left in the size and in the regions makes no difference.
FramesFit ==
  \A r \in Region :
    status = "initialized" /\ content[r].alloc = allocs /\ content[r].push # 0
      => /\ frames[r] <= Larger(size, BlockSize)
         /\ frames[r] > size <=> size < BlockSize

\* The reason why pull may test a flag and then exchange without looking again:
\* a flagged region on the stage is newer than the reader's; a region that was
\* on the stage when pull loaded it can only have been replaced by a newer one;
\* and once pull has seen a flag, the stage holds a newer region whatever the
\* writer does.
StageIsFresh ==
  LET Fresh == content[stage].push > content[out].push
  IN /\ changed[stage] => Fresh
     /\ wpc = "swap" => changed[in]
     /\ rpc = "test" => loaded = stage \/ Fresh
     /\ rpc \in {"clear", "swap"} => Fresh
     /\ rpc = "swap" => ~changed[out]
     /\ view.push <= content[out].push

\* Pushes are numbered: a region holds a push that has been exchanged, except
\* the writer's own once the writer has filled it.
PushesNumbered ==
  /\ content[stage].push <= serial
  /\ content[out].push <= serial
  /\ wpc \in {"none", "fill"} => content[in].push <= serial
  /\ wpc \in {"flag", "swap"} => content[in].push = serial + 1

\* So are allocations, and the buffer is allocated while a unit has it.
AllocsNumbered ==
  /\ wpc # "none" <=> status = "initialized"
  /\ \A r \in Region : content[r].alloc <= allocs

\* The inductive invariant: the indices are apart, the stage is fresher than
\* the reader's region whenever pull may exchange, and what this unit pushed
\* has a length that follows from its own allocation.
IndInv ==
  TypeOK /\ Disjoint /\ PushesNumbered /\ StageIsFresh /\ AllocsNumbered /\ FramesFit

\* The last push before the writer pauses is eventually painted, unless the
\* unit goes away or pushes again.
LastPushShown ==
  \A n \in 1..MaxPush :
    (serial = n) ~> (view.push >= n \/ serial > n \/ status = "free")

=============================================================================
