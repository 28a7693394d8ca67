-------------------------- MODULE ScopeBufferProofs --------------------------
(***************************************************************************)
(* Proofs that the triple buffer keeps its regions apart and only moves    *)
(* forward, for every set of sizes and periods and every bound.            *)
(***************************************************************************)
EXTENDS ScopeBuffer, TLAPS

USE DEF Region

LEMMA InitInv == Init => IndInv
BY ScopeAssumption DEF Init, IndInv, TypeOK, Disjoint, PushesNumbered, StageIsFresh,
                      AllocsNumbered, FramesFit, Blank

LEMMA TypeStep == IndInv /\ [Next]_vars => TypeOK'
<1> SUFFICES ASSUME IndInv, [Next]_vars PROVE TypeOK'
  OBVIOUS
<1> USE ScopeAssumption DEF IndInv, TypeOK
<1>1. ASSUME NEW n \in Sizes, Allocate(n) \/ AllocateFails(n) PROVE TypeOK'
  BY <1>1 DEF Allocate, AllocateFails, readerVars
<1>2. CASE Release
  BY <1>2 DEF Release, readerVars
<1>3. ASSUME NEW p \in Periods, PushFrames(p) PROVE TypeOK'
  <2>1. PeriodFrames(p) \in Nat
    BY DEF PeriodFrames, Larger, Smaller
  <2> QED
    BY <1>3, <2>1 DEF PushFrames, readerVars
<1>4. CASE PushChanged
  BY <1>4 DEF PushChanged, Raised, readerVars
<1>5. CASE PushExchange
  BY <1>5 DEF PushExchange, PushedOut, readerVars
<1>6. CASE CheckValid \/ LoadStage \/ TestChanged \/ ClearChanged \/ PullExchange
  BY <1>6 DEF CheckValid, LoadStage, TestChanged, AfterTest, ClearChanged, Cleared,
              PullExchange, PulledOut, writerVars
<1>7. CASE ReadFrames
  BY <1>7 DEF ReadFrames, writerVars
<1>8. CASE UNCHANGED vars
  BY <1>8 DEF vars
<1> QED
  BY <1>1, <1>2, <1>3, <1>4, <1>5, <1>6, <1>7, <1>8 DEF Next, Writer, Reader

LEMMA InvStep == IndInv /\ [Next]_vars => IndInv'
<1> SUFFICES ASSUME IndInv, [Next]_vars PROVE IndInv'
  OBVIOUS
<1>t. TypeOK'
  BY TypeStep
<1> USE <1>t DEF IndInv, TypeOK, Disjoint, PushesNumbered, StageIsFresh, AllocsNumbered,
               FramesFit
<1>1. ASSUME NEW n \in Sizes, Allocate(n) \/ AllocateFails(n) PROVE IndInv'
  BY <1>1 DEF Allocate, AllocateFails, readerVars
<1>2. CASE Release
  BY <1>2 DEF Release, readerVars
<1>3. ASSUME NEW p \in Periods, PushFrames(p) PROVE IndInv'
  <2>1. /\ PeriodFrames(p) \in Nat
        /\ PeriodFrames(p) <= Larger(size, BlockSize)
        /\ PeriodFrames(p) > size <=> size < BlockSize
    BY ScopeAssumption DEF PeriodFrames, Larger, Smaller
  <2> QED
    BY <1>3, <2>1 DEF PushFrames, readerVars
<1>4. CASE PushChanged
  BY <1>4 DEF PushChanged, Raised, readerVars
<1>5. CASE PushExchange
  BY <1>5 DEF PushExchange, PushedOut, readerVars
<1>6. CASE CheckValid \/ LoadStage \/ TestChanged
  BY <1>6 DEF CheckValid, LoadStage, TestChanged, AfterTest, writerVars
<1>7. CASE ClearChanged
  BY <1>7 DEF ClearChanged, Cleared, writerVars
<1>8. CASE PullExchange
  BY <1>8 DEF PullExchange, PulledOut, writerVars
<1>9. CASE ReadFrames
  BY <1>9 DEF ReadFrames, writerVars
<1>10. CASE UNCHANGED vars
  BY <1>10 DEF vars
<1> QED
  BY <1>1, <1>2, <1>3, <1>4, <1>5, <1>6, <1>7, <1>8, <1>9, <1>10
  DEF Next, Writer, Reader

\* The inductive invariant of push and pull holds throughout.
THEOREM Inductive == Spec => []IndInv
BY InitInv, InvStep, PTL DEF Spec

\* Every variable of the buffer keeps its type.
THEOREM TypeCorrect == Spec => []TypeOK
<1>1. IndInv => TypeOK
  BY DEF IndInv
<1> QED
  BY InitInv, InvStep, <1>1, PTL DEF Spec

\* The regions of scope_buffer::push and scope_buffer::pull never coincide.
THEOREM RegionsDisjoint == Spec => []Disjoint
<1>1. IndInv => Disjoint
  BY DEF IndInv
<1> QED
  BY InitInv, InvStep, <1>1, PTL DEF Spec

\* The frame count of ScopeOut2_next is at most the unit's allocation or one
\* block, and leaves the allocation exactly if that is less than a block.
THEOREM FramesBounded == Spec => []FramesFit
<1>1. IndInv => FramesFit
  BY DEF IndInv
<1> QED
  BY InitInv, InvStep, <1>1, PTL DEF Spec

\* Whenever scope_buffer::pull may exchange, the staged region is newer.
THEOREM StageFresh == Spec => []StageIsFresh
<1>1. IndInv => StageIsFresh
  BY DEF IndInv
<1> QED
  BY InitInv, InvStep, <1>1, PTL DEF Spec

\* The exchange of scope_buffer::pull always brings a newer region.
THEOREM ExchangeFresh == Spec => ExchangeIsFresh
<1>1. IndInv => [PullExchange => content[out'].push > content[out].push]_vars
  BY DEF IndInv, StageIsFresh, PullExchange, PulledOut
<1> QED
  BY InitInv, InvStep, <1>1, PTL DEF Spec, ExchangeIsFresh

\* The picture of QcScopeShm::updateScope never goes back in time.
THEOREM PictureForward == Spec => NeverBackwards
<1>1. IndInv /\ [Next]_vars => [view'.push >= view.push]_vars
  <2> SUFFICES ASSUME IndInv, Next PROVE view'.push >= view.push
    BY DEF IndInv, TypeOK, vars
  <2> USE DEF IndInv, TypeOK, StageIsFresh
  <2>1. CASE ReadFrames
    BY <2>1 DEF ReadFrames
  <2>2. CASE ~ReadFrames
    BY <2>2 DEF Next, Writer, Reader, Allocate, AllocateFails, Release, PushFrames,
       PushChanged, PushExchange, CheckValid, LoadStage, TestChanged,
       ClearChanged, PullExchange, readerVars
  <2> QED
    BY <2>1, <2>2
<1> QED
  BY InitInv, InvStep, <1>1, PTL DEF Spec, NeverBackwards

=============================================================================
