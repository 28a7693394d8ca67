-------------------------- MODULE DependencyGraph ----------------------------
(***************************************************************************)
(* supernova's dependency_graph_generator: how the server turns its node   *)
(* tree into the dsp_thread_queue that the DSP threads run.                *)
(*                                                                         *)
(* The tree is kids, the child_nodes of every group.  The generator walks  *)
(* it and makes one queue item per run of consecutive synths of a          *)
(* sequential group and one per synth of a parallel group, gives each item *)
(* the items that follow it as successors, and sets its activation_limit   *)
(* from a second, separate walk: get_previous_activation_count looks       *)
(* backwards for the nodes that should have this item as a successor and   *)
(* counts them with tail_nodes.  Nothing in the code ties the two walks    *)
(* together; DspThreads needs them to agree, item by item.                 *)
(*                                                                         *)
(* An item is named by the first synth of its job.  The state machine      *)
(* grows a tree with /s_new, /g_new and /p_new at the tail of a group (any *)
(* tree can be grown that way), frees nodes with /n_free, and rebuilds the *)
(* queue when it is dirty, as the audio callback does before               *)
(* compute_audio.                                                          *)
(***************************************************************************)
EXTENDS Integers, Sequences, FiniteSets, FiniteSetsExt

CONSTANTS
  Synth,     \* the synths that can be created
  Group,     \* the groups: abstract_group
  Parallel,  \* the parallel groups: is_parallel
  Root       \* the root group, node 0

ASSUME TreeAssumption ==
  /\ Root \in Group
  /\ Parallel \subseteq Group \ {Root}
  /\ Synth \cap Group = {}
  /\ IsFiniteSet(Synth) /\ IsFiniteSet(Group)

VARIABLES
  kids,   \* child_nodes of each group, the groups not created yet included
  queue,  \* the installed dsp_thread_queue
  dirty   \* dsp_queue_dirty

vars == <<kids, queue, dirty>>

IsSynth(n) == n \in Synth
-----------------------------------------------------------------------------
(* What the tree is asked. *)

\* has_synth_children
RECURSIVE HasSynthChildren(_)
HasSynthChildren(g) ==
  \E i \in DOMAIN kids[g] :
     IsSynth(kids[g][i]) \/ HasSynthChildren(kids[g][i])

\* has_parallel_group_children
RECURSIVE HasParallel(_)
HasParallel(g) ==
  \/ g \in Parallel
  \/ \E i \in DOMAIN kids[g] : ~IsSynth(kids[g][i]) /\ HasParallel(kids[g][i])

\* The children where group::tail_nodes stops its walk from the end.
TailCandidates(g) ==
  {i \in DOMAIN kids[g] : IsSynth(kids[g][i]) \/ kids[kids[g][i]] # <<>>}

\* tail_nodes, of a group and of a parallel_group
RECURSIVE TailNodes(_)
TailNodes(g) ==
  IF g \in Parallel
    THEN MapThenSumSet(LAMBDA i : IF IsSynth(kids[g][i]) THEN 1
                                  ELSE TailNodes(kids[g][i]), DOMAIN kids[g])
    ELSE LET stops == TailCandidates(g)
             last == kids[g][Max(stops)]
         IN IF stops = {} THEN 0 ELSE IF IsSynth(last) THEN 1 ELSE TailNodes(last)

\* Mutation: an empty group before the item ends the walk.
PreviousActivationNoSkip(g, j, limit) ==
  IF j = 1 THEN limit
  ELSE IF IsSynth(kids[g][j - 1]) THEN 1 ELSE TailNodes(kids[g][j - 1])

\* get_previous_activation_count, for the child at position j of g
PreviousActivation(g, j, limit) ==
  LET stops == {i \in 1..(j - 1) : IsSynth(kids[g][i]) \/ TailNodes(kids[g][i]) # 0}
      prev == kids[g][Max(stops)]
  IN IF stops = {} THEN limit ELSE IF IsSynth(prev) THEN 1 ELSE TailNodes(prev)
-----------------------------------------------------------------------------
(* The generator. *)

\* The first child of the run of consecutive synths that ends at child k.
RunStart(g, k) == Min({j \in 1..k : \A i \in j..k : IsSynth(kids[g][i])})

NewItem(job, succ, limit) == [job |-> job, succ |-> succ, limit |-> limit]

\* Mutation: the child before a run keeps the run's own successors.
AdvanceNone(succ, heads) == succ

\* "advance successor list": what the children before this one lead to.
Advance(succ, heads) == heads

\* fill_queue_recursive for the first k children of g: the items it allocates
\* and the successor list it returns.
RECURSIVE Fill(_, _, _, _)
Fill(g, k, succ, limit) ==
  LET node == kids[g][k]
      j == RunStart(g, k)
      job == SubSeq(kids[g], j, k)
      item == NewItem(job, succ, PreviousActivation(g, j, limit))
      sub == Fill(node, Len(kids[node]), succ, PreviousActivation(g, k, limit))
      par == Fill(node, Len(kids[node]), succ, limit)
      rest(i, s) == Fill(g, i, s, limit)
      Joined(items, heads, other) ==
        [items |-> items \cup other.items, heads |-> heads \cup other.heads]
      Before(items, other) == [items |-> items \cup other.items, heads |-> other.heads]
  IN IF g \in Parallel
       THEN IF k = 0 THEN [items |-> {}, heads |-> {}]
            ELSE IF IsSynth(node)
              THEN Joined({NewItem(<<node>>, succ, limit)}, {node}, rest(k - 1, succ))
            ELSE IF HasSynthChildren(node)
              THEN Joined(par.items, par.heads, rest(k - 1, succ))
            ELSE rest(k - 1, succ)
       ELSE IF k = 0 THEN [items |-> {}, heads |-> succ]
            ELSE IF IsSynth(node)
              THEN Before({item}, rest(j - 1, Advance(succ, {job[1]})))
            ELSE IF HasSynthChildren(node)
              THEN Before(sub.items, rest(k - 1, Advance(succ, sub.heads)))
            ELSE rest(k - 1, succ)

\* dependency_graph_generator::operator() and fill_queue.  An item is initially
\* runnable when its limit is 0.
Generate ==
  [items |-> IF HasSynthChildren(Root) THEN Fill(Root, Len(kids[Root]), {}, 0).items ELSE {},
   parallel |-> HasParallel(Root)]
-----------------------------------------------------------------------------
(* The server around it. *)

Children == UNION {{kids[g][i] : i \in DOMAIN kids[g]} : g \in Group}
InTree == Children \cup {Root}

Init ==
  /\ kids = [g \in Group |-> <<>>]
  /\ queue = [items |-> {}, parallel |-> FALSE]
  /\ dirty = FALSE

\* Mutation: no update is requested for a synth in a parallel group.
AsksForUpdateSequential(n, g) == IsSynth(n) /\ g \notin Parallel

\* perform_node_add: only a new synth asks for a new queue.
AsksForUpdate(n, g) == IsSynth(n)

\* /s_new, /g_new, /p_new with addAction tail
AddNode(n, g) ==
  /\ n \notin InTree
  /\ g \in InTree
  /\ kids' = [kids EXCEPT ![g] = Append(@, n)]
  /\ dirty' = (dirty \/ AsksForUpdate(n, g))
  /\ UNCHANGED queue

RECURSIVE Below(_)
Below(n) ==
  IF IsSynth(n) THEN {n}
  ELSE {n} \cup UNION {Below(kids[n][i]) : i \in DOMAIN kids[n]}

\* /n_free: remove_node takes the node and all it holds out of the tree
FreeNode(n) ==
  /\ n \in Children
  /\ kids' = [g \in Group |-> IF g \in Below(n) THEN <<>>
                              ELSE SelectSeq(kids[g], LAMBDA m : m # n)]
  /\ dirty' = TRUE
  /\ UNCHANGED queue

\* rebuild_dsp_queue
Rebuild ==
  /\ dirty
  /\ queue' = Generate
  /\ dirty' = FALSE
  /\ UNCHANGED kids

Next ==
  \/ \E n \in Synth \cup Group, g \in Group : AddNode(n, g)
  \/ \E n \in Synth \cup Group : FreeNode(n)
  \/ Rebuild

Spec == Init /\ [][Next]_vars
-----------------------------------------------------------------------------
(* The order that the tree prescribes, stated without the generator. *)

RECURSIVE SynthsBelow(_)
SynthsBelow(n) ==
  IF IsSynth(n) THEN {n}
  ELSE UNION {SynthsBelow(kids[n][i]) : i \in DOMAIN kids[n]}

\* The children of a sequential group run one after another.
Precedes ==
  UNION {UNION {SynthsBelow(kids[g][i]) \X SynthsBelow(kids[g][j]) :
                  <<i, j>> \in {p \in (DOMAIN kids[g]) \X (DOMAIN kids[g]) : p[1] < p[2]}} :
           g \in Group \ Parallel}

\* The pairs of an order with nothing in between.
Covers(before) ==
  {p \in before : ~\E z \in Synth : <<p[1], z>> \in before /\ <<z, p[2]>> \in before}

\* The pairs that the queue orders directly: neighbours in a job, and the last
\* synth of an item with the first one of a successor.
Edges(items) ==
  UNION {{<<x.job[i], x.job[i + 1]>> : i \in 1..(Len(x.job) - 1)} : x \in items}
    \cup UNION {{x.job[Len(x.job)]} \X x.succ : x \in items}

\* A group that is not empty but holds only groups without synths.
Hollow(g) == kids[g] # <<>> /\ SynthsBelow(g) = {}

HasHollow == \E g \in Group \ {Root} : Hollow(g)

PredCount(items, x) == Cardinality({y \in items : x.job[1] \in y.succ})
-----------------------------------------------------------------------------
(* Properties *)

\* The tree is a forest of the created nodes, the queue a set of items.
TypeOK ==
  /\ kids \in [Group -> Seq(Synth \cup Group)]
  /\ \A x \in queue.items :
       x.job \in Seq(Synth) /\ x.job # <<>> /\ x.succ \subseteq Synth /\ x.limit \in Nat
  /\ queue.parallel \in BOOLEAN
  /\ dirty \in BOOLEAN

\* Whenever the server computes audio without a rebuild, the installed queue
\* has each synth of the tree in one place of one item.  Creating a group asks
\* for no new queue; this holds all the same.
EachSynthInOneItem ==
  LET places == UNION {{<<x, i>> : i \in DOMAIN x.job} : x \in queue.items}
  IN ~dirty =>
       \A s \in Synth : Cardinality({p \in places : p[1].job[p[2]] = s})
                           = (IF s \in SynthsBelow(Root) THEN 1 ELSE 0)

\* The order of that queue is the order of the tree and no more: a synth waits
\* for another one exactly when a sequential group puts it after the other.
OrderIsTreeOrder ==
  LET edges == Edges(queue.items)
      before == Precedes
  IN ~dirty => edges \subseteq before /\ Covers(before) \subseteq edges

\* activation_limit is the number of items that have the item as a successor,
\* which is what the DSP threads count down: what the backwards walk of
\* get_previous_activation_count counts is what the forward walk links.
\* True of the trees in which every group without synths is empty.
LimitIsPredecessors ==
  ~dirty /\ ~HasHollow =>
    \A x \in queue.items : x.limit = PredCount(queue.items, x)

=============================================================================
