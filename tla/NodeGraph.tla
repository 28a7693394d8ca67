----------------------------- MODULE NodeGraph -------------------------------
(***************************************************************************)
(* supernova's node graph and the audio callback around it: the tree of    *)
(* groups and synths, the node-id set, the reference counts that decide    *)
(* when a node is deleted, the counters the generator relies on, and the   *)
(* done actions that synths ask for while they run and that are applied at *)
(* the start of the next tick.                                             *)
(*                                                                         *)
(* Everything here runs in the audio callback.  nova_server::tick applies  *)
(* the done actions of the last tick ("apply"), runs the commands that     *)
(* have arrived ("commands"), rebuilds the dsp queue if it is dirty, and   *)
(* computes audio ("audio").  The queue holds a reference to every synth   *)
(* in it; the lists of done actions are plain pointers and hold none.      *)
(*                                                                         *)
(* A node is its object: what find_node returns for a registered id.  A    *)
(* node that is created is any one that is not allocated.  Commands are    *)
(* given what they dereference: a parent for a node to be moved or to be   *)
(* an anchor, and no move of a group into itself or below.                 *)
(***************************************************************************)
EXTENDS Integers, Sequences, FiniteSets, SequencesExt

CONSTANTS
  Synth,       \* the synths
  Group,       \* the groups, the parallel groups among them
  Parallel,    \* is_parallel
  Root,        \* root_group_
  None,        \* nullptr
  DoneActions  \* the done actions that units of this instance ask for

Node == Synth \cup Group

ASSUME NodeAssumption ==
  /\ Root \in Group
  /\ Parallel \subseteq Group \ {Root}
  /\ Synth \cap Group = {}
  /\ None \notin Node
  /\ IsFiniteSet(Synth) /\ IsFiniteSet(Group)
  /\ DoneActions \subseteq 1..15

VARIABLES
  kids,        \* abstract_group::child_nodes
  groups,      \* abstract_group::child_groups
  synthKids,   \* abstract_group::child_synth_count
  groupKids,   \* abstract_group::child_group_count
  parent,      \* server_node::parent_
  running,     \* server_node::running_, of the synths
  refs,        \* server_node::use_count_; 0: not allocated
  ids,         \* node_set
  synthCount,  \* node_graph::synth_count_
  groupCount,  \* node_graph::group_count_
  queue,       \* the synths that the installed dsp queue refers to
  dirty,       \* dsp_queue_dirty
  done, resumes, pauses, freeDeep, freeAll,  \* sc_done_action_handler's lists
  asked,       \* history: the synths that asked for a done action in this tick
  due,         \* history: the nodes that Done.schelp says these actions free
  phase        \* where the audio callback is

tree == <<kids, groups, synthKids, groupKids, parent, ids, synthCount, groupCount>>
lists == <<done, resumes, pauses, freeDeep, freeAll>>
vars == <<kids, groups, synthKids, groupKids, parent, ids, synthCount, groupCount,
          running, refs, queue, dirty, done, resumes, pauses, freeDeep, freeAll,
          asked, due, phase>>

Init ==
  /\ kids = [g \in Group |-> <<>>]
  /\ groups = [g \in Group |-> {}]
  /\ synthKids = [g \in Group |-> 0]
  /\ groupKids = [g \in Group |-> 0]
  /\ parent = [n \in Node |-> None]
  /\ running = [s \in Synth |-> TRUE]
  /\ refs = [n \in Node |-> IF n = Root THEN 1 ELSE 0]
  /\ ids = {Root}
  /\ synthCount = 0
  /\ groupCount = 1
  /\ queue = {}
  /\ dirty = FALSE
  /\ done = <<>>
  /\ resumes = <<>>
  /\ pauses = <<>>
  /\ freeDeep = <<>>
  /\ freeAll = <<>>
  /\ asked = {}
  /\ due = {}
  /\ phase = "apply"
-----------------------------------------------------------------------------
(* The tree. *)

\* The nodes of S and their children, where children[g] are those of group g.
WithChildren(children, S) ==
  S \cup UNION {ToSet(children[g]) : g \in S \cap Group}

\* The node and everything under it, level by level.
Under(children, n) ==
  LET level[k \in 0..Cardinality(Group)] ==
        IF k = 0 THEN {n} ELSE WithChildren(children, level[k - 1])
  IN IF n \in Group THEN level[Cardinality(Group)] ELSE {n}

Subtree(n) == Under(kids, n)

SynthsUnder(g) == Subtree(g) \cap Synth

IndexOf(s, n) == CHOOSE i \in DOMAIN s : s[i] = n

\* The children s without the nodes of F, the others in their order.
Without(s, F) ==
  LET Kept(l, n) == IF n \in F THEN l ELSE Append(l, n)
      kept[i \in 0..Len(s)] == IF i = 0 THEN <<>> ELSE Kept(kept[i - 1], s[i])
  IN kept[Len(s)]

\* One for a node of the kind, to count it.
One(n, Kind) == IF n \in Kind THEN 1 ELSE 0

\* Where a child goes among the children s of g: parallel groups have no order
\* and always put it in front.
Placed(g, s, n, pos, ref) ==
  IF pos \in {"head", "insert"} \/ g \in Parallel THEN <<n>> \o s
  ELSE CASE pos = "tail" -> Append(s, n)
         [] pos = "before" -> InsertAt(s, IndexOf(s, ref), n)
         [] OTHER -> InsertAt(s, IndexOf(s, ref) + 1, n)

\* The counters when n leaves the group `from' and joins the group `to'; either
\* may be None.
LinkedCounters(from, to, n) ==
  /\ synthKids' = [g \in Group |-> synthKids[g]
       + (IF g = to THEN One(n, Synth) ELSE 0) - (IF g = from THEN One(n, Synth) ELSE 0)]
  /\ groupKids' = [g \in Group |-> groupKids[g]
       + (IF g = to THEN One(n, Group) ELSE 0) - (IF g = from THEN One(n, Group) ELSE 0)]
  /\ groups' = [g \in Group |->
       IF g = to THEN groups[g] \cup ({n} \cap Group)
       ELSE IF g = from THEN groups[g] \ {n} ELSE groups[g]]

\* perform_node_add: a group that replaces nothing asks for no new queue.
AsksForUpdate(n, pos) == n \in Synth \/ pos = "replace"

\* The group that receives a node placed relative to target.
Receiver(target, pos) ==
  IF pos \in {"head", "tail", "insert"} THEN target ELSE parent[target]

\* /s_new, /g_new, /p_new: find_node, node_position_sanity_check, add_node,
\* add_child, set_parent.
AddNode(n, target, pos) ==
  /\ refs[n] = 0
  /\ target \in ids
  /\ Receiver(target, pos) \in Group
  /\ LET g == Receiver(target, pos) IN
       /\ kids' = [kids EXCEPT ![g] = Placed(g, @, n, pos, target)]
       /\ LinkedCounters(None, g, n)
       /\ parent' = [parent EXCEPT ![n] = g]
  /\ ids' = ids \cup {n}
  /\ refs' = [refs EXCEPT ![n] = 2]
  /\ running' = IF n \in Synth THEN [running EXCEPT ![n] = TRUE] ELSE running
  /\ synthCount' = synthCount + One(n, Synth)
  /\ groupCount' = groupCount + One(n, Group)
  /\ dirty' = (dirty \/ AsksForUpdate(n, pos))
  /\ UNCHANGED <<queue, lists, asked, due, phase>>

\* The same with addAction replace.  replace_child takes target out of its
\* group; nothing takes it, or what it holds, out of the node set.
ReplaceNode(n, target) ==
  /\ refs[n] = 0
  /\ target \in ids
  /\ parent[target] # None
  /\ LET g == parent[target] IN
       /\ kids' = [kids EXCEPT ![g] = ReplaceAt(@, IndexOf(@, target), n)]
       /\ synthKids' = [synthKids EXCEPT ![g] = @ + One(n, Synth) - One(target, Synth)]
       /\ groupKids' = [groupKids EXCEPT ![g] = @ + One(n, Group) - One(target, Group)]
       /\ groups' = [groups EXCEPT ![g] = (@ \cup ({n} \cap Group)) \ {target}]
       /\ parent' = [parent EXCEPT ![n] = g, ![target] = None]
  /\ ids' = ids \cup {n}
  /\ refs' = [refs EXCEPT ![n] = 2, ![target] = @ - 1]
  /\ running' = IF n \in Synth THEN [running EXCEPT ![n] = TRUE] ELSE running
  /\ synthCount' = synthCount + One(n, Synth) - One(target, Synth)
  /\ groupCount' = groupCount + One(n, Group) - One(target, Group)
  /\ dirty' = (dirty \/ AsksForUpdate(n, "replace"))
  /\ UNCHANGED <<queue, lists, asked, due, phase>>

\* /g_head, /g_tail, /n_before, /n_after: move_to_head_or_tail and
\* move_before_or_after splice the node, parallel group or not.
MoveNode(n, target, pos) ==
  /\ {n, target} \subseteq ids
  /\ parent[n] # None
  /\ Receiver(target, pos) \in Group \ Subtree(n)
  /\ LET g == Receiver(target, pos)
         others(h) == Without(kids[h], {n})
     IN /\ kids' = [h \in Group |->
             IF h # g THEN others(h)
             ELSE IF n = target THEN kids[h]
             ELSE Placed(Root, others(h), n, pos, target)]
        /\ LinkedCounters(parent[n], g, n)
        /\ parent' = [parent EXCEPT ![n] = g]
  /\ dirty' = TRUE
  /\ UNCHANGED <<running, refs, ids, synthCount, groupCount, queue, lists, asked, due, phase>>

\* /n_order, for each of its nodes: remove_child, then add_child.
OrderNode(n, target, pos) ==
  /\ {n, target} \subseteq ids
  /\ n # target
  /\ parent[n] # None
  /\ Receiver(target, pos) \in Group \ Subtree(n)
  /\ LET g == Receiver(target, pos)
         others(h) == Without(kids[h], {n})
     IN /\ kids' = [h \in Group |->
             IF h = g THEN Placed(g, others(h), n, pos, target) ELSE others(h)]
        /\ LinkedCounters(parent[n], g, n)
        /\ parent' = [parent EXCEPT ![n] = g]
  /\ dirty' = TRUE
  /\ UNCHANGED <<running, refs, ids, synthCount, groupCount, queue, lists, asked, due, phase>>
-----------------------------------------------------------------------------
(* Freeing. *)

\* free_node returns at once for a node without a parent.
Freeable(n) == IF parent[n] = None THEN {} ELSE {n}

\* Mutation: the children of a group stay registered and referenced.
FreedByTop(F) == F

\* Everything that remove_node releases for the nodes F.
FreedBy(F) == UNION {Subtree(n) : n \in F}

\* free_node for every node of F, no one of them under another: remove_node
\* releases the ids of the whole subtree and unlinks the node; the groups under
\* it lose their last reference and unlink their children in their destructor.
FreeNodes(F) ==
  LET freed == FreedBy(F)
      Lost(g, Kind) == Cardinality(ToSet(kids[g]) \cap F \cap Kind)
  IN /\ kids' = [g \in Group |-> IF g \in freed THEN <<>>
                                 ELSE Without(kids[g], F)]
     /\ groups' = [g \in Group |-> IF g \in freed THEN {} ELSE groups[g] \ F]
     /\ synthKids' = [g \in Group |-> IF g \in freed THEN 0
                                      ELSE synthKids[g] - Lost(g, Synth)]
     /\ groupKids' = [g \in Group |-> IF g \in freed THEN 0
                                      ELSE groupKids[g] - Lost(g, Group)]
     /\ parent' = [n \in Node |-> IF n \in freed THEN None ELSE parent[n]]
     /\ ids' = ids \ freed
     /\ refs' = [n \in Node |-> IF n \in freed THEN refs[n] - 2 ELSE refs[n]]
     /\ synthCount' = synthCount - Cardinality(freed \cap Synth)
     /\ groupCount' = groupCount - Cardinality(freed \cap Group)
     /\ dirty' = (dirty \/ F # {})
     /\ UNCHANGED <<running, queue>>

\* /n_free
FreeNode(n) ==
  /\ n \in ids
  /\ FreeNodes(Freeable(n))
  /\ UNCHANGED <<lists, asked, due, phase>>

\* /g_freeAll: nova_server::group_free_all
FreeAll(g) ==
  /\ g \in ids
  /\ FreeNodes(ToSet(kids[g]))
  /\ UNCHANGED <<lists, asked, due, phase>>

\* /g_deepFree: nova_server::group_free_deep
DeepFree(g) ==
  /\ g \in ids
  /\ FreeNodes(SynthsUnder(g))
  /\ UNCHANGED <<lists, asked, due, phase>>

\* node_pause and node_resume: abstract_group passes them on to its children.
SetRunning(n, flag) ==
  running' = [s \in Synth |-> IF s \in Subtree(n) THEN flag ELSE running[s]]

\* /n_run
RunNode(n, flag) ==
  /\ n \in ids
  /\ SetRunning(n, flag)
  /\ UNCHANGED <<tree, refs, queue, dirty, lists, asked, due, phase>>
-----------------------------------------------------------------------------
(* The tick. *)

\* Mutation: the queue takes no references.
QueueRefsNone(n, new) == refs[n]

\* The new queue refers to its synths before the old one, destroyed, lets go.
QueueRefs(n, new) ==
  refs[n] + (IF n \in new THEN 1 ELSE 0) - (IF n \in queue THEN 1 ELSE 0)

\* The end of tick: rebuild_dsp_queue if dirty, then compute_audio.
ComputeAudio ==
  /\ phase = "commands"
  /\ LET new == IF dirty THEN SynthsUnder(Root) ELSE queue IN
       /\ queue' = new
       /\ refs' = [n \in Node |-> QueueRefs(n, new)]
  /\ dirty' = FALSE
  /\ phase' = "audio"
  /\ UNCHANGED <<tree, running, lists, asked, due>>

Siblings(s) == kids[parent[s]]

\* Mutation: the neighbour on the other side.
PreviousSwapped(s) ==
  LET i == IndexOf(Siblings(s), s)
  IN IF i = Len(Siblings(s)) THEN {} ELSE {Siblings(s)[i + 1]}

Previous(s) ==
  LET i == IndexOf(Siblings(s), s) IN IF i = 1 THEN {} ELSE {Siblings(s)[i - 1]}

Following(s) ==
  LET i == IndexOf(Siblings(s), s)
  IN IF i = Len(Siblings(s)) THEN {} ELSE {Siblings(s)[i + 1]}

\* The siblings before s, nearest first.
AllPrevious(s) == Reverse(SubSeq(Siblings(s), 1, IndexOf(Siblings(s), s) - 1))

AllFollowing(s) ==
  LET i == IndexOf(Siblings(s), s) IN SubSeq(Siblings(s), i + 1, Len(Siblings(s)))

\* done_nodes, freeAll_nodes and freeDeep_nodes are searched before a node is
\* appended to them; pause_nodes and resume_nodes are not.
AddAll(list, nodes) ==
  LET Add(l, n) == IF Contains(l, n) THEN l ELSE Append(l, n)
      added[i \in 0..Len(nodes)] == IF i = 0 THEN list ELSE Add(added[i - 1], nodes[i])
  IN added[Len(nodes)]

\* What done_action a of a unit of synth s appends to the done list; in a
\* parallel group there is no preceding and no following node.
DoneBy(a, s) ==
  LET lone == parent[s] \in Parallel
      prev == IF lone THEN <<>> ELSE SetToSeq(Previous(s))
      following == IF lone THEN <<>> ELSE SetToSeq(Following(s))
      prevSynth == IF lone THEN <<>> ELSE SetToSeq(Previous(s) \cap Synth)
  IN CASE a = 2 -> <<s>>
       [] a = 3 -> <<s>> \o prev
       [] a = 4 -> <<s>> \o following
       [] a \in {5, 6, 11, 12} -> <<s>> \o prevSynth
       [] a \in {7, 8} -> IF lone THEN <<s>> ELSE <<s>> \o AllPrevious(s)
       [] a \in {9, 10, 15} -> <<s>>
       [] a = 14 -> <<parent[s]>>
       [] OTHER -> <<>>

\* What it appends to the other lists: the preceding group, for actions 5, 6, 11
\* and 12; a neighbour to pause or to resume; the enclosing group.
GroupsBy(a, s, actions) ==
  IF a \in actions /\ parent[s] \notin Parallel THEN SetToSeq(Previous(s) \cap Group) ELSE <<>>

PausedBy(a, s) ==
  CASE a = 1 -> <<s>>
    [] a = 9 /\ parent[s] \notin Parallel -> SetToSeq(Previous(s))
    [] a = 10 /\ parent[s] \notin Parallel -> SetToSeq(Following(s))
    [] OTHER -> <<>>

ResumedBy(a, s) ==
  IF a = 15 /\ parent[s] \notin Parallel THEN SetToSeq(Following(s)) ELSE <<>>

\* The nodes that Done.schelp says are freed by the action: for a group that is
\* freed, everything in it; for g_freeAll, its members; for g_deepFree, its
\* synths.  The root group cannot be freed.
DocumentedFrees(a, s) ==
  LET lone == parent[s] \in Parallel
      Nearest(q) == IF lone \/ q = <<>> THEN {} ELSE {q[1]}
      prev == Nearest(AllPrevious(s))
      next == Nearest(AllFollowing(s))
      All(S) == UNION {Subtree(n) : n \in S}
      Members(S) == All(S) \ (S \cap Group)
      Synths(S) == All(S) \cap Synth
  IN CASE a = 1 -> {}
       [] a = 3 -> {s} \cup All(prev)
       [] a = 4 -> {s} \cup All(next)
       [] a = 5 -> {s} \cup Members(prev)
       [] a = 6 -> {s} \cup Members(next)
       [] a = 7 /\ ~lone -> {s} \cup All(ToSet(AllPrevious(s)))
       [] a = 8 /\ ~lone -> {s} \cup All(ToSet(AllFollowing(s)))
       [] a = 11 -> {s} \cup Synths(prev)
       [] a = 12 -> {s} \cup Synths(next)
       [] a = 13 -> Members({parent[s]})
       [] a = 14 -> All({parent[s]} \ {Root})
       [] OTHER -> {s}

\* Some sequential group puts s before t.
RunsBefore(s, t) ==
  \E g \in Group \ Parallel : \E i, j \in DOMAIN kids[g] :
    i < j /\ s \in Subtree(kids[g][i]) /\ t \in Subtree(kids[g][j])

\* A unit of a synth that is running finishes and calls done_action.  The DSP
\* threads run the synths in the order of the tree.
DoneAction(s, a) ==
  /\ phase = "audio"
  /\ s \in queue \ asked
  /\ running[s]
  /\ \A t \in asked : ~RunsBefore(s, t)
  /\ done' = AddAll(done, DoneBy(a, s))
  /\ pauses' = pauses \o PausedBy(a, s)
  /\ resumes' = resumes \o ResumedBy(a, s)
  /\ freeAll' = AddAll(freeAll, GroupsBy(a, s, {5, 6}) \o (IF a = 13 THEN <<parent[s]>> ELSE <<>>))
  /\ freeDeep' = AddAll(freeDeep, GroupsBy(a, s, {11, 12}))
  /\ asked' = asked \cup {s}
  /\ due' = due \cup DocumentedFrees(a, s)
  /\ UNCHANGED <<tree, running, refs, queue, dirty, phase>>

\* The driver calls tick again.
StartTick ==
  /\ phase = "audio"
  /\ phase' = "apply"
  /\ UNCHANGED <<tree, running, refs, queue, dirty, lists, asked, due>>

\* apply_done_actions, an entry at a time: the done list first.
ApplyDone ==
  /\ phase = "apply"
  /\ done # <<>>
  /\ FreeNodes(Freeable(Head(done)))
  /\ done' = Tail(done)
  /\ UNCHANGED <<resumes, pauses, freeDeep, freeAll, asked, due, phase>>

ApplyResume ==
  /\ phase = "apply"
  /\ done = <<>>
  /\ resumes # <<>>
  /\ SetRunning(Head(resumes), TRUE)
  /\ resumes' = Tail(resumes)
  /\ UNCHANGED <<tree, refs, queue, dirty, done, pauses, freeDeep, freeAll, asked, due, phase>>

ApplyPause ==
  /\ phase = "apply"
  /\ done = <<>> /\ resumes = <<>>
  /\ pauses # <<>>
  /\ SetRunning(Head(pauses), FALSE)
  /\ pauses' = Tail(pauses)
  /\ UNCHANGED <<tree, refs, queue, dirty, done, resumes, freeDeep, freeAll, asked, due, phase>>

ApplyFreeDeep ==
  /\ phase = "apply"
  /\ done = <<>> /\ resumes = <<>> /\ pauses = <<>>
  /\ freeDeep # <<>>
  /\ FreeNodes(SynthsUnder(Head(freeDeep)))
  /\ freeDeep' = Tail(freeDeep)
  /\ UNCHANGED <<done, resumes, pauses, freeAll, asked, due, phase>>

ApplyFreeAll ==
  /\ phase = "apply"
  /\ done = <<>> /\ resumes = <<>> /\ pauses = <<>> /\ freeDeep = <<>>
  /\ freeAll # <<>>
  /\ FreeNodes(ToSet(kids[Head(freeAll)]))
  /\ freeAll' = Tail(freeAll)
  /\ UNCHANGED <<done, resumes, pauses, freeDeep, asked, due, phase>>

AllApplied == lists = <<<<>>, <<>>, <<>>, <<>>, <<>>>>

\* run_callbacks and execute_scheduled_bundles follow.
StartCommands ==
  /\ phase = "apply"
  /\ AllApplied
  /\ phase' = "commands"
  /\ asked' = {}
  /\ due' = {}
  /\ UNCHANGED <<tree, running, refs, queue, dirty, lists>>
-----------------------------------------------------------------------------
Command ==
  /\ phase = "commands"
  /\ \/ \E n \in Node, target \in Node :
          \/ \E pos \in {"head", "tail", "insert", "before", "after"} : AddNode(n, target, pos)
          \/ ReplaceNode(n, target)
          \/ \E pos \in {"head", "tail", "before", "after"} :
               MoveNode(n, target, pos) \/ OrderNode(n, target, pos)
     \/ \E n \in Node : FreeNode(n) \/ \E flag \in BOOLEAN : RunNode(n, flag)
     \/ \E g \in Group : FreeAll(g) \/ DeepFree(g)

Tick ==
  \/ ApplyDone \/ ApplyResume \/ ApplyPause \/ ApplyFreeDeep \/ ApplyFreeAll
  \/ StartCommands
  \/ ComputeAudio
  \/ \E s \in Synth, a \in DoneActions : DoneAction(s, a)
  \/ StartTick

Next == Command \/ Tick

Spec == Init /\ [][Next]_vars
-----------------------------------------------------------------------------
(* Properties *)

\* The tree is made of nodes, the counters are natural numbers.
TypeOK ==
  /\ kids \in [Group -> Seq(Node)]
  /\ groups \in [Group -> SUBSET Group]
  /\ synthKids \in [Group -> Nat] /\ groupKids \in [Group -> Nat]
  /\ parent \in [Node -> Group \cup {None}]
  /\ running \in [Synth -> BOOLEAN]
  /\ refs \in [Node -> Nat]
  /\ ids \subseteq Node
  /\ synthCount \in Nat /\ groupCount \in Nat
  /\ queue \subseteq Synth
  /\ dirty \in BOOLEAN
  /\ {done, resumes, pauses} \subseteq Seq(Node)
  /\ {freeDeep, freeAll} \subseteq Seq(Group)
  /\ asked \subseteq Synth /\ due \subseteq Node
  /\ phase \in {"apply", "commands", "audio"}

\* child_nodes and parent_ are two views of one forest, through every add,
\* replace, move, order and free: a group lists a node once, and only the group
\* that is the node's parent lists it; following parents never comes back.
ParentsAndChildrenAgree ==
  /\ \A g \in Group : \A n \in Node :
       Cardinality({i \in DOMAIN kids[g] : kids[g][i] = n}) = (IF parent[n] = g THEN 1 ELSE 0)
  /\ \A g \in Group : \A i \in DOMAIN kids[g] : g \notin Subtree(kids[g][i])

\* child_count()'s assertions: the counters and child_groups, which the queue
\* generator trusts, are what child_nodes holds.
CountersExact ==
  \A g \in Group :
    /\ synthKids[g] = Cardinality(ToSet(kids[g]) \cap Synth)
    /\ groupKids[g] = Cardinality(ToSet(kids[g]) \cap Group)
    /\ groups[g] = ToSet(kids[g]) \cap Group

\* The counts of /status.reply are the numbers of nodes that have a parent, and
\* the root group.
TotalsExact ==
  /\ synthCount = Cardinality({s \in Synth : parent[s] # None})
  /\ groupCount = 1 + Cardinality({g \in Group : parent[g] # None})

\* While audio is computed the dsp queue runs the synths of the tree: every
\* change that adds, removes or replaces a synth has asked for a new queue, and
\* creating a group, which does not, changes nothing.
QueueIsTree == phase = "audio" => queue = SynthsUnder(Root)

\* All that the server keeps about its tree says the same: parents and
\* children, the counters of each group and of the server, the queue that runs.
TreeConsistent ==
  ParentsAndChildrenAgree /\ CountersExact /\ TotalsExact /\ QueueIsTree

\* use_count_ is the number of holders: the node set, the parent and the dsp
\* queue.  So nothing that one of them can reach has been deleted, and a node
\* that none of them can reach has been.
RefsAreHolders ==
  \A n \in Node :
    refs[n] = (IF n \in ids THEN 1 ELSE 0) + (IF parent[n] # None THEN 1 ELSE 0)
                + (IF n \in queue THEN 1 ELSE 0)

\* The done-action lists hold plain pointers.  A synth in one is not deleted
\* before its entry is applied, even when another entry frees it: the dsp queue
\* that ran it still holds it.
PendingSynthsAlive ==
  \A n \in ToSet(done \o resumes \o pauses) \cap Synth : refs[n] > 0

\* When the done actions of a tick have been applied, every node that the
\* documentation of the actions says is freed has left the tree.
DueIsFreed == phase = "apply" /\ AllApplied => \A n \in due : parent[n] = None

=============================================================================
