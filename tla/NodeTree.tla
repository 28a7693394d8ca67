------------------------------ MODULE NodeTree --------------------------------
(***************************************************************************)
(* scsynth's node tree: the groups and graphs (synths) that the audio      *)
(* callback calculates, the doubly linked lists that hold them, the table  *)
(* of node ids, the commands that change them between two control blocks,  *)
(* and the done actions by which a unit changes them while the tree is     *)
(* being traversed.                                                        *)
(*                                                                         *)
(* All of it runs in the audio callback.  The stack is empty between two   *)
(* blocks, when commands are performed; World_Run calls the top group, and *)
(* from then until the stack is empty again each step is one call of a     *)
(* child, one done action of a unit, or one return.  What a node does when *)
(* it is called is its mCalcFunc, which is how a pause or an end that was  *)
(* asked for takes effect.                                                 *)
(*                                                                         *)
(* A node is its memory; a new one is any that is not allocated.  Ids are  *)
(* those that clients choose; a generated, negative id is Hidden.          *)
(***************************************************************************)
EXTENDS Integers, Sequences, FiniteSets, SequencesExt, FiniteSetsExt

CONSTANTS
  Node,         \* the nodes that fit into real-time memory, the root among them
  Root,         \* mTopGroup
  Nil,          \* nullptr
  Id,           \* the ids that clients choose
  RootId,       \* 0
  Hidden,       \* a generated id, which no client knows
  MaxCmds,      \* bound: pending asynchronous commands of one graph
  Programs      \* the programs: the families of operations each performs, the
                \* done actions its units ask for, the number of ids it uses,
                \* and the longest list of nodes in one of its messages

Families == {"new", "free", "move", "run", "trace", "noid", "async", "constructors",
             "plugins", "careless"}

ASSUME NodeTreeAssumption ==
  /\ Root \in Node /\ Nil \notin Node /\ IsFiniteSet(Node)
  /\ Id \subseteq Nat /\ RootId \notin Id /\ Hidden \notin Id \cup {RootId}
  /\ MaxCmds \in Nat
  /\ Programs \subseteq [ops : SUBSET Families, actions : SUBSET (1..15), ids : Nat, list : Nat]

VARIABLES
  nodes,    \* the Node structures
  stack,    \* the calls of the traversal, innermost last
  cmds,     \* the AsyncUnitCmds of each graph that are not finished
  called,   \* history: the nodes called in this block
  ended,    \* history: the nodes that were asked to end and are not freed
  program   \* what clients and units do: it never changes

vars == <<nodes, stack, cmds, called, ended, program>>

GroupCalc == {"calc", "trace", "dump"}

Gone == [kind |-> "free", id |-> Hidden, inLib |-> FALSE, calc |-> "null", refs |-> 0,
         parent |-> Nil, prev |-> Nil, next |-> Nil, head |-> Nil, tail |-> Nil]

NewNode(kind, i) ==
  [Gone EXCEPT !.kind = kind, !.id = i, !.inLib = TRUE, !.refs = 1,
               !.calc = IF kind = "group" THEN "calc" ELSE "first"]

Init ==
  /\ nodes = [m \in Node |-> IF m = Root THEN NewNode("group", RootId) ELSE Gone]
  /\ stack = <<>>
  /\ cmds = [m \in Node |-> 0]
  /\ called = {} /\ ended = {} /\ program \in Programs

-----------------------------------------------------------------------------
(* The lists. *)

\* The nodes met by following one link from n, n included.
Chain(ns, n, link) ==
  LET met[seen \in SUBSET Node] ==
        LET more == {ns[m][link] : m \in seen} \ (seen \cup {Nil})
        IN IF more = {} THEN seen ELSE met[seen \cup more]
  IN met[{n}]

Below(ns, n) == {m \in Node : n \in Chain(ns, m, "parent")}

Children(ns, g) == IF ns[g].head = Nil THEN {} ELSE Chain(ns, ns[g].head, "next")

\* Writing to the fields of Nil writes nothing.
Node_Remove(ns, n) ==
  LET x == ns[n]
  IN IF x.parent = Nil THEN ns
     ELSE [ns EXCEPT ![x.parent].head = IF x.prev = Nil THEN x.next ELSE @,
                     ![x.parent].tail = IF x.next = Nil THEN x.prev ELSE @,
                     ![x.prev].next = x.next,
                     ![x.next].prev = x.prev,
                     ![n].parent = Nil, ![n].prev = Nil, ![n].next = Nil]

\* n becomes a child of g, between p and x; Nil stands for either end.
Link(ns, n, g, p, x) ==
  [ns EXCEPT ![n].prev = p, ![n].next = x,
             ![p].next = n, ![x].prev = n,
             ![g].head = IF p = Nil THEN n ELSE @,
             ![g].tail = IF x = Nil THEN n ELSE @,
             ![n].parent = g]

Group_AddHead(ns, n, g) == IF n = Root THEN ns ELSE Link(ns, n, g, Nil, ns[g].head)
Group_AddTail(ns, n, g) == IF n = Root THEN ns ELSE Link(ns, n, g, ns[g].tail, Nil)

Node_AddAfter(ns, n, t) ==
  IF ns[t].parent = Nil \/ n = Root THEN ns
  ELSE Link(ns, n, ns[t].parent, t, ns[t].next)

Node_AddBefore(ns, n, t) ==
  IF ns[t].parent = Nil \/ n = Root THEN ns
  ELSE Link(ns, n, ns[t].parent, ns[t].prev, t)

\* Mutant: a graph is freed whatever refers to it.
ReleasedAtOnce(x) == Gone

\* What becomes of a node that is deleted: a graph that a pending command
\* refers to leaves the tree and the table, every other node is freed.
Released(x) ==
  IF x.kind = "graph" /\ x.refs > 1
  THEN [x EXCEPT !.parent = Nil, !.prev = Nil, !.next = Nil,
                 !.refs = x.refs - 1, !.inLib = FALSE]
  ELSE Gone

\* Mutant: the group is freed, but nothing that is in it.
Node_DeleteFlat(ns, n) ==
  IF n = Root THEN ns ELSE [Node_Remove(ns, n) EXCEPT ![n] = Released(ns[n])]

\* A group takes everything below it along.
Node_Delete(ns, n) ==
  IF n = Root THEN ns
  ELSE LET dead == Below(ns, n)  rest == Node_Remove(ns, n)
       IN [m \in Node |-> IF m \in dead THEN Released(ns[m]) ELSE rest[m]]

Node_Replace(ns, n, t) ==
  LET x == ns[t]
  IN IF x.parent = Nil THEN ns
     ELSE Node_Delete(Link(Node_Remove(ns, t), n, x.parent, x.prev, x.next), t)

Group_DeleteAll(ns, g) ==
  FoldSet(LAMBDA m, rest : Node_Delete(rest, m), ns, Children(ns, g))

Group_DeepFreeGraphs(ns, g) ==
  FoldSet(LAMBDA m, rest : Node_Delete(rest, m), ns,
          {m \in Below(ns, g) : ns[m].kind = "graph"})

Placed(ns, n, addAction, t) ==
  CASE addAction = 0 -> Group_AddHead(ns, n, t)
    [] addAction = 1 -> Group_AddTail(ns, n, t)
    [] addAction = 2 -> Node_AddBefore(ns, n, t)
    [] addAction = 3 -> Node_AddAfter(ns, n, t)
    [] addAction = 4 -> Node_Replace(ns, n, t)

-----------------------------------------------------------------------------
(* Pausing, ending, tracing: the calc function. *)

\* Mutant: to resume installs the normal function over any other.
Node_SetRunAlways(ns, n, on) ==
  LET x == ns[n]
  IN [ns EXCEPT ![n].calc = IF on THEN "calc" ELSE IF x.calc = "first" THEN "nullFirst" ELSE "null"]

Node_SetRun(ns, n, on) ==
  LET x == ns[n]
      calc == IF on THEN IF x.calc = "null" THEN "calc" ELSE x.calc
              ELSE IF x.calc = "first" THEN "nullFirst" ELSE "null"
  IN [ns EXCEPT ![n].calc = calc]

Node_End(ns, N) == [m \in Node |-> IF m \in N THEN [ns[m] EXCEPT !.calc = "delete"] ELSE ns[m]]

Node_Trace(ns, n) == [ns EXCEPT ![n].calc = IF @ = "calc" THEN "trace" ELSE @]

Group_DumpTree(ns, n) == [ns EXCEPT ![n].calc = IF @ = "calc" THEN "dump" ELSE @]

\* A neighbour that is a group is emptied, deeply or not; one that is not is ended.
EndOrEmpty(ns, n, deep) ==
  CASE n = Nil -> ns
    [] n # Nil /\ ns[n].kind = "graph" -> Node_End(ns, {n})
    [] n # Nil /\ ns[n].kind = "group" -> IF deep THEN Group_DeepFreeGraphs(ns, n) ELSE Group_DeleteAll(ns, n)

\* Unit_DoneAction(a, unit) in graph n.
Unit_DoneAction(ns, n, a) ==
  LET self == Node_End(ns, {n})
      prev == ns[n].prev
      next == ns[n].next
      Run(m, on) == IF m = Nil THEN self ELSE Node_SetRun(self, m, on)
  IN CASE a = 1  -> Node_SetRun(ns, n, FALSE)
       [] a = 2  -> self
       [] a = 3  -> Node_End(ns, {n, prev})
       [] a = 4  -> Node_End(ns, {n, next})
       [] a = 5  -> EndOrEmpty(self, prev, FALSE)
       [] a = 6  -> EndOrEmpty(self, next, FALSE)
       [] a = 7  -> Node_End(ns, Chain(ns, n, "prev"))
       [] a = 8  -> Node_End(ns, Chain(ns, n, "next"))
       [] a = 9  -> Run(prev, FALSE)
       [] a = 10 -> Run(next, FALSE)
       [] a = 11 -> EndOrEmpty(self, prev, TRUE)
       [] a = 12 -> EndOrEmpty(self, next, TRUE)
       [] a = 13 -> Node_End(ns, Children(ns, ns[n].parent))
       [] a = 14 -> Node_End(ns, {ns[n].parent})
       [] a = 15 -> Run(next, TRUE)

\* What a done action promises to free: the table of Done.schelp.
Promised(ns, n, a) ==
  LET prev == ns[n].prev
      next == ns[n].next
      Synth(m) == {x \in {m} \ {Nil} : ns[x].kind = "graph"}
  IN CASE a = 1 -> {}
       [] a \in {2, 9, 10, 15} -> {n}
       [] a = 3 -> {n, prev} \ {Nil}
       [] a = 4 -> {n, next} \ {Nil}
       [] a \in {5, 11} -> {n} \cup Synth(prev)
       [] a \in {6, 12} -> {n} \cup Synth(next)
       [] a = 7 -> Chain(ns, n, "prev")
       [] a = 8 -> Chain(ns, n, "next")
       [] a = 13 -> Children(ns, ns[n].parent)
       [] a = 14 -> Below(ns, ns[n].parent) \ {Root}

-----------------------------------------------------------------------------
(* What every step records. *)

StillDue(promised) == {m \in ended \cup promised : nodes'[m].inLib}

\* The tree becomes ns; the nodes of promised were asked to end.
Becomes(ns, promised) ==
  /\ nodes' = ns
  /\ ended' = StillDue(promised)
  /\ UNCHANGED program

Unchanged == UNCHANGED <<nodes, ended, program>>

-----------------------------------------------------------------------------
(* Commands, between two control blocks. *)

\* The nodes that Msg_GetNode can be asked for.
Known == {m \in Node : nodes[m].inLib /\ nodes[m].id # Hidden}
KnownGroup == {m \in Known : nodes[m].kind = "group"}

\* A client that takes care names a target that has a parent and is neither the
\* node that moves nor below it.
Sensible(ns, n, addAction, t) ==
  \/ "careless" \in program.ops
  \/ /\ n \notin Chain(ns, t, "parent")
     /\ addAction \in 2..4 => ns[t].parent # Nil

\* A command of one family, performed on nodes that are all known.
Command(family, named) ==
  /\ stack = <<>> /\ family \in program.ops
  /\ named \subseteq Known
  /\ UNCHANGED <<stack, called>>

\* s_new and g_new; the root group can be named as the node to replace by s_new only.
New(kind, n, i, addAction, t) ==
  /\ Command("new", {t})
  /\ nodes[n].kind = "free"
  /\ i = Hidden \/ \A m \in Known : nodes[m].id # i
  /\ addAction \in {0, 1} => t \in KnownGroup
  /\ kind = "group" /\ addAction = 4 => t # Root
  /\ Sensible(nodes, n, addAction, t)
  /\ nodes' = Placed([nodes EXCEPT ![n] = NewNode(kind, i)], n, addAction, t)
  /\ ended' = StillDue({})
  /\ UNCHANGED <<cmds, program>>

SNew(n, i, addAction, t) == New("graph", n, i, addAction, t)
GNew(n, i, addAction, t) == New("group", n, i, addAction, t)

NFree(n) ==
  /\ Command("free", {n})
  /\ Becomes(Node_Delete(nodes, n), {})
  /\ UNCHANGED cmds

GFreeAll(g) ==
  /\ Command("free", {g}) /\ g \in KnownGroup
  /\ Becomes(Group_DeleteAll(nodes, g), {})
  /\ UNCHANGED cmds

GDeepFree(g) ==
  /\ Command("free", {g}) /\ g \in KnownGroup
  /\ Becomes(Group_DeepFreeGraphs(nodes, g), {})
  /\ UNCHANGED cmds

\* n_before and n_after carry out a pair when they meet the next, unless the next
\* moves the same node; only n_before looks at whether the last pair is one node twice.
NMove(addAction, pairs) ==
  LET Carried(k) == IF k < Len(pairs) THEN pairs[k][1] # pairs[k + 1][1]
                    ELSE addAction = 3 \/ pairs[k][1] # pairs[k][2]
      Move(ns, k) == IF Carried(k)
                     THEN Placed(Node_Remove(ns, pairs[k][1]), pairs[k][1], addAction, pairs[k][2])
                     ELSE ns
      Before(k) == FoldLeft(Move, nodes, [j \in 1..(k - 1) |-> j])
  IN /\ Command("move", UNION {Range(pairs[k]) : k \in DOMAIN pairs})
     /\ \A k \in 1..Len(pairs) : Sensible(Before(k), pairs[k][1], addAction, pairs[k][2])
     /\ Becomes(Before(Len(pairs) + 1), {})
     /\ UNCHANGED cmds

\* n_order places the first node at the target and each further one after the last.
NOrder(addAction, t, list) ==
  LET Move(ns, k) == IF k = 1 THEN Placed(Node_Remove(ns, list[1]), list[1], addAction, t)
                     ELSE Node_AddAfter(Node_Remove(ns, list[k]), list[k], list[k - 1])
      Before(k) == FoldLeft(Move, nodes, [j \in 1..(k - 1) |-> j])
  IN /\ Command("move", {t} \cup Range(list))
     /\ addAction \in {0, 1} => t \in KnownGroup
     /\ Sensible(nodes, list[1], addAction, t)
     /\ \A k \in 2..Len(list) : Sensible(Before(k), list[k], 3, list[k - 1])
     /\ Becomes(Before(Len(list) + 1), {})
     /\ UNCHANGED cmds

\* g_head and g_tail.
GInsert(addAction, g, n) ==
  /\ Command("move", {g, n}) /\ g \in KnownGroup
  /\ Sensible(nodes, n, addAction, g)
  /\ Becomes(Placed(Node_Remove(nodes, n), n, addAction, g), {})
  /\ UNCHANGED cmds

NRun(n, on) ==
  /\ Command("run", {n})
  /\ Becomes(Node_SetRun(nodes, n, on), {})
  /\ UNCHANGED cmds

\* n_trace; it does for a group what it does for a graph.
NTrace(n) ==
  /\ Command("trace", {n})
  /\ Becomes(Node_Trace(nodes, n), {})
  /\ UNCHANGED cmds

GDumpTree(g) ==
  /\ Command("trace", {g}) /\ g \in KnownGroup
  /\ Becomes(Group_DumpTree(nodes, g), {})
  /\ UNCHANGED cmds

\* Node_RemoveID, of a graph: a generated id replaces the one the client chose.
SNoid(n) ==
  /\ Command("noid", {n})
  /\ nodes[n].kind = "graph"
  /\ Becomes([nodes EXCEPT ![n].id = Hidden], {})
  /\ UNCHANGED cmds

\* A unit starts an asynchronous command, for a u_cmd or from its constructor or calc
\* function; Graph_HasParent must hold.
StartAsync(n) ==
  /\ "async" \in program.ops
  /\ nodes[n].kind = "graph" /\ nodes[n].parent # Nil
  /\ \/ stack = <<>> /\ nodes[n].calc \notin {"first", "nullFirst"}
     \/ stack # <<>> /\ Last(stack).node = n
  /\ cmds[n] < MaxCmds
  /\ cmds' = [cmds EXCEPT ![n] = @ + 1]
  /\ nodes' = [nodes EXCEPT ![n].refs = @ + 1]
  /\ UNCHANGED <<stack, called, ended, program>>

\* The command's destructor releases the graph.
FinishAsync(n) ==
  /\ stack = <<>> /\ "async" \in program.ops
  /\ cmds[n] > 0
  /\ cmds' = [cmds EXCEPT ![n] = @ - 1]
  /\ Becomes([nodes EXCEPT ![n] = IF @.refs = 1 THEN Gone ELSE [@ EXCEPT !.refs = @ - 1]], {})
  /\ UNCHANGED <<stack, called>>

-----------------------------------------------------------------------------
(* The traversal. *)

Frame(n) == [node |-> n, child |-> nodes[n].head, calc |-> nodes[n].calc]
Top == Last(stack)
InGraph == stack # <<>> /\ nodes[Top.node].kind = "graph"
InGroup == stack # <<>> /\ nodes[Top.node].kind = "group"

\* World_Run.  A top group whose function is another one does nothing.
WorldRun ==
  /\ stack = <<>>
  /\ nodes[Root].calc \in GroupCalc
  /\ stack' = <<Frame(Root)>>
  /\ called' = {Root}
  /\ Unchanged /\ UNCHANGED cmds

\* The group has taken the child that it will call next, and read that child's
\* mNext; a dump passes itself on to the groups it meets.
Calling(n) ==
  /\ InGroup /\ Top.child = n
  /\ called' = called \cup {n}
  /\ UNCHANGED cmds

Advanced == [stack EXCEPT ![Len(stack)].child = nodes[Top.child].next]

\* Mutant: a node that does nothing is taken for the end of the list.
CallNullStops(n) ==
  /\ Calling(n)
  /\ nodes[n].calc = "null"
  /\ stack' = [stack EXCEPT ![Len(stack)].child = Nil]
  /\ Unchanged

CallNull(n) ==
  /\ Calling(n)
  /\ nodes[n].calc = "null"
  /\ stack' = Advanced
  /\ Unchanged

\* Node_Delete as the calc function.
CallDelete(n) ==
  /\ Calling(n)
  /\ nodes[n].calc = "delete"
  /\ stack' = Advanced
  /\ Becomes(Node_Delete(nodes, n), {})

CallGraph(n) ==
  /\ Calling(n)
  /\ nodes[n].kind = "graph" /\ nodes[n].calc \notin {"null", "delete"}
  /\ stack' = Append(Advanced, Frame(n))
  /\ Unchanged

CallGroup(n) ==
  LET ns == IF Top.calc = "dump" THEN Group_DumpTree(nodes, n) ELSE nodes
  IN /\ Calling(n)
     /\ nodes[n].kind = "group" /\ nodes[n].calc \in GroupCalc
     /\ stack' = Append(Advanced, [Frame(n) EXCEPT !.calc = ns[n].calc])
     /\ Becomes(ns, {})

\* The last child has returned.  The functions that print install Group_Calc again.
GroupReturns ==
  /\ InGroup /\ Top.child = Nil
  /\ stack' = Front(stack)
  /\ called' = IF Len(stack) = 1 THEN {} ELSE called
  /\ IF Top.calc = "calc" THEN Unchanged
     ELSE Becomes([nodes EXCEPT ![Top.node].calc = "calc"], {})
  /\ UNCHANGED cmds

\* The constructors have run: Graph_FirstCalc installs Graph_Calc and calls it,
\* Graph_NullFirstCalc installs Node_NullCalc.
GraphConstructed ==
  /\ InGraph /\ Top.calc \in {"first", "nullFirst"}
  /\ LET calc == IF Top.calc = "first" THEN "calc" ELSE "null"
     IN /\ Becomes([nodes EXCEPT ![Top.node].calc = calc], {})
        /\ stack' = IF calc = "calc" THEN [stack EXCEPT ![Len(stack)].calc = "calc"]
                    ELSE Front(stack)
  /\ UNCHANGED <<cmds, called>>

\* Graph_Calc returns, or Graph_CalcTrace, which installs Graph_Calc again.
GraphReturns ==
  /\ InGraph /\ Top.calc \in {"calc", "trace"}
  /\ stack' = Front(stack)
  /\ IF Top.calc = "calc" THEN Unchanged
     ELSE Becomes([nodes EXCEPT ![Top.node].calc = "calc"], {})
  /\ UNCHANGED <<cmds, called>>

\* Units of the graph that is being calculated, or constructed.
UnitActs == InGraph /\ (Top.calc \in {"first", "nullFirst"} => "constructors" \in program.ops)
                    /\ UNCHANGED <<stack, called, cmds>>

DoneAction(a) ==
  /\ UnitActs
  /\ Becomes(Unit_DoneAction(nodes, Top.node, a), Promised(nodes, Top.node, a))

\* Free.kr and Pause.kr name any node by its id.
FreeUnit(n) ==
  /\ UnitActs /\ "plugins" \in program.ops /\ n \in Known
  /\ Becomes(Node_End(nodes, {n}), {n} \ {Root})

PauseUnit(n, on) ==
  /\ UnitActs /\ {"plugins", "run"} \subseteq program.ops /\ n \in Known
  /\ Becomes(Node_SetRun(nodes, n, on), {})
-----------------------------------------------------------------------------
Ids == {i \in Id : i <= program.ids} \cup {Hidden}
Lists == UNION {[1..k -> Node] : k \in 1..program.list}
Pairs == UNION {[1..k -> Node \X Node] : k \in 1..program.list}

Next ==
  \/ \E n \in Node, i \in Ids, addAction \in 0..4, t \in Node :
       \/ SNew(n, i, addAction, t)
       \/ GNew(n, i, addAction, t)
  \/ \E n \in Node :
       \/ NFree(n) \/ GFreeAll(n) \/ GDeepFree(n)
       \/ NTrace(n) \/ GDumpTree(n) \/ SNoid(n)
       \/ StartAsync(n) \/ FinishAsync(n)
       \/ CallNull(n) \/ CallDelete(n) \/ CallGraph(n) \/ CallGroup(n)
       \/ FreeUnit(n)
       \/ \E on \in BOOLEAN : NRun(n, on) \/ PauseUnit(n, on)
  \/ \E addAction \in {2, 3}, pairs \in Pairs : NMove(addAction, pairs)
  \/ \E addAction \in 0..3, t \in Node, list \in Lists : NOrder(addAction, t, list)
  \/ \E addAction \in {0, 1}, g \in Node, n \in Node : GInsert(addAction, g, n)
  \/ WorldRun \/ GroupReturns \/ GraphConstructed \/ GraphReturns
  \/ \E a \in program.actions : DoneAction(a)

Spec == Init /\ [][Next]_vars

-----------------------------------------------------------------------------
TypeOK ==
  /\ \A m \in Node :
       /\ nodes[m].kind \in {"free", "group", "graph"}
       /\ nodes[m].id \in Id \cup {RootId, Hidden}
       /\ nodes[m].calc \in GroupCalc \cup {"first", "nullFirst", "null", "delete"}
       /\ nodes[m].refs \in 0..(MaxCmds + 1)
       /\ \A link \in {"parent", "prev", "next", "head", "tail"} : nodes[m][link] \in Node \cup {Nil}
  /\ \A f \in Range(stack) : f.node \in Node /\ f.child \in Node \cup {Nil}
  /\ cmds \in [Node -> 0..MaxCmds]
  /\ called \subseteq Node /\ ended \subseteq Node

\* Every node the table knows can be reached from the top group, through groups,
\* and nothing else can: no id of an unreachable or freed node, no cycle.
LibIsTree == \A m \in Node : nodes[m].inLib <=> Root \in Chain(nodes, m, "parent")

\* A group's list, read from either end, holds exactly its children, and its links
\* agree in both directions, through every move and every deletion.
ListsSound ==
  \A m \in Node :
    /\ nodes[m].kind = "group" =>
         LET kids == {x \in Node : nodes[x].parent = m}
         IN /\ Children(nodes, m) = kids
            /\ nodes[m].tail = Nil <=> kids = {}
            /\ kids # {} => nodes[nodes[m].tail].next = Nil
    /\ nodes[m].kind # "group" => \A x \in Node : nodes[x].parent # m
    /\ nodes[m].next # Nil => nodes[nodes[m].next].prev = m
    /\ nodes[m].prev # Nil => nodes[nodes[m].prev].next = m

\* Whatever the units do while the tree is traversed, each group on the stack is the
\* parent of the next node on it, and the child it saved is still one of its
\* children: no freed node is called and no freed group is returned to.
SavedNextIsChild ==
  \A k \in 1..Len(stack) :
    /\ nodes[stack[k].node].kind # "free"
    /\ stack[k].child # Nil => nodes[stack[k].child].parent = stack[k].node
    /\ k > 1 => nodes[stack[k].node].parent = stack[k - 1].node

\* The tree, its lists and the traversal that walks it agree.
TreeSound == LibIsTree /\ ListsSound /\ SavedNextIsChild

\* A group calls its children in list order, each once: those that were called in
\* this block are those before the child it will call next.
CalledInOrder ==
  \A k \in 1..Len(stack) :
    nodes[stack[k].node].kind = "group" =>
      LET f == stack[k]
          left == IF f.child = Nil THEN {} ELSE Chain(nodes, f.child, "next")
      IN Children(nodes, f.node) \cap called = Children(nodes, f.node) \ left

\* A graph is kept while a command refers to it: its count is the number of its
\* commands, and one while it is in the tree.
RefsAreHolders ==
  \A m \in Node :
    nodes[m].kind = "graph" \/ cmds[m] > 0 =>
      nodes[m].refs = cmds[m] + (IF nodes[m].inLib THEN 1 ELSE 0) /\ nodes[m].refs > 0

\* The program neither pauses nor prints nodes, nor ends them while they are being
\* constructed or by freeing the group around them.
PlainEnds ==
  /\ program.ops \cap {"run", "trace", "constructors"} = {}
  /\ program.actions \cap {1, 9, 10, 14} = {}

\* A node that was asked to end is one that will be deleted when it, or a group
\* around it, is called next: the request is not forgotten, unless a later one to
\* pause or print the node, or the end of its constructors, takes its place.
EndIsKept ==
  PlainEnds =>
    \A m \in ended : \E a \in Chain(nodes, m, "parent") \ {Root} : nodes[a].calc = "delete"

=============================================================================
