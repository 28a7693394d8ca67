-------------------------- MODULE NodeGraphProofs --------------------------
(***************************************************************************)
(* Proofs that supernova's node tree, its counters, its reference counts   *)
(* and the dsp queue agree, and that no pending synth is deleted, for any  *)
(* number of synths and groups and any done actions.                       *)
(***************************************************************************)
EXTENDS NodeGraph, FiniteSetTheorems, SequenceTheorems, TLAPS

-----------------------------------------------------------------------------
(* Induction on numbers, with a set for the numbers that have the property *)

LEMMA NatSetInduction ==
  ASSUME NEW S, 0 \in S, \A i \in Nat : i \in S => i + 1 \in S
  PROVE  Nat \subseteq S
<1> SUFFICES ASSUME Nat \ S # {} PROVE FALSE
  OBVIOUS
<1> DEFINE others == Nat \ S
           less == {p \in Nat \X Nat : p[1] < p[2]}
<1>1. IsWellFoundedOn(less, Nat)
  BY ONLY NatLessThanWellFounded, Zenon DEF OpToRel
<1>2. \A j, k \in Nat : <<k, j>> \notin less => j <= k
  OBVIOUS
<1>3. others \subseteq Nat /\ others # {}
  OBVIOUS
<1> HIDE DEF less, others
<1>4. PICK j \in others : \A k \in others : <<k, j>> \notin less
  BY ONLY <1>1, <1>3, WFMin
<1>5. j \in Nat /\ \A k \in others : j <= k
  BY <1>2, <1>3, <1>4
<1>6. j # 0 /\ j \notin S
  BY <1>4 DEF others
<1>7. j - 1 \in Nat /\ (j - 1) + 1 = j /\ ~(j <= j - 1)
  BY <1>5, <1>6
<1>8. j - 1 \in S
  BY <1>5, <1>7 DEF others
<1> QED
  BY <1>6, <1>7, <1>8

-----------------------------------------------------------------------------
(* What a subtree is: the least set of nodes that has the node and, with a *)
(* group, its children                                                     *)

Closed(children, S) == \A g \in S \cap Group : ToSet(children[g]) \subseteq S

IsLevels(f, children, n, last) ==
  f = [k \in 0..last |-> IF k = 0 THEN {n} ELSE WithChildren(children, f[k - 1])]

LEMMA LevelsExist ==
  ASSUME NEW children, NEW n
  PROVE  \A last \in Nat : \E f : IsLevels(f, children, n, last)
<1> DEFINE S == {last \in Nat : \E f : IsLevels(f, children, n, last)}
<1>1. 0 \in S
  <2> DEFINE f == [k \in 0..0 |-> {n}]
  <2>1. f = [k \in 0..0 |-> IF k = 0 THEN {n} ELSE WithChildren(children, f[k - 1])]
    OBVIOUS
  <2> HIDE DEF f
  <2> QED
    BY <2>1 DEF IsLevels
<1>2. ASSUME NEW i \in Nat, i \in S PROVE i + 1 \in S
  <2>1. PICK f : IsLevels(f, children, n, i)
    BY <1>2
  <2> DEFINE above == WithChildren(children, f[i])
             h == [k \in 0..(i + 1) |-> IF k = i + 1 THEN above ELSE f[k]]
  <2>2. f = [k \in 0..i |-> IF k = 0 THEN {n} ELSE WithChildren(children, f[k - 1])]
    BY <2>1 DEF IsLevels
  <2>3. \A k \in 0..i : f[k] = IF k = 0 THEN {n} ELSE WithChildren(children, f[k - 1])
    BY <2>2
  <2>4. /\ h = [k \in 0..(i + 1) |-> h[k]]
        /\ h[i + 1] = WithChildren(children, f[i])
        /\ \A k \in 0..i : h[k] = f[k]
    OBVIOUS
  <2> HIDE DEF h
  <2>5. ASSUME NEW k \in 0..(i + 1)
        PROVE  h[k] = IF k = 0 THEN {n} ELSE WithChildren(children, h[k - 1])
    <3>1. CASE k = i + 1
      <4>1. k # 0 /\ k - 1 = i /\ i \in 0..i
        BY <3>1
      <4> QED
        BY <4>1, <3>1, <2>4
    <3>2. CASE k # i + 1 /\ k # 0
      <4>1. k \in 0..i /\ k - 1 \in 0..i
        BY <3>2
      <4> QED
        BY <4>1, <3>2, <2>3, <2>4
    <3>3. CASE k = 0
      <4>1. k \in 0..i /\ k # i + 1
        BY <3>3
      <4> QED
        BY <4>1, <3>3, <2>3, <2>4
    <3> QED
      BY <3>1, <3>2, <3>3
  <2>6. h = [k \in 0..(i + 1) |-> IF k = 0 THEN {n} ELSE WithChildren(children, h[k - 1])]
    BY <2>4, <2>5
  <2>7. IsLevels(h, children, n, i + 1)
    BY <2>6 DEF IsLevels
  <2> QED
    BY <2>7
<1> HIDE DEF S
<1>3. Nat \subseteq S
  BY <1>1, <1>2, NatSetInduction
<1> QED
  BY <1>3 DEF S

\* The levels that Under goes through, for a group.
Levels(children, n) == CHOOSE f : IsLevels(f, children, n, Cardinality(Group))

LEMMA UnderIsLevel ==
  ASSUME NEW children, NEW n, n \in Group
  PROVE  /\ Levels(children, n)[0] = {n}
         /\ Under(children, n) = Levels(children, n)[Cardinality(Group)]
         /\ \A k \in Nat : k < Cardinality(Group) =>
              Levels(children, n)[k + 1] = WithChildren(children, Levels(children, n)[k])
<1> DEFINE N == Cardinality(Group)
           f == Levels(children, n)
<1>1. N \in Nat
  BY FS_CardinalityType, NodeAssumption
<1>2. Under(children, n) = f[N]
  BY DEF Under, IsLevels, Levels
<1>3. IsLevels(f, children, n, N)
  BY <1>1, LevelsExist DEF Levels
<1> HIDE DEF f, N
<1>4. \A k \in 0..N : f[k] = IF k = 0 THEN {n} ELSE WithChildren(children, f[k - 1])
  BY <1>3 DEF IsLevels
<1>5. f[0] = {n}
  BY <1>1, <1>4
<1>6. ASSUME NEW k \in Nat, k < N PROVE f[k + 1] = WithChildren(children, f[k])
  <2>1. k + 1 \in 0..N /\ k + 1 # 0 /\ (k + 1) - 1 = k
    BY <1>1, <1>6
  <2> QED
    BY <2>1, <1>4
<1> QED
  BY <1>2, <1>5, <1>6 DEF N, f

LEMMA UnderLeast ==
  ASSUME NEW children, NEW n, NEW T, n \in T, Closed(children, T)
  PROVE  Under(children, n) \subseteq T
<1>1. CASE n \notin Group
  BY <1>1 DEF Under
<1>2. CASE n \in Group
  <2> DEFINE N == Cardinality(Group)
  <2>1. N \in Nat
    BY FS_CardinalityType, NodeAssumption
  <2> DEFINE f == Levels(children, n)
  <2>2. /\ f[0] = {n} /\ Under(children, n) = f[N]
        /\ \A k \in Nat : k < N => f[k + 1] = WithChildren(children, f[k])
    BY <1>2, UnderIsLevel
  <2> HIDE DEF N, f
  <2> DEFINE S == {k \in Nat : k <= N => f[k] \subseteq T}
  <2>3. 0 \in S
    BY <2>2
  <2>4. ASSUME NEW k \in Nat, k \in S PROVE k + 1 \in S
    <3>1. SUFFICES ASSUME k + 1 <= N PROVE f[k + 1] \subseteq T
      OBVIOUS
    <3>2. k < N /\ k <= N
      BY <3>1, <2>1
    <3>3. f[k] \subseteq T /\ f[k + 1] = WithChildren(children, f[k])
      BY <3>2, <2>2, <2>4
    <3> QED
      BY <3>3 DEF WithChildren, Closed
  <2> HIDE DEF S
  <2>5. N \in S
    BY <2>1, <2>3, <2>4, NatSetInduction
  <2>6. f[N] \subseteq T
    BY <2>1, <2>5 DEF S
  <2> QED
    BY ONLY <2>6, <2>2
<1> QED
  BY <1>1, <1>2

LEMMA UnderClosed ==
  ASSUME NEW children, NEW n \in Node
  PROVE  n \in Under(children, n) /\ Closed(children, Under(children, n))
<1>1. CASE n \notin Group
  BY <1>1 DEF Under, Closed
<1>2. CASE n \in Group
  <2>1. Cardinality(Group) \in Nat
    BY FS_CardinalityType, NodeAssumption
  <2> DEFINE N == Cardinality(Group)
             f == Levels(children, n)
  <2>2. N \in Nat
    BY <2>1
  <2>3. /\ f[0] = {n} /\ Under(children, n) = f[N]
        /\ \A k \in Nat : k < N => f[k + 1] = WithChildren(children, f[k])
    BY <1>2, UnderIsLevel
  <2> HIDE DEF N, f
  <2> DEFINE Full(k) == /\ n \in f[k]
                        /\ Closed(children, f[k]) \/ Cardinality(f[k] \cap Group) >= k + 1
             S == {k \in Nat : k <= N => Full(k)}
  <2>4. \A k \in Nat : IsFiniteSet(f[k] \cap Group) /\ Cardinality(f[k] \cap Group) \in Nat
    BY FS_Intersection, FS_CardinalityType, NodeAssumption
  <2>5. 0 \in S
    <3>1. {n} \cap Group = {n}
      BY <1>2
    <3>2. Cardinality(f[0] \cap Group) = 1 /\ n \in f[0]
      BY <3>1, <2>3, FS_Singleton
    <3>3. Full(0)
      BY <3>2
    <3> HIDE DEF Full
    <3> QED
      BY <3>3
  <2>6. ASSUME NEW k \in Nat, k \in S PROVE k + 1 \in S
    <3>1. SUFFICES ASSUME k + 1 <= N PROVE Full(k + 1)
      OBVIOUS
    <3>2. k < N /\ k <= N
      BY ONLY <3>1, <2>2, k \in Nat
    <3>3. Full(k) /\ f[k + 1] = WithChildren(children, f[k])
      BY <3>2, <2>3, <2>6
    <3>4. n \in f[k + 1]
      BY <3>3 DEF WithChildren
    <3>5. CASE Closed(children, f[k])
      BY <3>3, <3>4, <3>5 DEF Closed, WithChildren
    <3>6. CASE Cardinality(f[k] \cap Group) >= k + 1 /\ f[k + 1] \cap Group = f[k] \cap Group
      <4>1. Closed(children, f[k + 1])
        BY <3>3, <3>6 DEF Closed, WithChildren
      <4> QED
        BY <4>1, <3>4
    <3>7. CASE Cardinality(f[k] \cap Group) >= k + 1 /\ f[k + 1] \cap Group # f[k] \cap Group
      <4> DEFINE A == f[k] \cap Group
                 B == f[k + 1] \cap Group
      <4>1. A \subseteq B
        BY <3>3 DEF WithChildren
      <4>2. IsFiniteSet(B) /\ Cardinality(A) \in Nat /\ Cardinality(B) \in Nat
        <5>1. k + 1 \in Nat
          OBVIOUS
        <5> QED
          BY <5>1, <2>4
      <4>3. Cardinality(A) >= k + 1 /\ A # B
        BY <3>7
      <4> HIDE DEF A, B
      <4>4. Cardinality(A) <= Cardinality(B) /\ Cardinality(A) # Cardinality(B)
        BY <4>1, <4>2, <4>3, FS_Subset
      <4>5. Cardinality(B) >= (k + 1) + 1
        BY ONLY <4>2, <4>3, <4>4, k \in Nat
      <4> QED
        BY <4>5, <3>4 DEF B
    <3> QED
      BY <3>3, <3>5, <3>6, <3>7
  <2> HIDE DEF S
  <2>7. N \in S
    BY <2>2, <2>5, <2>6, NatSetInduction
  <2>8. Full(N)
    BY <2>2, <2>7 DEF S
  <2>9. Cardinality(f[N] \cap Group) <= N
    BY FS_Subset, NodeAssumption DEF N
  <2>10. ~(Cardinality(f[N] \cap Group) >= N + 1)
    BY ONLY <2>2, <2>4, <2>9
  <2> QED
    BY <2>3, <2>8, <2>10
<1> QED
  BY <1>1, <1>2

LEMMA UnderNodes ==
  ASSUME NEW children \in [Group -> Seq(Node)], NEW n \in Node
  PROVE  Under(children, n) \subseteq Node
<1>1. Closed(children, Node)
  BY DEF Closed, ToSet
<1> QED
  BY <1>1, UnderLeast

LEMMA UnderTwice ==
  ASSUME NEW children, NEW n \in Node, NEW m \in Under(children, n)
  PROVE  Under(children, m) \subseteq Under(children, n)
BY UnderClosed, UnderLeast

(* Whatever is under a node is the node or a child of a group under it.    *)
LEMMA UnderIsChild ==
  ASSUME NEW children, NEW n \in Node, NEW m \in Under(children, n), m # n
  PROVE  \E g \in Under(children, n) \cap Group : m \in ToSet(children[g])
<1> DEFINE U == Under(children, n)
           T == {x \in U : x = n \/ \E g \in U \cap Group : x \in ToSet(children[g])}
<1>1. n \in U /\ Closed(children, U)
  BY UnderClosed
<1> HIDE DEF U
<1>2. n \in T /\ Closed(children, T)
  BY <1>1 DEF Closed
<1> HIDE DEF T
<1>3. U \subseteq T
  BY ONLY <1>2, UnderLeast DEF U
<1> QED
  BY <1>3 DEF T, U

(* Fewer children, less under a node.                                      *)
LEMMA UnderFewer ==
  ASSUME NEW children, NEW fewer, NEW n \in Node,
         \A g \in Group : ToSet(fewer[g]) \subseteq ToSet(children[g])
  PROVE  Under(fewer, n) \subseteq Under(children, n)
<1>1. n \in Under(children, n) /\ Closed(children, Under(children, n))
  BY UnderClosed
<1>2. Closed(fewer, Under(children, n))
  BY <1>1 DEF Closed
<1> QED
  BY <1>1, <1>2, UnderLeast

LEMMA UnderSame ==
  ASSUME NEW children, NEW same, NEW n \in Node,
         \A g \in Group : ToSet(same[g]) = ToSet(children[g])
  PROVE  Under(same, n) = Under(children, n)
<1>1. Under(same, n) \subseteq Under(children, n)
  BY UnderFewer
<1>2. Under(children, n) \subseteq Under(same, n)
  BY UnderFewer
<1> QED
  BY <1>1, <1>2

(* A node without children has nothing under it.                           *)
LEMMA UnderEmpty ==
  ASSUME NEW children, NEW n \in Node, n \in Group => ToSet(children[n]) = {}
  PROVE  Under(children, n) = {n}
<1>1. Closed(children, {n})
  BY DEF Closed
<1>2. Under(children, n) \subseteq {n}
  BY <1>1, UnderLeast
<1> QED
  BY <1>2, UnderClosed

(* Following children never comes back.                                    *)
Acyclic(children) ==
  \A g \in Group : \A m \in ToSet(children[g]) : g \notin Under(children, m)

(* It stays so when a group g is given a child n with nothing under it     *)
(* that has g under it.                                                    *)
LEMMA GraftAcyclic ==
  ASSUME NEW children \in [Group -> Seq(Node)], NEW grown \in [Group -> Seq(Node)],
         NEW g \in Group, NEW n \in Node,
         \A h \in Group : ToSet(grown[h]) \subseteq
                            (ToSet(children[h]) \cup (IF h = g THEN {n} ELSE {})),
         Acyclic(children), g \notin Under(children, n)
  PROVE  Acyclic(grown)
<1>1. ASSUME NEW x \in Node, g \notin Under(children, x)
      PROVE  Under(grown, x) \subseteq Under(children, x)
  <2>1. x \in Under(children, x) /\ Closed(children, Under(children, x))
    BY UnderClosed
  <2>2. Closed(grown, Under(children, x))
    BY <1>1, <2>1 DEF Closed
  <2> QED
    BY <2>1, <2>2, UnderLeast
<1>2. ASSUME NEW x \in Node
      PROVE  Under(grown, x) \subseteq (Under(children, x) \cup Under(children, n))
  <2> DEFINE T == Under(children, x) \cup Under(children, n)
  <2>1. /\ x \in Under(children, x) /\ Closed(children, Under(children, x))
        /\ n \in Under(children, n) /\ Closed(children, Under(children, n))
    BY UnderClosed
  <2>2. x \in T /\ Closed(grown, T)
    BY <2>1 DEF Closed
  <2> HIDE DEF T
  <2>3. Under(grown, x) \subseteq T
    BY <2>2, UnderLeast
  <2> QED
    BY <2>3 DEF T
<1> SUFFICES ASSUME NEW h \in Group, NEW m \in ToSet(grown[h]) PROVE h \notin Under(grown, m)
  BY DEF Acyclic
<1>3. m \in Node
  BY DEF ToSet
<1>4. CASE m = n /\ h = g
  BY <1>1, <1>3, <1>4
<1>5. CASE m \in ToSet(children[h]) /\ g \notin Under(children, m)
  BY <1>1, <1>3, <1>5 DEF Acyclic
<1>6. CASE m \in ToSet(children[h]) /\ g \in Under(children, m)
  <2>1. h \notin Under(children, m)
    BY <1>6 DEF Acyclic
  <2>2. h \notin Under(children, n)
    <3>1. SUFFICES ASSUME h \in Under(children, n) PROVE FALSE
      OBVIOUS
    <3>2. m \in Under(children, n)
      BY <3>1, <1>6, UnderClosed DEF Closed
    <3>3. g \in Under(children, n)
      BY <3>2, <1>6, UnderTwice
    <3> QED
      BY <3>3
  <2> QED
    BY <2>1, <2>2, <1>2, <1>3
<1> QED
  BY <1>4, <1>5, <1>6

LEMMA PruneAcyclic ==
  ASSUME NEW children, NEW fewer \in [Group -> Seq(Node)],
         \A h \in Group : ToSet(fewer[h]) \subseteq ToSet(children[h]), Acyclic(children)
  PROVE  Acyclic(fewer)
<1> SUFFICES ASSUME NEW h \in Group, NEW m \in ToSet(fewer[h]) PROVE h \notin Under(fewer, m)
  BY DEF Acyclic
<1>1. m \in Node /\ m \in ToSet(children[h])
  BY DEF ToSet
<1>2. h \notin Under(children, m)
  BY <1>1 DEF Acyclic
<1> QED
  BY <1>1, <1>2, UnderFewer

(* A new group without children adds itself and nothing else.              *)
LEMMA GraftSynths ==
  ASSUME NEW children \in [Group -> Seq(Node)], NEW grown \in [Group -> Seq(Node)],
         NEW g \in Group, NEW n \in Group, n # g, n # Root,
         \A h \in Group : ToSet(grown[h]) =
                            (ToSet(children[h]) \cup (IF h = g THEN {n} ELSE {})),
         \A h \in Group : n \notin ToSet(children[h]),
         ToSet(children[n]) = {}
  PROVE  Under(grown, Root) \cap Synth = Under(children, Root) \cap Synth
<1>0. Root \in Node /\ Synth \cap Group = {}
  BY NodeAssumption DEF Node
<1> DEFINE U == Under(children, Root)
           V == Under(grown, Root)
<1>1. Root \in U /\ Closed(children, U) /\ Root \in V /\ Closed(grown, V)
  BY <1>0, UnderClosed
<1> HIDE DEF U, V
<1>2. V \subseteq (U \cup {n})
  <2> DEFINE T == U \cup {n}
  <2>1. Root \in T /\ Closed(grown, T)
    BY <1>1 DEF Closed
  <2> HIDE DEF T
  <2>2. V \subseteq T
    BY <2>1, UnderLeast DEF V
  <2> QED
    BY <2>2 DEF T
<1>3. U \subseteq V
  <2> DEFINE T == V \ {n}
  <2>1. Root \in T /\ Closed(children, T)
    BY <1>1 DEF Closed
  <2> HIDE DEF T
  <2>2. U \subseteq T
    BY <2>1, UnderLeast DEF U
  <2> QED
    BY <2>2 DEF T
<1> QED
  BY <1>0, <1>2, <1>3 DEF U, V

-----------------------------------------------------------------------------
(* The lists of children: s has the nodes of S, each of them once          *)

Lists(s, S) == s \in Seq(Node) /\ IsInjective(s) /\ ToSet(s) = S

LEMMA ListsSubset ==
  ASSUME NEW s, NEW S, Lists(s, S)
  PROVE  S \subseteq Node
BY DEF Lists, ToSet

LEMMA ListsNothing == ASSUME NEW s, s = << >> PROVE Lists(s, {})
BY DEF Lists, ToSet, IsInjective

LEMMA ListsElements ==
  ASSUME NEW s, NEW S, Lists(s, S)
  PROVE  /\ Len(s) \in Nat /\ DOMAIN s = 1..Len(s)
         /\ \A k \in 1..Len(s) : s[k] \in S
         /\ \A j, k \in 1..Len(s) : s[j] = s[k] => j = k
         /\ \A m \in S : \E k \in 1..Len(s) : s[k] = m
BY DEF Lists, ToSet, IsInjective

(* A list t of one more: s with n put in at place i.                       *)
LEMMA ListsGrow ==
  ASSUME NEW s, NEW S, Lists(s, S), NEW n \in Node, n \notin S,
         NEW i \in 1..(Len(s) + 1), NEW t \in Seq(Node),
         Len(t) = Len(s) + 1,
         \A k \in 1..(Len(s) + 1) :
           t[k] = IF k < i THEN s[k] ELSE IF k = i THEN n ELSE s[k - 1]
  PROVE  Lists(t, S \cup {n})
<1>1. /\ Len(s) \in Nat /\ DOMAIN t = 1..(Len(s) + 1)
      /\ \A k \in 1..Len(s) : s[k] \in S
      /\ \A j, k \in 1..Len(s) : s[j] = s[k] => j = k
      /\ \A m \in S : \E k \in 1..Len(s) : s[k] = m
  BY ListsElements
<1> DEFINE from(k) == IF k < i THEN k ELSE k - 1
<1>2. \A k \in 1..(Len(s) + 1) : k # i => from(k) \in 1..Len(s) /\ t[k] = s[from(k)]
  BY <1>1
<1>3. \A j, k \in 1..(Len(s) + 1) : (j # i /\ k # i /\ from(j) = from(k)) => j = k
  BY <1>1
<1>4. \A k \in 1..Len(s) : \E j \in 1..(Len(s) + 1) : j # i /\ from(j) = k
  <2> SUFFICES ASSUME NEW k \in 1..Len(s)
               PROVE  \E j \in 1..(Len(s) + 1) : j # i /\ from(j) = k
    OBVIOUS
  <2>1. CASE k < i
    BY <2>1, <1>1
  <2>2. CASE ~(k < i)
    <3>1. k + 1 \in 1..(Len(s) + 1) /\ k + 1 # i /\ from(k + 1) = k
      BY <2>2, <1>1
    <3> QED
      BY <3>1
  <2> QED
    BY <2>1, <2>2
<1>5. t[i] = n /\ i \in 1..(Len(s) + 1)
  BY <1>1
<1> HIDE DEF from
<1>6. IsInjective(t)
  <2> SUFFICES ASSUME NEW j \in 1..(Len(s) + 1), NEW k \in 1..(Len(s) + 1), t[j] = t[k]
               PROVE  j = k
    BY <1>1 DEF IsInjective
  <2>0. t[j] = t[k] /\ n \notin S
    OBVIOUS
  <2>1. CASE j # i /\ k # i
    <3>1. /\ from(j) \in 1..Len(s) /\ t[j] = s[from(j)]
          /\ from(k) \in 1..Len(s) /\ t[k] = s[from(k)]
      BY ONLY <2>1, <1>2
    <3>2. from(j) = from(k)
      BY ONLY <3>1, <2>0, <1>1
    <3> QED
      BY ONLY <3>2, <2>1, <1>3
  <2>2. CASE j = i /\ k # i
    <3>1. t[k] \in S
      BY ONLY <2>2, <1>1, <1>2
    <3> QED
      BY ONLY <3>1, <2>0, <2>2, <1>5
  <2>3. CASE j # i /\ k = i
    <3>1. t[j] \in S
      BY ONLY <2>3, <1>1, <1>2
    <3> QED
      BY ONLY <3>1, <2>0, <2>3, <1>5
  <2> QED
    BY <2>1, <2>2, <2>3
<1>7. ToSet(t) \subseteq S \cup {n}
  BY <1>1, <1>2, <1>5 DEF ToSet
<1>8. S \subseteq ToSet(t)
  <2> SUFFICES ASSUME NEW m \in S PROVE m \in ToSet(t)
    OBVIOUS
  <2>1. PICK k \in 1..Len(s) : s[k] = m
    BY <1>1
  <2>2. PICK j \in 1..(Len(s) + 1) : j # i /\ from(j) = k
    BY <1>4
  <2>3. t[j] = m
    BY <2>1, <2>2, <1>2
  <2> QED
    BY <2>3, <1>1 DEF ToSet
<1>9. n \in ToSet(t)
  BY <1>1, <1>5 DEF ToSet
<1> QED
  BY <1>6, <1>7, <1>8, <1>9 DEF Lists

LEMMA ListsAppend ==
  ASSUME NEW s, NEW S, Lists(s, S), NEW n \in Node, n \notin S
  PROVE  Lists(Append(s, n), S \cup {n})
<1>1. s \in Seq(Node) /\ Len(s) \in Nat
  BY ListsElements DEF Lists
<1> DEFINE t == Append(s, n)
           i == Len(s) + 1
<1>2. /\ t \in Seq(Node) /\ Len(t) = Len(s) + 1
      /\ t[Len(s) + 1] = n /\ \A k \in 1..Len(s) : t[k] = s[k]
  BY <1>1
<1> HIDE DEF t
<1>3. i \in 1..(Len(s) + 1)
  BY <1>1
<1>4. \A k \in 1..(Len(s) + 1) :
        t[k] = IF k < i THEN s[k] ELSE IF k = i THEN n ELSE s[k - 1]
  BY <1>1, <1>2
<1>5. t \in Seq(Node) /\ Len(t) = Len(s) + 1
  BY <1>2
<1> HIDE DEF i
<1>6. Lists(t, S \cup {n})
  BY <1>3, <1>4, <1>5, ListsGrow
<1> QED
  BY <1>6 DEF t

LEMMA ListsInsert ==
  ASSUME NEW s, NEW S, Lists(s, S), NEW n \in Node, n \notin S,
         NEW i \in 1..(Len(s) + 1)
  PROVE  Lists(InsertAt(s, i, n), S \cup {n})
<1>1. s \in Seq(Node) /\ Len(s) \in Nat
  BY ListsElements DEF Lists
<1> DEFINE a == SubSeq(s, 1, i - 1)
           b == SubSeq(s, i, Len(s))
           c == a \o <<n>>
           t == c \o b
<1>2. i \in Nat /\ 1 <= i /\ i <= Len(s) + 1
  BY <1>1
<1>3. a \in Seq(Node) /\ Len(a) = i - 1 /\ \A k \in 1..(i - 1) : a[k] = s[k]
  BY <1>1, <1>2
<1>4. /\ b \in Seq(Node) /\ Len(b) = (Len(s) + 1) - i
      /\ \A k \in 1..((Len(s) + 1) - i) : b[k] = s[(i + k) - 1]
  <2>1. \A k \in i..Len(s) : s[k] \in Node
    BY <1>1, <1>2
  <2>2. /\ b \in Seq(Node)
        /\ Len(b) = IF i <= Len(s) THEN Len(s) - i + 1 ELSE 0
        /\ \A k \in 1..(Len(s) - i + 1) : b[k] = s[i + k - 1]
    BY <1>1, <1>2, <2>1, SubSeqProperties
  <2> HIDE DEF b
  <2>3. Len(b) = (Len(s) + 1) - i /\ Len(s) - i + 1 = (Len(s) + 1) - i
    BY <2>2, <1>1, <1>2
  <2> QED
    BY <2>2, <2>3
<1>5. <<n>> \in Seq(Node) /\ Len(<<n>>) = 1 /\ <<n>>[1] = n
  OBVIOUS
<1> HIDE DEF a, b
<1>6. c \in Seq(Node) /\ Len(c) = i
      /\ \A k \in 1..i : c[k] = IF k < i THEN s[k] ELSE n
  <2>1. /\ c \in Seq(Node) /\ Len(c) = Len(a) + 1
        /\ \A k \in 1..(Len(a) + 1) : c[k] = IF k <= Len(a) THEN a[k] ELSE <<n>>[k - Len(a)]
    BY <1>3, <1>5, ConcatProperties
  <2>2. Len(a) + 1 = i
    BY ONLY <1>2, <1>3
  <2> HIDE DEF c
  <2>3. ASSUME NEW k \in 1..i PROVE c[k] = IF k < i THEN s[k] ELSE n
    <3>1. CASE k < i
      <4>1. k \in 1..(i - 1) /\ k <= Len(a)
        BY <3>1, <1>2, <1>3
      <4> QED
        BY <3>1, <4>1, <2>1, <2>2, <1>3
    <3>2. CASE k = i
      <4>1. ~(k <= Len(a)) /\ k - Len(a) = 1
        BY <3>2, <1>2, <1>3
      <4> QED
        BY <3>2, <4>1, <2>1, <2>2, <1>5
    <3> QED
      BY <3>1, <3>2, <1>2
  <2> QED
    BY <2>1, <2>2, <2>3
<1> HIDE DEF c
<1>7. /\ t \in Seq(Node) /\ Len(t) = Len(s) + 1
      /\ \A k \in 1..(Len(s) + 1) : t[k] = IF k < i THEN s[k] ELSE IF k = i THEN n ELSE s[k - 1]
  <2>1. /\ t \in Seq(Node) /\ Len(t) = Len(c) + Len(b)
        /\ \A k \in 1..(Len(c) + Len(b)) : t[k] = IF k <= Len(c) THEN c[k] ELSE b[k - Len(c)]
    BY <1>4, <1>6, ConcatProperties
  <2>2. Len(c) + Len(b) = Len(s) + 1
    BY ONLY <1>1, <1>2, <1>4, <1>6
  <2> HIDE DEF t
  <2>3. ASSUME NEW k \in 1..(Len(s) + 1)
        PROVE  t[k] = IF k < i THEN s[k] ELSE IF k = i THEN n ELSE s[k - 1]
    <3>1. CASE k <= i
      <4>1. k \in 1..i /\ k <= Len(c)
        BY <3>1, <1>2, <1>6
      <4>2. t[k] = c[k]
        BY <4>1, <2>1, <2>2
      <4> QED
        BY <3>1, <4>1, <4>2, <1>2, <1>6
    <3>2. CASE ~(k <= i)
      <4>1. k - i \in 1..((Len(s) + 1) - i) /\ ~(k <= Len(c)) /\ (i + (k - i)) - 1 = k - 1
        BY <3>2, <1>1, <1>2, <1>6
      <4>2. t[k] = b[k - i]
        BY <4>1, <2>1, <2>2, <1>6
      <4>3. b[k - i] = s[k - 1]
        BY <4>1, <1>4
      <4>4. ~(k < i) /\ k # i
        BY <3>2, <1>2
      <4> QED
        BY <4>2, <4>3, <4>4
    <3> QED
      BY <3>1, <3>2
  <2> QED
    BY <2>1, <2>2, <2>3
<1>8. InsertAt(s, i, n) = t
  BY DEF InsertAt, t, c, a, b
<1> HIDE DEF t
<1> QED
  BY <1>7, <1>8, ListsGrow

LEMMA ListsInFront ==
  ASSUME NEW s, NEW S, Lists(s, S), NEW n \in Node, n \notin S
  PROVE  Lists(<<n>> \o s, S \cup {n})
<1>1. s \in Seq(Node) /\ Len(s) \in Nat
  BY ListsElements DEF Lists
<1> DEFINE t == <<n>> \o s
<1>2. <<n>> \in Seq(Node) /\ Len(<<n>>) = 1 /\ <<n>>[1] = n
  OBVIOUS
<1>3. /\ t \in Seq(Node) /\ Len(t) = 1 + Len(s)
      /\ \A k \in 1..(1 + Len(s)) : t[k] = IF k <= 1 THEN <<n>>[k] ELSE s[k - 1]
  BY <1>1, <1>2, ConcatProperties
<1> HIDE DEF t
<1>4. Len(t) = Len(s) + 1 /\ 1 \in 1..(Len(s) + 1)
  BY <1>1, <1>3
<1>5. \A k \in 1..(Len(s) + 1) : t[k] = IF k < 1 THEN s[k] ELSE IF k = 1 THEN n ELSE s[k - 1]
  BY <1>1, <1>2, <1>3
<1>6. Lists(t, S \cup {n})
  BY <1>3, <1>4, <1>5, ListsGrow
<1> QED
  BY <1>6 DEF t

LEMMA ListsReplace ==
  ASSUME NEW s, NEW S, Lists(s, S), NEW n \in Node, n \notin S, NEW i \in 1..Len(s)
  PROVE  Lists(ReplaceAt(s, i, n), (S \ {s[i]}) \cup {n})
<1>1. /\ s \in Seq(Node) /\ Len(s) \in Nat
      /\ \A k \in 1..Len(s) : s[k] \in S
      /\ \A j, k \in 1..Len(s) : s[j] = s[k] => j = k
      /\ \A m \in S : \E k \in 1..Len(s) : s[k] = m
  BY ListsElements DEF Lists
<1> DEFINE t == ReplaceAt(s, i, n)
<1>2. /\ t \in Seq(Node) /\ DOMAIN t = 1..Len(s)
      /\ \A k \in 1..Len(s) : t[k] = IF k = i THEN n ELSE s[k]
  BY <1>1, ExceptSeq DEF ReplaceAt
<1> HIDE DEF t
<1>3. IsInjective(t)
  BY <1>1, <1>2 DEF IsInjective
<1>4. ToSet(t) \subseteq (S \ {s[i]}) \cup {n}
  BY <1>1, <1>2 DEF ToSet
<1>5. (S \ {s[i]}) \subseteq ToSet(t)
  <2> SUFFICES ASSUME NEW m \in S, m # s[i] PROVE m \in ToSet(t)
    OBVIOUS
  <2>1. PICK k \in 1..Len(s) : s[k] = m
    BY <1>1
  <2>2. t[k] = m
    BY <2>1, <1>2
  <2> QED
    BY <2>2, <1>2 DEF ToSet
<1>6. n \in ToSet(t)
  BY <1>2 DEF ToSet
<1>7. Lists(t, (S \ {s[i]}) \cup {n})
  BY <1>2, <1>3, <1>4, <1>5, <1>6 DEF Lists
<1> QED
  BY <1>7 DEF t

-----------------------------------------------------------------------------
(* The lists that are built element by element: Without and AddAll         *)

KeptStep(l, n, F) == IF n \in F THEN l ELSE Append(l, n)

IsKept(f, s, F, last) ==
  f = [i \in 0..last |-> IF i = 0 THEN << >> ELSE KeptStep(f[i - 1], s[i], F)]

LEMMA KeptExist ==
  ASSUME NEW s, NEW F
  PROVE  \A last \in Nat : \E f : IsKept(f, s, F, last)
<1> DEFINE S == {last \in Nat : \E f : IsKept(f, s, F, last)}
<1>1. 0 \in S
  <2> DEFINE f == [k \in 0..0 |-> << >>]
  <2>1. f = [k \in 0..0 |-> IF k = 0 THEN << >> ELSE KeptStep(f[k - 1], s[k], F)]
    OBVIOUS
  <2> HIDE DEF f
  <2> QED
    BY <2>1 DEF IsKept
<1>2. ASSUME NEW i \in Nat, i \in S PROVE i + 1 \in S
  <2>1. PICK f : IsKept(f, s, F, i)
    BY <1>2
  <2> DEFINE more == KeptStep(f[i], s[i + 1], F)
             h == [k \in 0..(i + 1) |-> IF k = i + 1 THEN more ELSE f[k]]
  <2>2. f = [k \in 0..i |-> IF k = 0 THEN << >> ELSE KeptStep(f[k - 1], s[k], F)]
    BY <2>1 DEF IsKept
  <2>3. \A k \in 0..i : f[k] = IF k = 0 THEN << >> ELSE KeptStep(f[k - 1], s[k], F)
    BY <2>2
  <2>4. /\ h = [k \in 0..(i + 1) |-> h[k]]
        /\ h[i + 1] = KeptStep(f[i], s[i + 1], F)
        /\ \A k \in 0..i : h[k] = f[k]
    OBVIOUS
  <2> HIDE DEF h
  <2>5. ASSUME NEW k \in 0..(i + 1)
        PROVE  h[k] = IF k = 0 THEN << >> ELSE KeptStep(h[k - 1], s[k], F)
    <3>1. CASE k = i + 1
      <4>1. k # 0 /\ k - 1 = i /\ i \in 0..i
        BY <3>1
      <4> QED
        BY <4>1, <3>1, <2>4
    <3>2. CASE k # i + 1 /\ k # 0
      <4>1. k \in 0..i /\ k - 1 \in 0..i
        BY <3>2
      <4> QED
        BY <4>1, <3>2, <2>3, <2>4
    <3>3. CASE k = 0
      <4>1. k \in 0..i /\ k # i + 1
        BY <3>3
      <4> QED
        BY <4>1, <3>3, <2>3, <2>4
    <3> QED
      BY <3>1, <3>2, <3>3
  <2>6. h = [k \in 0..(i + 1) |-> IF k = 0 THEN << >> ELSE KeptStep(h[k - 1], s[k], F)]
    BY <2>4, <2>5
  <2>7. IsKept(h, s, F, i + 1)
    BY <2>6 DEF IsKept
  <2> QED
    BY <2>7
<1> HIDE DEF S
<1>3. Nat \subseteq S
  BY <1>1, <1>2, NatSetInduction
<1> QED
  BY <1>3 DEF S

(* A list of children without the nodes of F lists the others.             *)
LEMMA ListsWithout ==
  ASSUME NEW s, NEW S, Lists(s, S), NEW F
  PROVE  Lists(Without(s, F), S \ F)
<1>1. /\ s \in Seq(Node) /\ Len(s) \in Nat
      /\ \A k \in 1..Len(s) : s[k] \in S
      /\ \A j, k \in 1..Len(s) : s[j] = s[k] => j = k
      /\ \A m \in S : \E k \in 1..Len(s) : s[k] = m
  BY ListsElements DEF Lists
<1> DEFINE f == CHOOSE f : IsKept(f, s, F, Len(s))
           N == Len(s)
<1>2. IsKept(f, s, F, N)
  BY <1>1, KeptExist
<1>3. Without(s, F) = f[N]
  BY DEF Without, IsKept, KeptStep
<1> HIDE DEF f
<1>4. \A k \in 0..N : f[k] = IF k = 0 THEN << >> ELSE KeptStep(f[k - 1], s[k], F)
  BY <1>2 DEF IsKept
<1>5. N \in Nat
  BY <1>1
<1> DEFINE upTo(k) == {s[j] : j \in 1..k} \ F
           T == {k \in Nat : k <= N => Lists(f[k], upTo(k))}
<1>6. 0 \in T
  <2>1. f[0] = << >>
    BY <1>4, <1>5
  <2>2. upTo(0) = {}
    OBVIOUS
  <2> HIDE DEF upTo
  <2> QED
    BY <2>1, <2>2, ListsNothing
<1>7. ASSUME NEW k \in Nat, k \in T PROVE k + 1 \in T
  <2>1. SUFFICES ASSUME k + 1 <= N PROVE Lists(f[k + 1], upTo(k + 1))
    OBVIOUS
  <2>2. /\ k + 1 \in 0..N /\ k + 1 \in 1..N /\ k + 1 # 0 /\ (k + 1) - 1 = k
        /\ k <= N /\ 1..(k + 1) = 1..k \cup {k + 1}
        /\ \A j \in 1..k : j \in 1..N /\ j # k + 1
    BY <2>1, <1>5
  <2>3. Lists(f[k], upTo(k))
    BY <2>2, <1>7
  <2>4. f[k + 1] = KeptStep(f[k], s[k + 1], F)
    BY <2>2, <1>4
  <2>5. s[k + 1] \in Node /\ s[k + 1] \notin {s[j] : j \in 1..k}
    BY <2>2, <1>1
  <2>6. {s[j] : j \in 1..(k + 1)} = {s[j] : j \in 1..k} \cup {s[k + 1]}
    BY <2>2
  <2>7. CASE s[k + 1] \in F
    <3>1. upTo(k + 1) = upTo(k)
      BY <2>6, <2>7
    <3> HIDE DEF upTo
    <3> QED
      BY <3>1, <2>3, <2>4, <2>7 DEF KeptStep
  <2>8. CASE s[k + 1] \notin F
    <3>1. upTo(k + 1) = upTo(k) \cup {s[k + 1]} /\ s[k + 1] \notin upTo(k)
      BY <2>5, <2>6, <2>8
    <3> HIDE DEF upTo
    <3>2. f[k + 1] = Append(f[k], s[k + 1])
      BY <2>4, <2>8 DEF KeptStep
    <3> QED
      BY <3>1, <3>2, <2>3, <2>5, ListsAppend
  <2> QED
    BY <2>7, <2>8
<1> HIDE DEF T
<1>8. N \in T
  BY <1>5, <1>6, <1>7, NatSetInduction
<1>9. Lists(f[N], upTo(N))
  BY <1>5, <1>8 DEF T
<1>10. upTo(N) = S \ F
  BY <1>1
<1> HIDE DEF upTo, N
<1> QED
  BY <1>3, <1>9, <1>10

AddStep(l, n) == IF Contains(l, n) THEN l ELSE Append(l, n)

IsAdded(f, list, nodes, last) ==
  f = [i \in 0..last |-> IF i = 0 THEN list ELSE AddStep(f[i - 1], nodes[i])]

LEMMA AddedExist ==
  ASSUME NEW list, NEW nodes
  PROVE  \A last \in Nat : \E f : IsAdded(f, list, nodes, last)
<1> DEFINE S == {last \in Nat : \E f : IsAdded(f, list, nodes, last)}
<1>1. 0 \in S
  <2> DEFINE f == [k \in 0..0 |-> list]
  <2>1. f = [k \in 0..0 |-> IF k = 0 THEN list ELSE AddStep(f[k - 1], nodes[k])]
    OBVIOUS
  <2> HIDE DEF f
  <2> QED
    BY <2>1 DEF IsAdded
<1>2. ASSUME NEW i \in Nat, i \in S PROVE i + 1 \in S
  <2>1. PICK f : IsAdded(f, list, nodes, i)
    BY <1>2
  <2> DEFINE more == AddStep(f[i], nodes[i + 1])
             h == [k \in 0..(i + 1) |-> IF k = i + 1 THEN more ELSE f[k]]
  <2>2. f = [k \in 0..i |-> IF k = 0 THEN list ELSE AddStep(f[k - 1], nodes[k])]
    BY <2>1 DEF IsAdded
  <2>3. \A k \in 0..i : f[k] = IF k = 0 THEN list ELSE AddStep(f[k - 1], nodes[k])
    BY <2>2
  <2>4. /\ h = [k \in 0..(i + 1) |-> h[k]]
        /\ h[i + 1] = AddStep(f[i], nodes[i + 1])
        /\ \A k \in 0..i : h[k] = f[k]
    OBVIOUS
  <2> HIDE DEF h
  <2>5. ASSUME NEW k \in 0..(i + 1)
        PROVE  h[k] = IF k = 0 THEN list ELSE AddStep(h[k - 1], nodes[k])
    <3>1. CASE k = i + 1
      <4>1. k # 0 /\ k - 1 = i /\ i \in 0..i
        BY <3>1
      <4> QED
        BY <4>1, <3>1, <2>4
    <3>2. CASE k # i + 1 /\ k # 0
      <4>1. k \in 0..i /\ k - 1 \in 0..i
        BY <3>2
      <4> QED
        BY <4>1, <3>2, <2>3, <2>4
    <3>3. CASE k = 0
      <4>1. k \in 0..i /\ k # i + 1
        BY <3>3
      <4> QED
        BY <4>1, <3>3, <2>3, <2>4
    <3> QED
      BY <3>1, <3>2, <3>3
  <2>6. h = [k \in 0..(i + 1) |-> IF k = 0 THEN list ELSE AddStep(h[k - 1], nodes[k])]
    BY <2>4, <2>5
  <2>7. IsAdded(h, list, nodes, i + 1)
    BY <2>6 DEF IsAdded
  <2> QED
    BY <2>7
<1> HIDE DEF S
<1>3. Nat \subseteq S
  BY <1>1, <1>2, NatSetInduction
<1> QED
  BY <1>3 DEF S

LEMMA AppendSet ==
  ASSUME NEW V, NEW s \in Seq(V), NEW e \in V
  PROVE  Append(s, e) \in Seq(V) /\ ToSet(Append(s, e)) = ToSet(s) \cup {e}
<1> DEFINE t == Append(s, e)
<1>1. /\ t \in Seq(V) /\ Len(s) \in Nat /\ Len(t) = Len(s) + 1
      /\ t[Len(s) + 1] = e /\ \A k \in 1..Len(s) : t[k] = s[k]
  OBVIOUS
<1>2. DOMAIN t = 1..(Len(s) + 1) /\ DOMAIN s = 1..Len(s)
  BY <1>1, LenProperties
<1> HIDE DEF t
<1>3. 1..(Len(s) + 1) = 1..Len(s) \cup {Len(s) + 1}
  BY <1>1
<1>4. ToSet(t) = ToSet(s) \cup {e}
  BY ONLY <1>1, <1>2, <1>3 DEF ToSet
<1> QED
  BY <1>1, <1>4 DEF t

(* AddAll adds the nodes and nothing else.                                 *)
LEMMA AddAllSet ==
  ASSUME NEW V, NEW list \in Seq(V), NEW nodes \in Seq(V)
  PROVE  AddAll(list, nodes) \in Seq(V) /\ ToSet(AddAll(list, nodes)) = ToSet(list) \cup ToSet(nodes)
<1> DEFINE f == CHOOSE f : IsAdded(f, list, nodes, Len(nodes))
           N == Len(nodes)
<1>1. N \in Nat /\ DOMAIN nodes = 1..N /\ \A k \in 1..N : nodes[k] \in V
  BY LenProperties, ElementOfSeq
<1>2. IsAdded(f, list, nodes, N)
  BY <1>1, AddedExist
<1>3. AddAll(list, nodes) = f[N]
  BY DEF AddAll, IsAdded, AddStep
<1> HIDE DEF f
<1>4. \A k \in 0..N : f[k] = IF k = 0 THEN list ELSE AddStep(f[k - 1], nodes[k])
  BY <1>2 DEF IsAdded
<1> HIDE DEF N
<1> DEFINE Has(l, k) == /\ l \in Seq(V) /\ ToSet(list) \subseteq ToSet(l)
                        /\ ToSet(l) \subseteq ToSet(list) \cup ToSet(nodes)
                        /\ \A j \in 1..k : nodes[j] \in ToSet(l)
           T == {k \in Nat : k <= N => Has(f[k], k)}
<1>6. 0 \in T
  BY <1>4, <1>1
<1>7. ASSUME NEW k \in Nat, k \in T PROVE k + 1 \in T
  <2>1. SUFFICES ASSUME k + 1 <= N PROVE Has(f[k + 1], k + 1)
    OBVIOUS
  <2>2. k + 1 \in 0..N /\ k + 1 \in 1..N /\ k + 1 # 0 /\ (k + 1) - 1 = k /\ k <= N
    BY <2>1, <1>1
  <2>3. Has(f[k], k)
    BY <2>2, <1>7
  <2>4. f[k + 1] = AddStep(f[k], nodes[k + 1])
    BY <2>2, <1>4
  <2>5. nodes[k + 1] \in V /\ nodes[k + 1] \in ToSet(nodes) /\ f[k] \in Seq(V)
    BY <2>2, <2>3, <1>1 DEF ToSet
  <2>6. /\ Append(f[k], nodes[k + 1]) \in Seq(V)
        /\ ToSet(Append(f[k], nodes[k + 1])) = ToSet(f[k]) \cup {nodes[k + 1]}
    BY <2>5, AppendSet
  <2>7. CASE Contains(f[k], nodes[k + 1])
    <3>1. f[k + 1] = f[k] /\ nodes[k + 1] \in ToSet(f[k])
      BY <2>4, <2>7 DEF AddStep, Contains, ToSet
    <3> QED
      BY <2>2, <2>3, <3>1
  <2>8. CASE ~Contains(f[k], nodes[k + 1])
    <3>1. f[k + 1] = Append(f[k], nodes[k + 1])
      BY <2>4, <2>8 DEF AddStep
    <3> QED
      BY <2>2, <2>3, <2>5, <2>6, <3>1
  <2> QED
    BY <2>7, <2>8
<1> HIDE DEF T
<1>8. N \in T
  BY <1>1, <1>6, <1>7, NatSetInduction
<1>9. Has(f[N], N)
  BY <1>1, <1>8 DEF T
<1>10. ToSet(nodes) \subseteq ToSet(f[N])
  BY <1>1, <1>9 DEF ToSet
<1> QED
  BY <1>3, <1>9, <1>10

-----------------------------------------------------------------------------
(* Where a child goes, and what the other operators on lists return        *)

LEMMA IndexOfFacts ==
  ASSUME NEW s, NEW S, Lists(s, S), NEW m \in S
  PROVE  IndexOf(s, m) \in 1..Len(s) /\ s[IndexOf(s, m)] = m
<1>1. DOMAIN s = 1..Len(s) /\ \E k \in 1..Len(s) : s[k] = m
  BY ListsElements
<1> QED
  BY <1>1 DEF IndexOf

LEMMA ListsPlaced ==
  ASSUME NEW s, NEW S, Lists(s, S), NEW n \in Node, n \notin S,
         NEW g, NEW pos, NEW ref,
         pos \in {"head", "insert", "tail"} \/ ref \in S
  PROVE  Lists(Placed(g, s, n, pos, ref), S \cup {n})
<1>1. Len(s) \in Nat
  BY ListsElements
<1>2. CASE pos \in {"head", "insert"} \/ g \in Parallel
  BY <1>2, ListsInFront DEF Placed
<1>3. CASE ~(pos \in {"head", "insert"} \/ g \in Parallel) /\ pos = "tail"
  BY <1>3, ListsAppend DEF Placed
<1>4. CASE ~(pos \in {"head", "insert"} \/ g \in Parallel) /\ pos # "tail"
  <2> DEFINE i == IndexOf(s, ref)
  <2>1. i \in 1..Len(s)
    BY <1>4, IndexOfFacts
  <2> HIDE DEF i
  <2>2. i \in 1..(Len(s) + 1) /\ i + 1 \in 1..(Len(s) + 1)
    BY <1>1, <2>1
  <2>3. Lists(InsertAt(s, i, n), S \cup {n}) /\ Lists(InsertAt(s, i + 1, n), S \cup {n})
    BY <2>2, ListsInsert
  <2>4. Placed(g, s, n, pos, ref) = InsertAt(s, i, n) \/ Placed(g, s, n, pos, ref) = InsertAt(s, i + 1, n)
    BY <1>4 DEF Placed, i
  <2> QED
    BY <2>3, <2>4
<1> QED
  BY <1>2, <1>3, <1>4

LEMMA ConcatSet ==
  ASSUME NEW V, NEW s \in Seq(V), NEW t \in Seq(V)
  PROVE  s \o t \in Seq(V) /\ ToSet(s \o t) = ToSet(s) \cup ToSet(t)
<1> DEFINE w == s \o t
<1>1. /\ Len(s) \in Nat /\ Len(t) \in Nat
      /\ DOMAIN s = 1..Len(s) /\ DOMAIN t = 1..Len(t)
  BY LenProperties
<1>2. /\ w \in Seq(V) /\ Len(w) = Len(s) + Len(t)
      /\ \A k \in 1..(Len(s) + Len(t)) : w[k] = IF k <= Len(s) THEN s[k] ELSE t[k - Len(s)]
  BY ConcatProperties
<1>3. DOMAIN w = 1..(Len(s) + Len(t))
  BY <1>2, LenProperties
<1> HIDE DEF w
<1>4. ToSet(w) \subseteq ToSet(s) \cup ToSet(t)
  <2> SUFFICES ASSUME NEW k \in 1..(Len(s) + Len(t)) PROVE w[k] \in ToSet(s) \cup ToSet(t)
    BY <1>3 DEF ToSet
  <2>1. CASE k <= Len(s)
    BY <2>1, <1>1, <1>2 DEF ToSet
  <2>2. CASE ~(k <= Len(s))
    <3>1. k - Len(s) \in 1..Len(t)
      BY <2>2, <1>1
    <3> QED
      BY <3>1, <2>2, <1>1, <1>2 DEF ToSet
  <2> QED
    BY <2>1, <2>2
<1>5. ToSet(s) \subseteq ToSet(w)
  <2> SUFFICES ASSUME NEW k \in 1..Len(s) PROVE s[k] \in ToSet(w)
    BY <1>1 DEF ToSet
  <2>1. k \in 1..(Len(s) + Len(t)) /\ k <= Len(s)
    BY <1>1
  <2> QED
    BY <2>1, <1>2, <1>3 DEF ToSet
<1>6. ToSet(t) \subseteq ToSet(w)
  <2> SUFFICES ASSUME NEW k \in 1..Len(t) PROVE t[k] \in ToSet(w)
    BY <1>1 DEF ToSet
  <2>1. Len(s) + k \in 1..(Len(s) + Len(t)) /\ ~(Len(s) + k <= Len(s)) /\ (Len(s) + k) - Len(s) = k
    BY <1>1
  <2>2. w[Len(s) + k] = t[k]
    BY <2>1, <1>2
  <2> QED
    BY <2>1, <2>2, <1>3 DEF ToSet
<1>7. ToSet(w) = ToSet(s) \cup ToSet(t)
  BY <1>4, <1>5, <1>6
<1> QED
  BY <1>2, <1>7 DEF w

LEMMA TailSet ==
  ASSUME NEW V, NEW s \in Seq(V), s # << >>
  PROVE  Tail(s) \in Seq(V) /\ ToSet(Tail(s)) \subseteq ToSet(s) /\ Head(s) \in ToSet(s) /\ Head(s) \in V
<1> DEFINE t == Tail(s)
<1>1. /\ t \in Seq(V) /\ Len(t) = Len(s) - 1 /\ Head(s) \in V /\ Len(s) \in Nat \ {0}
      /\ \A i \in 1..Len(t) : t[i] = s[i + 1]
  BY HeadTailProperties, EmptySeq
<1>2. DOMAIN s = 1..Len(s) /\ DOMAIN t = 1..Len(t) /\ Head(s) = s[1]
  BY <1>1, LenProperties
<1> HIDE DEF t
<1>3. \A i \in 1..Len(t) : i + 1 \in 1..Len(s)
  BY <1>1
<1>4. ToSet(t) \subseteq ToSet(s)
  BY <1>1, <1>2, <1>3 DEF ToSet
<1>5. 1 \in 1..Len(s)
  BY <1>1
<1>6. Head(s) \in ToSet(s)
  BY <1>2, <1>5 DEF ToSet
<1> QED
  BY <1>1, <1>4, <1>6 DEF t

LEMMA SetSeqEmpty == ASSUME NEW S, S = {} PROVE SetToSeq(S) = << >>
<1>1. Cardinality(S) = 0 /\ 1..0 = {}
  BY FS_EmptySet
<1> DEFINE f == CHOOSE f \in [1..0 -> S] : IsInjective(f)
<1>2. << >> \in [1..0 -> S] /\ IsInjective(<< >>)
  BY DEF IsInjective
<1>3. f \in [1..0 -> S]
  BY <1>2
<1>4. f = << >>
  BY <1>3
<1>5. SetToSeq(S) = f
  BY <1>1 DEF SetToSeq
<1> QED
  BY <1>4, <1>5

LEMMA SetSeqOne == ASSUME NEW S, NEW x, S = {x} PROVE SetToSeq(S) = <<x>>
<1>1. Cardinality(S) = 1 /\ 1..1 = {1}
  BY FS_Singleton
<1> DEFINE f == CHOOSE f \in [1..1 -> S] : IsInjective(f)
<1>2. <<x>> \in [1..1 -> S] /\ IsInjective(<<x>>)
  BY DEF IsInjective
<1>3. f \in [1..1 -> S]
  BY <1>2
<1>4. f = <<x>>
  BY <1>3
<1>5. SetToSeq(S) = f
  BY <1>1 DEF SetToSeq
<1> QED
  BY <1>4, <1>5

(* The neighbours of a synth are at most one node.                         *)
AtMostOne(S) == S = {} \/ \E x : S = {x}

LEMMA SetSeqSet ==
  ASSUME NEW V, NEW S, S \subseteq V, AtMostOne(S)
  PROVE  SetToSeq(S) \in Seq(V) /\ ToSet(SetToSeq(S)) = S
<1>1. CASE S = {}
  <2>1. SetToSeq(S) = << >>
    BY <1>1, SetSeqEmpty
  <2>2. << >> \in Seq(V) /\ ToSet(<< >>) = {}
    BY DEF ToSet
  <2> QED
    BY ONLY <1>1, <2>1, <2>2
<1>2. CASE \E x : S = {x}
  <2>1. PICK x : S = {x}
    BY <1>2
  <2>2. SetToSeq(S) = <<x>> /\ x \in V
    BY <2>1, SetSeqOne
  <2>3. ToSet(<<x>>) = {x} /\ (x \in V => <<x>> \in Seq(V))
    BY DEF ToSet
  <2> QED
    BY ONLY <2>1, <2>2, <2>3
<1> QED
  BY <1>1, <1>2 DEF AtMostOne

-----------------------------------------------------------------------------
(* The inductive invariant.  Its first part is about the tree and those    *)
(* who hold its nodes, the second about the done actions.                  *)

\* The nodes that have g for their parent, and those that have one.
Members(p, g) == {n \in Node : p[n] = g}
Linked(p) == {n \in Node : p[n] # None}

TreeTypes ==
  /\ kids \in [Group -> Seq(Node)]
  /\ groups \in [Group -> SUBSET Group]
  /\ synthKids \in [Group -> Nat] /\ groupKids \in [Group -> Nat]
  /\ parent \in [Node -> Group \cup {None}]
  /\ running \in [Synth -> BOOLEAN]
  /\ refs \in [Node -> Nat]
  /\ ids \subseteq Node
  /\ synthCount \in Nat /\ groupCount \in Nat
  /\ queue \subseteq Synth
  /\ dirty \in BOOLEAN

\* A group lists its members, each once.
Forest == \A g \in Group : Lists(kids[g], Members(parent, g))

\* A node that has a parent is in the node set, and so is the parent.
Registered ==
  /\ Root \in ids /\ parent[Root] = None
  /\ \A n \in Node : parent[n] # None => n \in ids /\ parent[n] \in ids

\* Between two changes of the tree the queue that was built last is up to date.
QueueCurrent == ~dirty => queue = SynthsUnder(Root)

TreeInv ==
  /\ TreeTypes /\ Forest /\ Acyclic(kids) /\ Registered
  /\ CountersExact /\ TotalsExact /\ RefsAreHolders /\ QueueCurrent

ListTypes ==
  /\ {done, resumes, pauses} \subseteq Seq(Node)
  /\ {freeDeep, freeAll} \subseteq Seq(Group)
  /\ asked \subseteq Synth /\ due \subseteq Node
  /\ phase \in {"apply", "commands", "audio"}

\* The synths that a done action is pending for are held by the queue, which is
\* not rebuilt before the lists are empty again.
PendingHeld ==
  /\ phase = "commands" => AllApplied
  /\ phase = "audio" => ~dirty
  /\ {done, resumes, pauses} \subseteq Seq(queue \cup Group)

GraphInv == TreeInv /\ ListTypes /\ PendingHeld

LEMMA Kinds ==
  /\ IsFiniteSet(Node) /\ IsFiniteSet(Synth) /\ IsFiniteSet(Group)
  /\ Root \in Node /\ Root \in Group /\ None \notin Node /\ Node = Synth \cup Group
  /\ Synth \cap Group = {} /\ Root \notin Parallel
BY NodeAssumption, FS_Union DEF Node

LEMMA TreeFacts ==
  ASSUME TreeInv
  PROVE  /\ \A g \in Group : ToSet(kids[g]) = Members(parent, g)
         /\ \A g \in Group : \A n \in Node : n \in ToSet(kids[g]) <=> parent[n] = g
         /\ \A g \in Group : g \notin ids => ToSet(kids[g]) = {}
         /\ \A n \in Node : refs[n] = 0 => /\ n \notin ids /\ parent[n] = None
                                           /\ n \notin queue /\ n # Root
         /\ \A n \in Node : parent[n] # None => parent[n] \in Group /\ n # Root
<1>1. \A g \in Group : ToSet(kids[g]) = Members(parent, g)
  BY DEF TreeInv, Forest, Lists
<1>2. \A g \in Group : \A n \in Node : n \in ToSet(kids[g]) <=> parent[n] = g
  BY <1>1 DEF Members
<1>3. \A n \in Node : parent[n] # None => parent[n] \in Group /\ n # Root
  BY DEF TreeInv, TreeTypes, Registered
<1>4. \A g \in Group : g \notin ids => ToSet(kids[g]) = {}
  BY <1>1, Kinds DEF Members, TreeInv, Registered
<1>5. ASSUME NEW n \in Node, refs[n] = 0
      PROVE  n \notin ids /\ parent[n] = None /\ n \notin queue /\ n # Root
  <2>1. 0 = (IF n \in ids THEN 1 ELSE 0) + (IF parent[n] # None THEN 1 ELSE 0)
              + (IF n \in queue THEN 1 ELSE 0)
    BY <1>5 DEF TreeInv, RefsAreHolders
  <2>2. n \notin ids /\ parent[n] = None /\ n \notin queue
    BY <2>1
  <2> QED
    BY <2>2 DEF TreeInv, Registered
<1> QED
  BY <1>1, <1>2, <1>3, <1>4, <1>5

(* Counting one more and one less of a kind.                               *)
LEMMA OneMore ==
  ASSUME NEW M, IsFiniteSet(M), NEW n, n \notin M, NEW Kind
  PROVE  Cardinality((M \cup {n}) \cap Kind) = Cardinality(M \cap Kind) + One(n, Kind)
<1>1. IsFiniteSet(M \cap Kind) /\ Cardinality(M \cap Kind) \in Nat
  BY FS_Intersection, FS_CardinalityType
<1>2. CASE n \in Kind
  <2>1. (M \cup {n}) \cap Kind = (M \cap Kind) \cup {n} /\ n \notin M \cap Kind
    BY <1>2
  <2> QED
    BY <1>1, <1>2, <2>1, FS_AddElement DEF One
<1>3. CASE n \notin Kind
  <2>1. (M \cup {n}) \cap Kind = M \cap Kind
    BY <1>3
  <2>2. One(n, Kind) = 0
    BY <1>3 DEF One
  <2>3. Cardinality(M \cap Kind) = Cardinality(M \cap Kind) + 0
    BY ONLY <1>1
  <2> QED
    BY ONLY <2>1, <2>2, <2>3, Zenon
<1> QED
  BY <1>2, <1>3

LEMMA OneLess ==
  ASSUME NEW M, IsFiniteSet(M), NEW n, n \in M, NEW Kind
  PROVE  Cardinality((M \ {n}) \cap Kind) = Cardinality(M \cap Kind) - One(n, Kind)
<1>1. IsFiniteSet(M \cap Kind) /\ Cardinality(M \cap Kind) \in Nat
  BY FS_Intersection, FS_CardinalityType
<1>2. CASE n \in Kind
  <2>1. (M \ {n}) \cap Kind = (M \cap Kind) \ {n} /\ n \in M \cap Kind
    BY <1>2
  <2> QED
    BY <1>1, <1>2, <2>1, FS_RemoveElement DEF One
<1>3. CASE n \notin Kind
  <2>1. (M \ {n}) \cap Kind = M \cap Kind
    BY <1>3
  <2>2. One(n, Kind) = 0
    BY <1>3 DEF One
  <2>3. Cardinality(M \cap Kind) = Cardinality(M \cap Kind) - 0
    BY ONLY <1>1
  <2> QED
    BY ONLY <2>1, <2>2, <2>3, Zenon
<1> QED
  BY <1>2, <1>3

LEMMA OneFacts == ASSUME NEW n, NEW Kind PROVE One(n, Kind) \in {0, 1}
BY DEF One

LEMMA SubsetCount ==
  ASSUME NEW M, M \subseteq Node, NEW Kind
  PROVE  IsFiniteSet(M) /\ IsFiniteSet(M \cap Kind) /\ Cardinality(M \cap Kind) \in Nat
BY Kinds, FS_Subset, FS_Intersection, FS_CardinalityType

-----------------------------------------------------------------------------
(* A node joins a group, from another one or from none                     *)

LEMMA JoinMembers ==
  ASSUME NEW p \in [Node -> Group \cup {None}], NEW n \in Node, NEW to \in Group,
         NEW p2 \in [Node -> Group \cup {None}],
         \A m \in Node : p2[m] = IF m = n THEN to ELSE p[m]
  PROVE  /\ Members(p2, to) = Members(p, to) \cup {n}
         /\ \A g \in Group \ {to} : Members(p2, g) = Members(p, g) \ {n}
         /\ Linked(p2) = Linked(p) \cup {n}
<1>1. p2[n] = to /\ \A m \in Node \ {n} : p2[m] = p[m]
  OBVIOUS
<1>2. to # None
  BY Kinds DEF Node
<1> QED
  BY ONLY <1>1, <1>2, n \in Node, to \in Group DEF Members, Linked

LEMMA JoinCounts ==
  ASSUME TreeInv, NEW n \in Node, NEW to \in Group,
         LinkedCounters(parent[n], to, n), parent' = [parent EXCEPT ![n] = to],
         \A g \in Group : Lists(kids'[g], Members(parent', g))
  PROVE  /\ CountersExact'
         /\ groups' \in [Group -> SUBSET Group]
         /\ synthKids' \in [Group -> Nat] /\ groupKids' \in [Group -> Nat]
<1>1. /\ Members(parent', to) = Members(parent, to) \cup {n}
      /\ \A g \in Group \ {to} : Members(parent', g) = Members(parent, g) \ {n}
  <2>1. /\ parent \in [Node -> Group \cup {None}] /\ parent' \in [Node -> Group \cup {None}]
        /\ \A m \in Node : parent'[m] = IF m = n THEN to ELSE parent[m]
    BY DEF TreeInv, TreeTypes
  <2> QED
    BY ONLY <2>1, n \in Node, to \in Group, JoinMembers
<1>2. \A g \in Group : ToSet(kids'[g]) = Members(parent', g) /\ ToSet(kids[g]) = Members(parent, g)
  BY TreeFacts DEF Lists
<1>3. \A g \in Group : n \in Members(parent, g) <=> g = parent[n]
  BY DEF Members
<1>4. /\ synthKids' = [g \in Group |-> synthKids[g]
           + (IF g = to THEN One(n, Synth) ELSE 0) - (IF g = parent[n] THEN One(n, Synth) ELSE 0)]
      /\ groupKids' = [g \in Group |-> groupKids[g]
           + (IF g = to THEN One(n, Group) ELSE 0) - (IF g = parent[n] THEN One(n, Group) ELSE 0)]
      /\ groups' = [g \in Group |->
           IF g = to THEN groups[g] \cup ({n} \cap Group)
           ELSE IF g = parent[n] THEN groups[g] \ {n} ELSE groups[g]]
  BY DEF LinkedCounters
<1>5. ASSUME NEW g \in Group
      PROVE  /\ synthKids'[g] = Cardinality(Members(parent', g) \cap Synth)
             /\ groupKids'[g] = Cardinality(Members(parent', g) \cap Group)
             /\ groups'[g] = Members(parent', g) \cap Group
  <2> DEFINE M == Members(parent, g)
  <2>1. /\ synthKids[g] = Cardinality(M \cap Synth)
        /\ groupKids[g] = Cardinality(M \cap Group)
        /\ groups[g] = M \cap Group
    BY <1>2 DEF TreeInv, CountersExact
  <2>2. M \subseteq Node
    BY DEF Members
  <2>3. /\ IsFiniteSet(M) /\ Cardinality(M \cap Synth) \in Nat /\ Cardinality(M \cap Group) \in Nat
    BY <2>2, SubsetCount
  <2>4. One(n, Synth) \in {0, 1} /\ One(n, Group) \in {0, 1}
    BY OneFacts
  <2>5. n \in M <=> g = parent[n]
    BY <1>3
  <2>6. Members(parent', g) = IF g = to THEN M \cup {n} ELSE M \ {n}
    BY <1>1
  <2> HIDE DEF M
  <2> DEFINE cs == Cardinality(M \cap Synth)
             cg == Cardinality(M \cap Group)
             os == One(n, Synth)
             og == One(n, Group)
  <2>7. /\ synthKids'[g] = cs + (IF g = to THEN os ELSE 0) - (IF g = parent[n] THEN os ELSE 0)
        /\ groupKids'[g] = cg + (IF g = to THEN og ELSE 0) - (IF g = parent[n] THEN og ELSE 0)
    BY <1>4, <2>1
  <2>0. groups'[g] = IF g = to THEN (M \cap Group) \cup ({n} \cap Group)
                     ELSE IF g = parent[n] THEN (M \cap Group) \ {n} ELSE M \cap Group
    BY <1>4, <2>1
  <2>8. n \notin M => /\ Cardinality((M \cup {n}) \cap Synth) = cs + os
                      /\ Cardinality((M \cup {n}) \cap Group) = cg + og
    BY <2>3, OneMore
  <2>9. n \in M => /\ Cardinality((M \ {n}) \cap Synth) = cs - os
                   /\ Cardinality((M \ {n}) \cap Group) = cg - og
    BY <2>3, OneLess
  <2>10. (n \in M => M \cup {n} = M) /\ (n \notin M => M \ {n} = M)
    OBVIOUS
  <2>11. cs \in Nat /\ cg \in Nat /\ os \in {0, 1} /\ og \in {0, 1}
    BY <2>3, <2>4
  <2>12. groups'[g] = Members(parent', g) \cap Group
    BY ONLY <2>0, <2>5, <2>6
  <2>13. CASE g = to /\ g = parent[n]
    <3>1. synthKids'[g] = cs /\ groupKids'[g] = cg
      <4> HIDE DEF cs, cg, os, og
      <4>1. synthKids'[g] = (cs + os) - os /\ groupKids'[g] = (cg + og) - og
        BY ONLY <2>7, <2>11, <2>13
      <4> QED
        BY ONLY <4>1, <2>11
    <3>2. Members(parent', g) = M
      BY ONLY <2>5, <2>6, <2>10, <2>13
    <3> QED
      BY ONLY <3>1, <3>2, <2>12
  <2>14. CASE g = to /\ g # parent[n]
    <3>1. synthKids'[g] = cs + os /\ groupKids'[g] = cg + og
      <4> HIDE DEF cs, cg, os, og
      <4>1. synthKids'[g] = (cs + os) - 0 /\ groupKids'[g] = (cg + og) - 0
        BY ONLY <2>7, <2>11, <2>14
      <4> QED
        BY ONLY <4>1, <2>11
    <3>2. Members(parent', g) = M \cup {n}
      BY ONLY <2>6, <2>14
    <3>3. n \notin M
      BY ONLY <2>5, <2>14
    <3> QED
      BY ONLY <3>1, <3>2, <3>3, <2>8, <2>12
  <2>15. CASE g # to /\ g = parent[n]
    <3>1. synthKids'[g] = cs - os /\ groupKids'[g] = cg - og
      <4> HIDE DEF cs, cg, os, og
      <4>1. synthKids'[g] = (cs + 0) - os /\ groupKids'[g] = (cg + 0) - og
        BY ONLY <2>7, <2>11, <2>15
      <4> QED
        BY ONLY <4>1, <2>11
    <3>2. Members(parent', g) = M \ {n}
      BY ONLY <2>6, <2>15
    <3>3. n \in M
      BY ONLY <2>5, <2>15
    <3> QED
      BY ONLY <3>1, <3>2, <3>3, <2>9, <2>12
  <2>16. CASE g # to /\ g # parent[n]
    <3>1. synthKids'[g] = cs /\ groupKids'[g] = cg
      <4> HIDE DEF cs, cg, os, og
      <4>1. synthKids'[g] = (cs + 0) - 0 /\ groupKids'[g] = (cg + 0) - 0
        BY ONLY <2>7, <2>11, <2>16
      <4> QED
        BY ONLY <4>1, <2>11
    <3>2. Members(parent', g) = M
      BY ONLY <2>5, <2>6, <2>10, <2>16
    <3> QED
      BY ONLY <3>1, <3>2, <2>12
  <2> QED
    BY ONLY <2>13, <2>14, <2>15, <2>16
<1>6. CountersExact'
  BY <1>2, <1>5 DEF CountersExact
<1>7. ASSUME NEW g \in Group
      PROVE  groups'[g] \subseteq Group /\ synthKids'[g] \in Nat /\ groupKids'[g] \in Nat
  <2>1. Members(parent', g) \subseteq Node
    BY DEF Members
  <2>2. /\ Cardinality(Members(parent', g) \cap Synth) \in Nat
        /\ Cardinality(Members(parent', g) \cap Group) \in Nat
    BY <2>1, SubsetCount
  <2> QED
    BY <1>5, <2>2
<1> QED
  BY <1>4, <1>6, <1>7

(* Of the totals: what joins the tree is counted, what leaves it is not.   *)
LEMMA TotalsAre ==
  /\ {s \in Synth : parent[s] # None} = Linked(parent) \cap Synth
  /\ {g \in Group : parent[g] # None} = Linked(parent) \cap Group
BY Kinds DEF Linked

LEMMA TotalsAreNext ==
  /\ {s \in Synth : parent'[s] # None} = Linked(parent') \cap Synth
  /\ {g \in Group : parent'[g] # None} = Linked(parent') \cap Group
BY Kinds DEF Linked

LEMMA ReceiverFacts ==
  ASSUME TreeInv, NEW target \in ids, NEW pos, Receiver(target, pos) \in Group
  PROVE  /\ Receiver(target, pos) \in ids
         /\ \/ pos \in {"head", "insert", "tail"}
            \/ target \in Members(parent, Receiver(target, pos))
<1>1. target \in Node
  BY DEF TreeInv, TreeTypes
<1>2. CASE pos \in {"head", "tail", "insert"}
  BY <1>2 DEF Receiver
<1>3. CASE pos \notin {"head", "tail", "insert"}
  <2>1. Receiver(target, pos) = parent[target] /\ parent[target] # None
    BY <1>3, Kinds DEF Receiver
  <2> QED
    BY <1>1, <2>1 DEF TreeInv, Registered, Members
<1> QED
  BY <1>2, <1>3

LEMMA AddKeepsTree ==
  ASSUME TreeInv, NEW n \in Node, NEW target \in Node, NEW pos, AddNode(n, target, pos)
  PROVE  TreeInv'
<1> DEFINE g == Receiver(target, pos)
<1>1. /\ refs[n] = 0 /\ target \in ids /\ g \in Group
      /\ kids' = [kids EXCEPT ![g] = Placed(g, kids[g], n, pos, target)]
      /\ LinkedCounters(None, g, n)
      /\ parent' = [parent EXCEPT ![n] = g]
      /\ ids' = ids \cup {n}
      /\ refs' = [refs EXCEPT ![n] = 2]
      /\ running' = (IF n \in Synth THEN [running EXCEPT ![n] = TRUE] ELSE running)
      /\ synthCount' = synthCount + One(n, Synth)
      /\ groupCount' = groupCount + One(n, Group)
      /\ dirty' = (dirty \/ AsksForUpdate(n, pos))
      /\ queue' = queue
  BY DEF AddNode
<1>2. /\ g \in ids
      /\ pos \in {"head", "insert", "tail"} \/ target \in Members(parent, g)
  BY <1>1, ReceiverFacts
<1> HIDE DEF g
<1>3. n \notin ids /\ parent[n] = None /\ n \notin queue /\ n # Root /\ n # g
  BY <1>1, <1>2, TreeFacts
<1>4. /\ TreeTypes /\ Forest /\ Acyclic(kids) /\ Registered
      /\ TotalsExact /\ RefsAreHolders /\ QueueCurrent
  BY DEF TreeInv
<1>5. /\ g \in Group
      /\ parent \in [Node -> Group \cup {None}] /\ parent' \in [Node -> Group \cup {None}]
      /\ \A m \in Node : parent'[m] = IF m = n THEN g ELSE parent[m]
  BY <1>1, <1>4 DEF TreeTypes
<1>6. /\ Members(parent', g) = Members(parent, g) \cup {n}
      /\ \A h \in Group \ {g} : Members(parent', h) = Members(parent, h) \ {n}
      /\ Linked(parent') = Linked(parent) \cup {n}
  BY ONLY <1>5, n \in Node, JoinMembers
<1>7. \A h \in Group : n \notin Members(parent, h)
  BY <1>3, Kinds DEF Members
<1>8. /\ Lists(Placed(g, kids[g], n, pos, target), Members(parent, g) \cup {n})
      /\ \A h \in Group : Lists(kids[h], Members(parent, h))
  <2>1. \A h \in Group : Lists(kids[h], Members(parent, h))
    BY <1>4 DEF Forest
  <2> QED
    BY <2>1, <1>1, <1>2, <1>7, ListsPlaced
<1>9. \A h \in Group : kids'[h] = IF h = g THEN Placed(g, kids[g], n, pos, target) ELSE kids[h]
  BY <1>1, <1>4 DEF TreeTypes
<1>10. \A h \in Group : Lists(kids'[h], Members(parent', h))
  <2> SUFFICES ASSUME NEW h \in Group PROVE Lists(kids'[h], Members(parent', h))
    OBVIOUS
  <2>1. CASE h = g
    BY ONLY <2>1, <1>6, <1>8, <1>9, h \in Group
  <2>2. CASE h # g
    <3>1. Members(parent', h) = Members(parent, h)
      BY <2>2, <1>6, <1>7
    <3> QED
      BY ONLY <3>1, <2>2, <1>8, <1>9, h \in Group
  <2> QED
    BY <2>1, <2>2
<1>11. kids' \in [Group -> Seq(Node)] /\ kids \in [Group -> Seq(Node)]
  <2>1. \A h \in Group : kids'[h] \in Seq(Node)
    BY <1>10 DEF Lists
  <2>2. kids' = [h \in Group |-> kids'[h]]
    BY <1>1, <1>4 DEF TreeTypes
  <2> QED
    BY <2>1, <2>2, <1>4 DEF TreeTypes
<1>12. /\ CountersExact'
       /\ groups' \in [Group -> SUBSET Group]
       /\ synthKids' \in [Group -> Nat] /\ groupKids' \in [Group -> Nat]
  BY <1>1, <1>3, <1>10, JoinCounts
<1>13. \A h \in Group : ToSet(kids'[h]) = (ToSet(kids[h]) \cup (IF h = g THEN {n} ELSE {}))
  BY <1>8, <1>10, <1>6, <1>7 DEF Lists
<1>14. (n \in Group => ToSet(kids[n]) = {}) /\ \A h \in Group : n \notin ToSet(kids[h])
  BY <1>3, <1>7, TreeFacts
<1>15. Acyclic(kids')
  <2>1. g \notin Under(kids, n)
    BY <1>3, <1>14, UnderEmpty
  <2>2. \A h \in Group : ToSet(kids'[h]) \subseteq (ToSet(kids[h]) \cup (IF h = g THEN {n} ELSE {}))
    BY <1>13
  <2> QED
    BY <2>1, <2>2, <1>1, <1>4, <1>11, GraftAcyclic
<1>16. Registered'
  <2>1. Root \in ids' /\ parent'[Root] = None
    BY <1>1, <1>3, <1>4, <1>5, Kinds DEF Registered
  <2>2. \A m \in Node : parent'[m] # None => m \in ids' /\ parent'[m] \in ids'
    BY <1>1, <1>2, <1>4, <1>5 DEF Registered
  <2> QED
    BY <2>1, <2>2 DEF Registered
<1>17. /\ TotalsExact' /\ synthCount' \in Nat /\ groupCount' \in Nat
  <2> DEFINE L == Linked(parent)
  <2>1. L \subseteq Node /\ n \notin L
    BY <1>3 DEF Linked
  <2>2. IsFiniteSet(L) /\ Cardinality(L \cap Synth) \in Nat /\ Cardinality(L \cap Group) \in Nat
    BY <2>1, SubsetCount
  <2>3. synthCount = Cardinality(L \cap Synth) /\ groupCount = 1 + Cardinality(L \cap Group)
    BY <1>4, TotalsAre DEF TotalsExact
  <2> HIDE DEF L
  <2>4. /\ Cardinality((L \cup {n}) \cap Synth) = Cardinality(L \cap Synth) + One(n, Synth)
        /\ Cardinality((L \cup {n}) \cap Group) = Cardinality(L \cap Group) + One(n, Group)
    BY <2>1, <2>2, OneMore
  <2>5. One(n, Synth) \in {0, 1} /\ One(n, Group) \in {0, 1}
    BY OneFacts
  <2>6. Linked(parent') = L \cup {n}
    BY <1>6 DEF L
  <2>7. /\ synthCount' = Cardinality(Linked(parent') \cap Synth)
        /\ groupCount' = 1 + Cardinality(Linked(parent') \cap Group)
    <3> DEFINE a == Cardinality(L \cap Synth)
               b == Cardinality(L \cap Group)
               c == Cardinality((L \cup {n}) \cap Synth)
               d == Cardinality((L \cup {n}) \cap Group)
               x == One(n, Synth)
               y == One(n, Group)
    <3>1. /\ a \in Nat /\ b \in Nat /\ x \in {0, 1} /\ y \in {0, 1}
          /\ synthCount' = a + x /\ groupCount' = (1 + b) + y /\ c = a + x /\ d = b + y
      BY <1>1, <2>2, <2>3, <2>4, <2>5
    <3>2. c = Cardinality(Linked(parent') \cap Synth) /\ d = Cardinality(Linked(parent') \cap Group)
      BY <2>6
    <3> HIDE DEF a, b, c, d, x, y
    <3>3. synthCount' = c /\ groupCount' = 1 + d
      BY ONLY <3>1
    <3> QED
      BY ONLY <3>2, <3>3
  <2>8. Linked(parent') \subseteq Node
    BY DEF Linked
  <2>9. Cardinality(Linked(parent') \cap Synth) \in Nat /\ Cardinality(Linked(parent') \cap Group) \in Nat
    BY <2>8, SubsetCount
  <2>10. synthCount' \in Nat /\ groupCount' \in Nat
    BY <2>7, <2>9
  <2> QED
    BY <2>7, <2>10, TotalsAreNext DEF TotalsExact
<1>18. refs' \in [Node -> Nat] /\ RefsAreHolders'
  <2>1. refs' \in [Node -> Nat] /\ \A m \in Node : refs'[m] = IF m = n THEN 2 ELSE refs[m]
    BY <1>1, <1>4 DEF TreeTypes
  <2>2. ASSUME NEW m \in Node
        PROVE  refs'[m] = (IF m \in ids' THEN 1 ELSE 0) + (IF parent'[m] # None THEN 1 ELSE 0)
                            + (IF m \in queue' THEN 1 ELSE 0)
    <3>1. CASE m = n
      <4>1. m \in ids' /\ parent'[m] # None /\ m \notin queue' /\ refs'[m] = 2
        BY <3>1, <1>1, <1>3, <1>5, <2>1, Kinds DEF Node
      <4> QED
        BY ONLY <4>1
    <3>2. CASE m # n
      <4>1. (m \in ids' <=> m \in ids) /\ parent'[m] = parent[m] /\ queue' = queue /\ refs'[m] = refs[m]
        BY <3>2, <1>1, <1>5, <2>1
      <4> QED
        BY <4>1, <1>4 DEF RefsAreHolders
    <3> QED
      BY <3>1, <3>2
  <2> QED
    BY <2>1, <2>2 DEF RefsAreHolders
<1>19. QueueCurrent'
  <2> SUFFICES ASSUME ~dirty' PROVE queue' = Under(kids', Root) \cap Synth
    BY DEF QueueCurrent, SynthsUnder, Subtree
  <2>1. ~dirty /\ n \in Group
    BY <1>1, Kinds DEF AsksForUpdate
  <2>2. queue = Under(kids, Root) \cap Synth
    BY <1>4, <2>1 DEF QueueCurrent, SynthsUnder, Subtree
  <2>3. Under(kids', Root) \cap Synth = Under(kids, Root) \cap Synth
    BY <1>1, <1>3, <1>11, <1>13, <1>14, <2>1, GraftSynths
  <2> QED
    BY <1>1, <2>2, <2>3
<1>20. /\ running' \in [Synth -> BOOLEAN] /\ ids' \subseteq Node
       /\ queue' \subseteq Synth /\ dirty' \in BOOLEAN
  BY <1>1, <1>4 DEF TreeTypes, AsksForUpdate
<1>21. TreeTypes'
  BY <1>5, <1>11, <1>12, <1>17, <1>18, <1>20 DEF TreeTypes
<1>22. Forest'
  BY <1>10 DEF Forest
<1> QED
  BY <1>12, <1>15, <1>16, <1>17, <1>18, <1>19, <1>21, <1>22 DEF TreeInv

(* A node of the tree goes to another place in it, not into itself.        *)
LEMMA RelinkKeepsTree ==
  ASSUME TreeInv, NEW n \in Node, parent[n] # None,
         NEW g \in Group, g \in ids, g \notin Under(kids, n),
         DOMAIN kids' = Group, kids' = [h \in Group |-> kids'[h]],
         \A h \in Group : Lists(kids'[h], Members(parent', h)),
         LinkedCounters(parent[n], g, n),
         parent' = [parent EXCEPT ![n] = g], dirty' = TRUE,
         UNCHANGED <<running, refs, ids, synthCount, groupCount, queue>>
  PROVE  TreeInv'
<1>1. /\ TreeTypes /\ Forest /\ Acyclic(kids) /\ Registered
      /\ TotalsExact /\ RefsAreHolders /\ QueueCurrent
  BY DEF TreeInv
<1>2. /\ g \in Group
      /\ parent \in [Node -> Group \cup {None}] /\ parent' \in [Node -> Group \cup {None}]
      /\ \A m \in Node : parent'[m] = IF m = n THEN g ELSE parent[m]
  BY <1>1 DEF TreeTypes
<1>3. /\ Members(parent', g) = Members(parent, g) \cup {n}
      /\ \A h \in Group \ {g} : Members(parent', h) = Members(parent, h) \ {n}
      /\ Linked(parent') = Linked(parent) \cup {n}
  BY ONLY <1>2, n \in Node, JoinMembers
<1>4. Linked(parent') = Linked(parent)
  BY <1>3 DEF Linked
<1>5. kids' \in [Group -> Seq(Node)] /\ kids \in [Group -> Seq(Node)]
  <2>1. \A h \in Group : kids'[h] \in Seq(Node)
    BY DEF Lists
  <2> QED
    BY <2>1, <1>1 DEF TreeTypes
<1>6. /\ CountersExact'
      /\ groups' \in [Group -> SUBSET Group]
      /\ synthKids' \in [Group -> Nat] /\ groupKids' \in [Group -> Nat]
  BY JoinCounts
<1>7. \A h \in Group : ToSet(kids'[h]) \subseteq (ToSet(kids[h]) \cup (IF h = g THEN {n} ELSE {}))
  <2>1. \A h \in Group : ToSet(kids'[h]) = Members(parent', h) /\ ToSet(kids[h]) = Members(parent, h)
    BY <1>1 DEF Lists, Forest
  <2> SUFFICES ASSUME NEW h \in Group
               PROVE  ToSet(kids'[h]) \subseteq (ToSet(kids[h]) \cup (IF h = g THEN {n} ELSE {}))
    OBVIOUS
  <2>2. CASE h = g
    BY ONLY <2>1, <2>2, <1>3, h \in Group
  <2>3. CASE h # g
    BY ONLY <2>1, <2>3, <1>3, h \in Group
  <2> QED
    BY <2>2, <2>3
<1>8. Acyclic(kids')
  <2>1. /\ Acyclic(kids) /\ g \notin Under(kids, n) /\ n \in Node /\ g \in Group
        /\ kids \in [Group -> Seq(Node)] /\ kids' \in [Group -> Seq(Node)]
    BY <1>1, <1>5
  <2> QED
    BY ONLY <2>1, <1>7, GraftAcyclic
<1>9. Registered'
  <2>1. Root \in ids' /\ parent'[Root] = None
    BY <1>1, <1>2, Kinds DEF Registered
  <2>2. \A m \in Node : parent'[m] # None => m \in ids' /\ parent'[m] \in ids'
    BY <1>1, <1>2 DEF Registered
  <2> QED
    BY <2>1, <2>2 DEF Registered
<1>10. TotalsExact'
  BY <1>1, <1>4, TotalsAre, TotalsAreNext DEF TotalsExact
<1>11. RefsAreHolders'
  <2>1. \A m \in Node : parent'[m] # None <=> parent[m] # None
    BY <1>2, Kinds DEF Node
  <2> QED
    BY <2>1, <1>1 DEF RefsAreHolders
<1>12. QueueCurrent'
  BY DEF QueueCurrent
<1>13. TreeTypes'
  BY <1>1, <1>2, <1>5, <1>6 DEF TreeTypes
<1>14. Forest'
  BY DEF Forest
<1> QED
  BY <1>6, <1>8, <1>9, <1>10, <1>11, <1>12, <1>13, <1>14 DEF TreeInv

LEMMA MoveKeepsTree ==
  ASSUME TreeInv, NEW n \in Node, NEW target \in Node, NEW pos, MoveNode(n, target, pos)
  PROVE  TreeInv'
<1> DEFINE g == Receiver(target, pos)
           others(h) == Without(kids[h], {n})
<1>1. /\ {n, target} \subseteq ids /\ parent[n] # None
      /\ g \in Group /\ g \notin Under(kids, n)
      /\ kids' = [h \in Group |->
             IF h # g THEN others(h)
             ELSE IF n = target THEN kids[h]
             ELSE Placed(Root, others(h), n, pos, target)]
      /\ LinkedCounters(parent[n], g, n)
      /\ parent' = [parent EXCEPT ![n] = g] /\ dirty' = TRUE
      /\ UNCHANGED <<running, refs, ids, synthCount, groupCount, queue>>
  BY DEF MoveNode, Subtree
<1>2. g \in ids /\ (pos \in {"head", "insert", "tail"} \/ target \in Members(parent, g))
  BY <1>1, ReceiverFacts
<1>3. n = target => parent[n] = g
  <2>1. n \in Under(kids, n)
    BY UnderClosed
  <2> QED
    BY <2>1, <1>1 DEF Receiver
<1> HIDE DEF g
<1>4. /\ g \in Group
      /\ parent \in [Node -> Group \cup {None}] /\ parent' \in [Node -> Group \cup {None}]
      /\ \A m \in Node : parent'[m] = IF m = n THEN g ELSE parent[m]
  BY <1>1 DEF TreeInv, TreeTypes
<1>5. /\ Members(parent', g) = Members(parent, g) \cup {n}
      /\ \A h \in Group \ {g} : Members(parent', h) = Members(parent, h) \ {n}
  BY ONLY <1>4, n \in Node, JoinMembers
<1>6. \A h \in Group : Lists(kids[h], Members(parent, h))
  BY DEF TreeInv, Forest
<1>7. \A h \in Group : Lists(others(h), Members(parent, h) \ {n})
  BY <1>6, ListsWithout
<1> HIDE DEF others
<1>8. ASSUME NEW h \in Group PROVE Lists(kids'[h], Members(parent', h))
  <2>1. CASE h # g
    BY <2>1, <1>1, <1>5, <1>7
  <2>2. CASE h = g /\ n = target
    <3>1. Members(parent', h) = Members(parent, h)
      BY <2>2, <1>3, <1>5 DEF Members
    <3> QED
      BY <2>2, <3>1, <1>1, <1>6
  <2>3. CASE h = g /\ n # target
    <3> DEFINE M == Members(parent, g) \ {n}
    <3>1. n \notin M /\ (pos \in {"head", "insert", "tail"} \/ target \in M)
      BY <2>3, <1>2
    <3>2. Lists(others(g), M)
      BY <1>1, <1>7
    <3>3. M \cup {n} = Members(parent', g)
      BY <1>5
    <3>4. kids'[h] = Placed(Root, others(g), n, pos, target)
      BY <2>3, <1>1
    <3> HIDE DEF M
    <3>5. Lists(Placed(Root, others(g), n, pos, target), M \cup {n})
      BY <3>1, <3>2, ListsPlaced
    <3> QED
      BY <2>3, <3>3, <3>4, <3>5
  <2> QED
    BY <2>1, <2>2, <2>3
<1>9. DOMAIN kids' = Group /\ kids' = [h \in Group |-> kids'[h]]
  BY <1>1
<1> QED
  BY <1>1, <1>2, <1>8, <1>9, RelinkKeepsTree

LEMMA OrderKeepsTree ==
  ASSUME TreeInv, NEW n \in Node, NEW target \in Node, NEW pos, OrderNode(n, target, pos)
  PROVE  TreeInv'
<1> DEFINE g == Receiver(target, pos)
           others(h) == Without(kids[h], {n})
<1>1. /\ {n, target} \subseteq ids /\ parent[n] # None /\ n # target
      /\ g \in Group /\ g \notin Under(kids, n)
      /\ kids' = [h \in Group |->
             IF h = g THEN Placed(g, others(h), n, pos, target) ELSE others(h)]
      /\ LinkedCounters(parent[n], g, n)
      /\ parent' = [parent EXCEPT ![n] = g] /\ dirty' = TRUE
      /\ UNCHANGED <<running, refs, ids, synthCount, groupCount, queue>>
  BY DEF OrderNode, Subtree
<1>2. g \in ids /\ (pos \in {"head", "insert", "tail"} \/ target \in Members(parent, g))
  BY <1>1, ReceiverFacts
<1> HIDE DEF g
<1>4. /\ g \in Group
      /\ parent \in [Node -> Group \cup {None}] /\ parent' \in [Node -> Group \cup {None}]
      /\ \A m \in Node : parent'[m] = IF m = n THEN g ELSE parent[m]
  BY <1>1 DEF TreeInv, TreeTypes
<1>5. /\ Members(parent', g) = Members(parent, g) \cup {n}
      /\ \A h \in Group \ {g} : Members(parent', h) = Members(parent, h) \ {n}
  BY ONLY <1>4, n \in Node, JoinMembers
<1>6. \A h \in Group : Lists(kids[h], Members(parent, h))
  BY DEF TreeInv, Forest
<1>7. \A h \in Group : Lists(others(h), Members(parent, h) \ {n})
  BY <1>6, ListsWithout
<1> HIDE DEF others
<1>8. ASSUME NEW h \in Group PROVE Lists(kids'[h], Members(parent', h))
  <2>1. CASE h # g
    BY <2>1, <1>1, <1>5, <1>7
  <2>2. CASE h = g
    <3> DEFINE M == Members(parent, g) \ {n}
    <3>1. n \notin M /\ (pos \in {"head", "insert", "tail"} \/ target \in M)
      BY <1>1, <1>2
    <3>2. Lists(others(g), M)
      BY <1>1, <1>7
    <3>3. M \cup {n} = Members(parent', g)
      BY <1>5
    <3>4. kids'[h] = Placed(g, others(g), n, pos, target)
      BY <2>2, <1>1
    <3> HIDE DEF M
    <3>5. Lists(Placed(g, others(g), n, pos, target), M \cup {n})
      BY <3>1, <3>2, ListsPlaced
    <3> QED
      BY <2>2, <3>3, <3>4, <3>5
  <2> QED
    BY <2>1, <2>2
<1>9. DOMAIN kids' = Group /\ kids' = [h \in Group |-> kids'[h]]
  BY <1>1
<1> QED
  BY <1>1, <1>2, <1>8, <1>9, RelinkKeepsTree

(* One of a kind takes the place of another.                               *)
LEMMA SwapCount ==
  ASSUME NEW M, M \subseteq Node, NEW n \in Node, n \notin M, NEW t, t \in M, NEW Kind
  PROVE  /\ Cardinality(((M \ {t}) \cup {n}) \cap Kind) = Cardinality(M \cap Kind) + One(n, Kind) - One(t, Kind)
         /\ Cardinality(((M \ {t}) \cup {n}) \cap Kind) \in Nat
<1> DEFINE L == M \ {t}
           M2 == (M \ {t}) \cup {n}
<1>1. IsFiniteSet(M) /\ Cardinality(M \cap Kind) \in Nat
  BY SubsetCount
<1>2. L \subseteq Node /\ n \notin L /\ M2 = L \cup {n} /\ M2 \subseteq Node
  OBVIOUS
<1>3. IsFiniteSet(L) /\ Cardinality(L \cap Kind) \in Nat
  BY <1>2, SubsetCount
<1>4. Cardinality(L \cap Kind) = Cardinality(M \cap Kind) - One(t, Kind)
  BY <1>1, OneLess
<1> HIDE DEF L, M2
<1>5. Cardinality(M2 \cap Kind) = Cardinality(L \cap Kind) + One(n, Kind)
  BY <1>2, <1>3, OneMore
<1>6. One(n, Kind) \in {0, 1} /\ One(t, Kind) \in {0, 1}
  BY OneFacts
<1>7. Cardinality(M2 \cap Kind) \in Nat
  BY <1>2, SubsetCount
<1> DEFINE a == Cardinality(M \cap Kind)
           b == Cardinality(L \cap Kind)
           c == Cardinality(M2 \cap Kind)
           x == One(n, Kind)
           y == One(t, Kind)
<1>8. a \in Nat /\ b \in Nat /\ c \in Nat /\ x \in {0, 1} /\ y \in {0, 1} /\ b = a - y /\ c = b + x
  BY <1>1, <1>3, <1>4, <1>5, <1>6, <1>7
<1>9. c = a + x - y
  <2> HIDE DEF a, b, c, x, y
  <2> QED
    BY ONLY <1>8
<1> QED
  BY <1>7, <1>9 DEF M2

(* One counter of a group changes.                                         *)
LEMMA CountAt ==
  ASSUME NEW f \in [Group -> Nat], NEW g \in Group, NEW a \in {0, 1}, NEW b \in {0, 1}
  PROVE  /\ [f EXCEPT ![g] = @ + a - b] \in [Group -> Int]
         /\ \A h \in Group : [f EXCEPT ![g] = @ + a - b][h] = IF h = g THEN f[h] + a - b ELSE f[h]
<1> DEFINE c == f[g] + a - b
<1>1. c \in Int /\ \A h \in Group : f[h] \in Int
  OBVIOUS
<1>2. \A h \in Group : h = g => c = f[h] + a - b
  OBVIOUS
<1> HIDE DEF c
<1>3. [f EXCEPT ![g] = c] \in [Group -> Int]
  BY ONLY <1>1, f \in [Group -> Nat], g \in Group
<1>4. \A h \in Group : [f EXCEPT ![g] = c][h] = IF h = g THEN c ELSE f[h]
  BY ONLY f \in [Group -> Nat], g \in Group
<1>5. \A h \in Group : [f EXCEPT ![g] = c][h] = IF h = g THEN f[h] + a - b ELSE f[h]
  BY ONLY <1>2, <1>4
<1> QED
  BY <1>3, <1>5 DEF c

LEMMA ReplaceKeepsTree ==
  ASSUME TreeInv, NEW n \in Node, NEW target \in Node, ReplaceNode(n, target)
  PROVE  TreeInv'
<1> DEFINE g == parent[target]
           new == ReplaceAt(kids[g], IndexOf(kids[g], target), n)
<1>1. /\ refs[n] = 0 /\ target \in ids /\ parent[target] # None
      /\ kids' = [kids EXCEPT ![g] = new]
      /\ synthKids' = [synthKids EXCEPT ![g] = @ + One(n, Synth) - One(target, Synth)]
      /\ groupKids' = [groupKids EXCEPT ![g] = @ + One(n, Group) - One(target, Group)]
      /\ groups' = [groups EXCEPT ![g] = (@ \cup ({n} \cap Group)) \ {target}]
      /\ parent' = [parent EXCEPT ![n] = g, ![target] = None]
      /\ ids' = ids \cup {n}
      /\ refs' = [refs EXCEPT ![n] = 2, ![target] = @ - 1]
      /\ running' = (IF n \in Synth THEN [running EXCEPT ![n] = TRUE] ELSE running)
      /\ synthCount' = synthCount + One(n, Synth) - One(target, Synth)
      /\ groupCount' = groupCount + One(n, Group) - One(target, Group)
      /\ dirty' = (dirty \/ AsksForUpdate(n, "replace"))
      /\ queue' = queue
  BY DEF ReplaceNode
<1>2. /\ TreeTypes /\ Forest /\ Acyclic(kids) /\ Registered /\ CountersExact
      /\ TotalsExact /\ RefsAreHolders /\ QueueCurrent
  BY DEF TreeInv
<1>3. /\ n \notin ids /\ parent[n] = None /\ n \notin queue /\ n # Root
      /\ g \in Group /\ target # Root /\ g \in ids /\ n # g /\ n # target
  BY <1>1, <1>2, TreeFacts DEF Registered
<1>4. target \in Members(parent, g) /\ \A h \in Group \ {g} : target \notin Members(parent, h)
  BY <1>3 DEF Members
<1> HIDE DEF g, new
<1>5. /\ parent \in [Node -> Group \cup {None}] /\ parent' \in [Node -> Group \cup {None}]
      /\ \A m \in Node : parent'[m] = IF m = target THEN None ELSE IF m = n THEN g ELSE parent[m]
  BY <1>1, <1>2, <1>3 DEF TreeTypes
<1>6. \A h \in Group : n \notin Members(parent, h)
  BY <1>3, Kinds DEF Members
<1>7. /\ Members(parent', g) = (Members(parent, g) \ {target}) \cup {n}
      /\ \A h \in Group \ {g} : Members(parent', h) = Members(parent, h)
  <2>1. n \in Node /\ target \in Node /\ g # None /\ None \notin Group
    BY <1>3, Kinds
  <2>2. Members(parent', g) = (Members(parent, g) \ {target}) \cup {n}
    BY ONLY <1>3, <1>5, <2>1 DEF Members
  <2>3. ASSUME NEW h \in Group \ {g} PROVE Members(parent', h) = Members(parent, h)
    <3>1. n \notin Members(parent, h) /\ target \notin Members(parent, h) /\ h # None /\ h # g
      BY <1>4, <1>6, <2>1
    <3> QED
      BY ONLY <1>5, <2>1, <3>1 DEF Members
  <2> QED
    BY <2>2, <2>3
<1>8. Linked(parent') = (Linked(parent) \ {target}) \cup {n}
  <2>1. n \in Node /\ g # None
    BY <1>3, Kinds
  <2> QED
    BY ONLY <1>3, <1>5, <2>1 DEF Linked
<1>9. \A h \in Group : Lists(kids[h], Members(parent, h))
  BY <1>2 DEF Forest
<1>10. Lists(new, (Members(parent, g) \ {target}) \cup {n})
  <2>1. /\ Lists(kids[g], Members(parent, g)) /\ target \in Members(parent, g)
        /\ n \notin Members(parent, g) /\ n \in Node
    BY <1>3, <1>4, <1>6, <1>9
  <2>2. /\ IndexOf(kids[g], target) \in 1..Len(kids[g])
        /\ kids[g][IndexOf(kids[g], target)] = target
    BY ONLY <2>1, IndexOfFacts
  <2>3. Lists(new, (Members(parent, g) \ {kids[g][IndexOf(kids[g], target)]}) \cup {n})
    BY ONLY <2>1, <2>2, ListsReplace DEF new
  <2> QED
    BY ONLY <2>2, <2>3
<1>11. \A h \in Group : kids'[h] = IF h = g THEN new ELSE kids[h]
  BY <1>1, <1>2 DEF TreeTypes
<1>12. \A h \in Group : Lists(kids'[h], Members(parent', h))
  <2> SUFFICES ASSUME NEW h \in Group PROVE Lists(kids'[h], Members(parent', h))
    OBVIOUS
  <2>1. CASE h = g
    BY ONLY <2>1, <1>7, <1>10, <1>11, h \in Group
  <2>2. CASE h # g
    BY ONLY <2>2, <1>7, <1>9, <1>11, h \in Group
  <2> QED
    BY <2>1, <2>2
<1>13. kids' \in [Group -> Seq(Node)] /\ kids \in [Group -> Seq(Node)]
  <2>1. \A h \in Group : kids'[h] \in Seq(Node)
    BY <1>12 DEF Lists
  <2>2. kids' = [h \in Group |-> kids'[h]]
    BY <1>1, <1>2 DEF TreeTypes
  <2> QED
    BY <2>1, <2>2, <1>2 DEF TreeTypes
<1>14. Acyclic(kids')
  <2>1. (n \in Group => ToSet(kids[n]) = {})
    BY <1>3, TreeFacts
  <2>2. Under(kids, n) = {n}
    BY ONLY <2>1, n \in Node, UnderEmpty
  <2>3. \A h \in Group : ToSet(kids'[h]) \subseteq (ToSet(kids[h]) \cup (IF h = g THEN {n} ELSE {}))
    <3>1. \A h \in Group : ToSet(kids'[h]) = Members(parent', h) /\ ToSet(kids[h]) = Members(parent, h)
      BY <1>9, <1>12 DEF Lists
    <3> SUFFICES ASSUME NEW h \in Group
                 PROVE  ToSet(kids'[h]) \subseteq (ToSet(kids[h]) \cup (IF h = g THEN {n} ELSE {}))
      OBVIOUS
    <3>2. CASE h = g
      BY ONLY <3>1, <3>2, <1>7, h \in Group
    <3>3. CASE h # g
      BY ONLY <3>1, <3>3, <1>7, h \in Group
    <3> QED
      BY <3>2, <3>3
  <2>4. Acyclic(kids) /\ g \notin Under(kids, n) /\ n \in Node /\ g \in Group
    BY <1>2, <1>3, <2>2
  <2> QED
    BY ONLY <2>3, <2>4, <1>13, GraftAcyclic
<1>15. CountersExact' /\ synthKids' \in [Group -> Nat] /\ groupKids' \in [Group -> Nat]
       /\ groups' \in [Group -> SUBSET Group]
  <2> DEFINE M == Members(parent, g)
             M2 == Members(parent', g)
  <2>1. \A h \in Group : ToSet(kids'[h]) = Members(parent', h) /\ ToSet(kids[h]) = Members(parent, h)
    BY <1>9, <1>12 DEF Lists
  <2>2. M \subseteq Node /\ n \notin M /\ target \in M /\ n \in Node /\ M2 = (M \ {target}) \cup {n}
    <3>1. M \subseteq Node
      BY DEF Members
    <3>2. n \notin M /\ target \in M /\ M2 = (M \ {target}) \cup {n}
      BY <1>3, <1>4, <1>6, <1>7
    <3> QED
      BY <3>1, <3>2
  <2>3. \A h \in Group : /\ synthKids[h] = Cardinality(Members(parent, h) \cap Synth)
                         /\ groupKids[h] = Cardinality(Members(parent, h) \cap Group)
                         /\ groups[h] = Members(parent, h) \cap Group
    BY <1>2, <2>1 DEF CountersExact
  <2>4. /\ synthKids' \in [Group -> Int] /\ groupKids' \in [Group -> Int]
        /\ \A h \in Group :
             /\ synthKids'[h] = IF h = g THEN synthKids[h] + One(n, Synth) - One(target, Synth) ELSE synthKids[h]
             /\ groupKids'[h] = IF h = g THEN groupKids[h] + One(n, Group) - One(target, Group) ELSE groupKids[h]
    <3>1. /\ One(n, Synth) \in {0, 1} /\ One(target, Synth) \in {0, 1}
          /\ One(n, Group) \in {0, 1} /\ One(target, Group) \in {0, 1}
      BY OneFacts
    <3>2. /\ synthKids \in [Group -> Nat] /\ groupKids \in [Group -> Nat] /\ g \in Group
          /\ synthKids' = [synthKids EXCEPT ![g] = @ + One(n, Synth) - One(target, Synth)]
          /\ groupKids' = [groupKids EXCEPT ![g] = @ + One(n, Group) - One(target, Group)]
      BY <1>1, <1>2, <1>3 DEF TreeTypes
    <3>3. /\ synthKids' \in [Group -> Int]
          /\ \A h \in Group : synthKids'[h] =
               IF h = g THEN synthKids[h] + One(n, Synth) - One(target, Synth) ELSE synthKids[h]
      BY ONLY <3>1, <3>2, CountAt
    <3>4. /\ groupKids' \in [Group -> Int]
          /\ \A h \in Group : groupKids'[h] =
               IF h = g THEN groupKids[h] + One(n, Group) - One(target, Group) ELSE groupKids[h]
      BY ONLY <3>1, <3>2, CountAt
    <3> QED
      BY ONLY <3>3, <3>4
  <2>5. /\ groups' \in [Group -> SUBSET Group]
        /\ \A h \in Group : groups'[h] =
             IF h = g THEN (groups[h] \cup ({n} \cap Group)) \ {target} ELSE groups[h]
    BY <1>1, <1>2 DEF TreeTypes
  <2> HIDE DEF M, M2
  <2>6. /\ Cardinality(M2 \cap Synth) = Cardinality(M \cap Synth) + One(n, Synth) - One(target, Synth)
        /\ Cardinality(M2 \cap Group) = Cardinality(M \cap Group) + One(n, Group) - One(target, Group)
        /\ Cardinality(M2 \cap Synth) \in Nat /\ Cardinality(M2 \cap Group) \in Nat
    <3>1. /\ Cardinality(M2 \cap Synth) = Cardinality(M \cap Synth) + One(n, Synth) - One(target, Synth)
          /\ Cardinality(M2 \cap Synth) \in Nat
      <4>1. /\ Cardinality(((M \ {target}) \cup {n}) \cap Synth)
                = Cardinality(M \cap Synth) + One(n, Synth) - One(target, Synth)
            /\ Cardinality(((M \ {target}) \cup {n}) \cap Synth) \in Nat
        BY ONLY <2>2, SwapCount
      <4> QED
        BY ONLY <2>2, <4>1, Zenon
    <3>2. /\ Cardinality(M2 \cap Group) = Cardinality(M \cap Group) + One(n, Group) - One(target, Group)
          /\ Cardinality(M2 \cap Group) \in Nat
      <4>1. /\ Cardinality(((M \ {target}) \cup {n}) \cap Group)
                = Cardinality(M \cap Group) + One(n, Group) - One(target, Group)
            /\ Cardinality(((M \ {target}) \cup {n}) \cap Group) \in Nat
        BY ONLY <2>2, SwapCount
      <4> QED
        BY ONLY <2>2, <4>1, Zenon
    <3> QED
      BY <3>1, <3>2
  <2>7. M2 \cap Group = ((M \cap Group) \cup ({n} \cap Group)) \ {target}
    BY ONLY <2>2, <1>3
  <2>8. ASSUME NEW h \in Group
        PROVE  /\ synthKids'[h] = Cardinality(Members(parent', h) \cap Synth)
               /\ groupKids'[h] = Cardinality(Members(parent', h) \cap Group)
               /\ groups'[h] = Members(parent', h) \cap Group
               /\ synthKids'[h] \in Nat /\ groupKids'[h] \in Nat
    <3>1. CASE h = g
      <4>1. synthKids'[h] = Cardinality(M2 \cap Synth) /\ groupKids'[h] = Cardinality(M2 \cap Group)
        BY <3>1, <2>3, <2>4, <2>6 DEF M
      <4>2. groups'[h] = M2 \cap Group
        BY <3>1, <2>3, <2>5, <2>7 DEF M
      <4> QED
        BY <4>1, <4>2, <3>1, <2>6 DEF M2
    <3>2. CASE h # g
      <4>1. synthKids'[h] = synthKids[h] /\ groupKids'[h] = groupKids[h] /\ groups'[h] = groups[h]
        BY <3>2, <2>4, <2>5
      <4>2. synthKids[h] \in Nat /\ groupKids[h] \in Nat
        BY <1>2 DEF TreeTypes
      <4> QED
        BY <3>2, <4>1, <4>2, <2>3, <1>7
    <3> QED
      BY <3>1, <3>2
  <2>9. CountersExact'
    BY <2>1, <2>8 DEF CountersExact
  <2> QED
    BY <2>4, <2>5, <2>8, <2>9
<1>16. Registered'
  <2>1. Root \in ids' /\ parent'[Root] = None
    BY <1>1, <1>2, <1>3, <1>5, Kinds DEF Registered
  <2>2. \A m \in Node : parent'[m] # None => m \in ids' /\ parent'[m] \in ids'
    BY <1>1, <1>2, <1>3, <1>5 DEF Registered
  <2> QED
    BY <2>1, <2>2 DEF Registered
<1>17. TotalsExact' /\ synthCount' \in Nat /\ groupCount' \in Nat
  <2> DEFINE L == Linked(parent)
             L2 == Linked(parent')
  <2>1. L \subseteq Node /\ n \notin L /\ target \in L /\ n \in Node /\ L2 = (L \ {target}) \cup {n}
    BY <1>1, <1>3, <1>8 DEF Linked
  <2>2. synthCount = Cardinality(L \cap Synth) /\ groupCount = 1 + Cardinality(L \cap Group)
    BY <1>2, TotalsAre DEF TotalsExact
  <2> HIDE DEF L, L2
  <2>3. Cardinality(L \cap Synth) \in Nat /\ Cardinality(L \cap Group) \in Nat
    BY <2>1, SubsetCount
  <2>4. /\ Cardinality(L2 \cap Synth) = Cardinality(L \cap Synth) + One(n, Synth) - One(target, Synth)
        /\ Cardinality(L2 \cap Group) = Cardinality(L \cap Group) + One(n, Group) - One(target, Group)
        /\ Cardinality(L2 \cap Synth) \in Nat /\ Cardinality(L2 \cap Group) \in Nat
    <3>1. /\ Cardinality(L2 \cap Synth) = Cardinality(L \cap Synth) + One(n, Synth) - One(target, Synth)
          /\ Cardinality(L2 \cap Synth) \in Nat
      <4>1. /\ Cardinality(((L \ {target}) \cup {n}) \cap Synth)
                = Cardinality(L \cap Synth) + One(n, Synth) - One(target, Synth)
            /\ Cardinality(((L \ {target}) \cup {n}) \cap Synth) \in Nat
        BY ONLY <2>1, SwapCount
      <4> QED
        BY ONLY <2>1, <4>1, Zenon
    <3>2. /\ Cardinality(L2 \cap Group) = Cardinality(L \cap Group) + One(n, Group) - One(target, Group)
          /\ Cardinality(L2 \cap Group) \in Nat
      <4>1. /\ Cardinality(((L \ {target}) \cup {n}) \cap Group)
                = Cardinality(L \cap Group) + One(n, Group) - One(target, Group)
            /\ Cardinality(((L \ {target}) \cup {n}) \cap Group) \in Nat
        BY ONLY <2>1, SwapCount
      <4> QED
        BY ONLY <2>1, <4>1, Zenon
    <3> QED
      BY <3>1, <3>2
  <2>5. synthCount' = Cardinality(L2 \cap Synth)
    BY <1>1, <2>2, <2>4
  <2> DEFINE a == Cardinality(L \cap Group)
             b == Cardinality(L2 \cap Group)
             x == One(n, Group)
             y == One(target, Group)
  <2>6. a \in Nat /\ b \in Nat /\ x \in {0, 1} /\ y \in {0, 1} /\ b = a + x - y /\ groupCount' = (1 + a) + x - y
    BY <1>1, <2>2, <2>3, <2>4, OneFacts
  <2>7. groupCount' = 1 + b /\ groupCount' \in Nat
    <3> HIDE DEF a, b, x, y
    <3> QED
      BY ONLY <2>6
  <2> QED
    BY <2>4, <2>5, <2>7, TotalsAreNext DEF L2, TotalsExact
<1>18. refs' \in [Node -> Nat] /\ RefsAreHolders'
  <2>1. refs[target] = 2 + (IF target \in queue THEN 1 ELSE 0)
    <3>1. refs[target] = (IF target \in ids THEN 1 ELSE 0) + (IF parent[target] # None THEN 1 ELSE 0)
                            + (IF target \in queue THEN 1 ELSE 0)
      BY <1>2 DEF RefsAreHolders
    <3> QED
      BY ONLY <3>1, <1>1
  <2>2. \A m \in Node : refs'[m] = IF m = target THEN refs[m] - 1 ELSE IF m = n THEN 2 ELSE refs[m]
    BY <1>1, <1>2, <1>3 DEF TreeTypes
  <2>3. ASSUME NEW m \in Node
        PROVE  /\ refs'[m] = (IF m \in ids' THEN 1 ELSE 0) + (IF parent'[m] # None THEN 1 ELSE 0)
                               + (IF m \in queue' THEN 1 ELSE 0)
               /\ refs'[m] \in Nat
    <3>1. CASE m = n
      <4>1. m \in ids' /\ parent'[m] # None /\ m \notin queue' /\ refs'[m] = 2
        BY <3>1, <1>1, <1>3, <1>5, <2>2, Kinds
      <4> QED
        BY ONLY <4>1
    <3>2. CASE m = target
      <4>1. /\ m \in ids' /\ parent'[m] = None /\ queue' = queue
            /\ refs'[m] = refs[m] - 1 /\ refs[m] = 2 + (IF m \in queue THEN 1 ELSE 0)
        BY <3>2, <1>1, <1>5, <2>1, <2>2
      <4> QED
        BY ONLY <4>1
    <3>3. CASE m # n /\ m # target
      <4>1. (m \in ids' <=> m \in ids) /\ parent'[m] = parent[m] /\ queue' = queue /\ refs'[m] = refs[m]
        BY <3>3, <1>1, <1>5, <2>2
      <4>2. refs[m] \in Nat
        BY <1>2 DEF TreeTypes
      <4> QED
        BY <4>1, <4>2, <1>2 DEF RefsAreHolders
    <3> QED
      BY <3>1, <3>2, <3>3
  <2>4. refs' = [m \in Node |-> refs'[m]]
    BY <1>1, <1>2 DEF TreeTypes
  <2> QED
    BY <2>3, <2>4 DEF RefsAreHolders
<1>19. QueueCurrent'
  BY <1>1 DEF QueueCurrent, AsksForUpdate
<1>20. /\ running' \in [Synth -> BOOLEAN] /\ ids' \subseteq Node
       /\ queue' \subseteq Synth /\ dirty' \in BOOLEAN
  BY <1>1, <1>2 DEF TreeTypes, AsksForUpdate
<1>21. TreeTypes'
  BY <1>5, <1>13, <1>15, <1>17, <1>18, <1>20 DEF TreeTypes
<1>22. Forest'
  BY <1>12 DEF Forest
<1> QED
  BY <1>14, <1>15, <1>16, <1>17, <1>18, <1>19, <1>21, <1>22 DEF TreeInv

-----------------------------------------------------------------------------
(* Subtrees leave the tree                                                 *)

LEMMA LessCount ==
  ASSUME NEW M, M \subseteq Node, NEW F, NEW Kind
  PROVE  /\ Cardinality((M \ F) \cap Kind) = Cardinality(M \cap Kind) - Cardinality(M \cap F \cap Kind)
         /\ Cardinality((M \ F) \cap Kind) \in Nat
<1> DEFINE A == M \cap Kind
           B == M \cap F \cap Kind
           C == (M \ F) \cap Kind
<1>1. A \subseteq Node /\ C \subseteq Node /\ C = A \ B /\ A \cap B = B
  OBVIOUS
<1> HIDE DEF A, B, C
<1>2. IsFiniteSet(A) /\ IsFiniteSet(C)
  BY <1>1, Kinds, FS_Subset
<1>3. Cardinality(A \ B) = Cardinality(A) - Cardinality(A \cap B) /\ Cardinality(C) \in Nat
  BY <1>2, FS_Difference, FS_CardinalityType
<1>4. Cardinality(C) = Cardinality(A) - Cardinality(B)
  BY ONLY <1>1, <1>3
<1> QED
  BY <1>3, <1>4 DEF A, B, C

(* What the freed nodes are: everything under them goes with them, and     *)
(* only they are children of a group that stays.                           *)
LEMMA FreedFacts ==
  ASSUME TreeInv, NEW F, F \subseteq Node, \A f \in F : parent[f] # None
  PROVE  /\ F \subseteq FreedBy(F) /\ FreedBy(F) \subseteq Node
         /\ \A m \in FreedBy(F) : /\ parent[m] # None /\ m \in ids /\ m # Root
                                  /\ m \in F \/ parent[m] \in FreedBy(F)
         /\ \A m \in Node : parent[m] \in FreedBy(F) => m \in FreedBy(F)
         /\ F = {} => FreedBy(F) = {}
<1> DEFINE D == FreedBy(F)
<1>1. /\ \A m : m \in D <=> \E f \in F : m \in Under(kids, f)
      /\ F = {} => D = {}
  BY DEF FreedBy, Subtree
<1> HIDE DEF D
<1>2. F \subseteq D
  BY <1>1, UnderClosed
<1>3. D \subseteq Node
  <2>1. kids \in [Group -> Seq(Node)]
    BY DEF TreeInv, TreeTypes
  <2> QED
    BY <2>1, <1>1, UnderNodes
<1>4. ASSUME NEW m \in Node, parent[m] \in D PROVE m \in D
  <2>1. PICK f \in F : parent[m] \in Under(kids, f)
    BY <1>1, <1>4
  <2>2. parent[m] \in Group /\ m \in ToSet(kids[parent[m]])
    <3>1. parent[m] # None
      BY <1>3, <1>4, Kinds
    <3> QED
      BY <3>1, TreeFacts
  <2>3. Closed(kids, Under(kids, f))
    BY <2>1, UnderClosed
  <2>4. m \in Under(kids, f)
    BY ONLY <2>1, <2>2, <2>3 DEF Closed
  <2> QED
    BY <2>4, <1>1
<1>5. ASSUME NEW m \in D
      PROVE  parent[m] # None /\ m \in ids /\ m # Root /\ (m \in F \/ parent[m] \in D)
  <2>1. PICK f \in F : m \in Under(kids, f)
    BY <1>1
  <2>2. m \in F \/ parent[m] \in D
    <3>1. CASE m = f
      BY <3>1
    <3>2. CASE m # f
      <4>1. f \in Node /\ m \in Node
        BY <1>3
      <4>2. PICK g \in Under(kids, f) \cap Group : m \in ToSet(kids[g])
        BY ONLY <2>1, <3>2, <4>1, UnderIsChild
      <4>3. parent[m] = g /\ g \in D
        BY <4>1, <4>2, <1>1, TreeFacts
      <4> QED
        BY <4>3
    <3> QED
      BY <3>1, <3>2
  <2>3. parent[m] # None
    BY <2>2, <1>3, Kinds
  <2> QED
    BY <2>2, <2>3, <1>3 DEF TreeInv, Registered
<1> QED
  BY <1>1, <1>2, <1>3, <1>4, <1>5 DEF D

LEMMA FreeKeepsTree ==
  ASSUME TreeInv, NEW F, F \subseteq Node, \A f \in F : parent[f] # None, FreeNodes(F)
  PROVE  TreeInv'
<1> DEFINE D == FreedBy(F)
           lost(g, Kind) == Cardinality(ToSet(kids[g]) \cap F \cap Kind)
<1>1. /\ kids' = [g \in Group |-> IF g \in D THEN <<>> ELSE Without(kids[g], F)]
      /\ groups' = [g \in Group |-> IF g \in D THEN {} ELSE groups[g] \ F]
      /\ synthKids' = [g \in Group |-> IF g \in D THEN 0 ELSE synthKids[g] - lost(g, Synth)]
      /\ groupKids' = [g \in Group |-> IF g \in D THEN 0 ELSE groupKids[g] - lost(g, Group)]
      /\ parent' = [n \in Node |-> IF n \in D THEN None ELSE parent[n]]
      /\ ids' = ids \ D
      /\ refs' = [n \in Node |-> IF n \in D THEN refs[n] - 2 ELSE refs[n]]
      /\ synthCount' = synthCount - Cardinality(D \cap Synth)
      /\ groupCount' = groupCount - Cardinality(D \cap Group)
      /\ dirty' = (dirty \/ F # {})
      /\ running' = running /\ queue' = queue
  BY DEF FreeNodes
<1>2. /\ TreeTypes /\ Forest /\ Acyclic(kids) /\ Registered /\ CountersExact
      /\ TotalsExact /\ RefsAreHolders /\ QueueCurrent
  BY DEF TreeInv
<1>3. /\ F \subseteq D /\ D \subseteq Node
      /\ \A m \in D : parent[m] # None /\ m \in ids /\ m # Root /\ (m \in F \/ parent[m] \in D)
      /\ \A m \in Node : parent[m] \in D => m \in D
      /\ F = {} => D = {}
  BY FreedFacts
<1> HIDE DEF D, lost
<1>4. /\ parent \in [Node -> Group \cup {None}] /\ parent' \in [Node -> Group \cup {None}]
      /\ \A m \in Node : parent'[m] = IF m \in D THEN None ELSE parent[m]
  BY <1>1, <1>2 DEF TreeTypes
<1>5. ASSUME NEW g \in Group
      PROVE  Members(parent', g) = IF g \in D THEN {} ELSE Members(parent, g) \ F
  <2>1. g # None
    BY Kinds
  <2>2. CASE g \in D
    BY ONLY <2>1, <2>2, <1>3, <1>4 DEF Members
  <2>3. CASE g \notin D
    BY ONLY <2>1, <2>3, <1>3, <1>4 DEF Members
  <2> QED
    BY <2>2, <2>3
<1>6. \A g \in Group : Lists(kids[g], Members(parent, g))
  BY <1>2 DEF Forest
<1>7. ASSUME NEW g \in Group PROVE Lists(kids'[g], Members(parent', g))
  <2>1. CASE g \in D
    <3>1. kids'[g] = << >> /\ Members(parent', g) = {}
      BY <2>1, <1>1, <1>5
    <3> QED
      BY <3>1, ListsNothing
  <2>2. CASE g \notin D
    <3>1. kids'[g] = Without(kids[g], F) /\ Members(parent', g) = Members(parent, g) \ F
      BY <2>2, <1>1, <1>5
    <3> QED
      BY <3>1, <1>6, ListsWithout
  <2> QED
    BY <2>1, <2>2
<1>8. \A g \in Group : ToSet(kids'[g]) = Members(parent', g) /\ ToSet(kids[g]) = Members(parent, g)
  BY <1>6, <1>7 DEF Lists
<1>9. kids' \in [Group -> Seq(Node)] /\ kids \in [Group -> Seq(Node)]
  <2>1. \A g \in Group : kids'[g] \in Seq(Node)
    BY <1>7 DEF Lists
  <2>2. kids' = [g \in Group |-> kids'[g]]
    BY <1>1
  <2> QED
    BY <2>1, <2>2, <1>2 DEF TreeTypes
<1>10. Acyclic(kids')
  <2>1. \A g \in Group : ToSet(kids'[g]) \subseteq ToSet(kids[g])
    BY ONLY <1>5, <1>8
  <2>2. Acyclic(kids)
    BY <1>2
  <2> QED
    BY ONLY <2>1, <2>2, <1>9, PruneAcyclic
<1>11. Registered'
  <2>1. Root \in ids' /\ parent'[Root] = None
    BY <1>1, <1>2, <1>3, <1>4, Kinds DEF Registered
  <2>2. \A m \in Node : parent'[m] # None => m \in ids' /\ parent'[m] \in ids'
    BY <1>1, <1>2, <1>3, <1>4 DEF Registered
  <2> QED
    BY <2>1, <2>2 DEF Registered
<1>12. CountersExact' /\ synthKids' \in [Group -> Nat] /\ groupKids' \in [Group -> Nat]
       /\ groups' \in [Group -> SUBSET Group]
  <2>1. ASSUME NEW g \in Group
        PROVE  /\ synthKids'[g] = Cardinality(Members(parent', g) \cap Synth)
               /\ groupKids'[g] = Cardinality(Members(parent', g) \cap Group)
               /\ groups'[g] = Members(parent', g) \cap Group
               /\ synthKids'[g] \in Nat /\ groupKids'[g] \in Nat
    <3>1. CASE g \in D
      <4>1. synthKids'[g] = 0 /\ groupKids'[g] = 0 /\ groups'[g] = {} /\ Members(parent', g) = {}
        BY <3>1, <1>1, <1>5
      <4>2. {} \cap Synth = {} /\ {} \cap Group = {}
        OBVIOUS
      <4> QED
        BY ONLY <4>1, <4>2, FS_EmptySet
    <3>2. CASE g \notin D
      <4> DEFINE M == Members(parent, g)
      <4>1. /\ synthKids'[g] = synthKids[g] - lost(g, Synth)
            /\ groupKids'[g] = groupKids[g] - lost(g, Group)
            /\ groups'[g] = groups[g] \ F
        BY <3>2, <1>1
      <4>2. /\ synthKids[g] = Cardinality(M \cap Synth)
            /\ groupKids[g] = Cardinality(M \cap Group)
            /\ groups[g] = M \cap Group
        BY <1>2, <1>8 DEF CountersExact
      <4>3. /\ lost(g, Synth) = Cardinality(M \cap F \cap Synth)
            /\ lost(g, Group) = Cardinality(M \cap F \cap Group)
        BY <1>8 DEF lost
      <4>4. M \subseteq Node
        BY DEF Members
      <4>5. Members(parent', g) = M \ F
        BY <3>2, <1>5
      <4> HIDE DEF M
      <4>6. /\ Cardinality((M \ F) \cap Synth) = Cardinality(M \cap Synth) - Cardinality(M \cap F \cap Synth)
            /\ Cardinality((M \ F) \cap Synth) \in Nat
        BY ONLY <4>4, LessCount
      <4>7. /\ Cardinality((M \ F) \cap Group) = Cardinality(M \cap Group) - Cardinality(M \cap F \cap Group)
            /\ Cardinality((M \ F) \cap Group) \in Nat
        BY ONLY <4>4, LessCount
      <4>8. groups'[g] = (M \ F) \cap Group
        BY ONLY <4>1, <4>2
      <4> QED
        BY ONLY <4>1, <4>2, <4>3, <4>5, <4>6, <4>7, <4>8
    <3> QED
      BY <3>1, <3>2
  <2>2. CountersExact'
    BY <1>8, <2>1 DEF CountersExact
  <2>3. groups' \in [Group -> SUBSET Group]
    BY <1>1, <1>2 DEF TreeTypes
  <2> QED
    BY <1>1, <2>1, <2>2, <2>3
<1>13. TotalsExact' /\ synthCount' \in Nat /\ groupCount' \in Nat
  <2> DEFINE L == Linked(parent)
  <2>1. L \subseteq Node /\ L \cap D = D /\ Linked(parent') = L \ D
    BY <1>3, <1>4 DEF Linked
  <2>2. synthCount = Cardinality(L \cap Synth) /\ groupCount = 1 + Cardinality(L \cap Group)
    BY <1>2, TotalsAre DEF TotalsExact
  <2> HIDE DEF L
  <2>3. /\ Cardinality((L \ D) \cap Synth) = Cardinality(L \cap Synth) - Cardinality(L \cap D \cap Synth)
        /\ Cardinality((L \ D) \cap Synth) \in Nat
    BY ONLY <2>1, LessCount
  <2>4. /\ Cardinality((L \ D) \cap Group) = Cardinality(L \cap Group) - Cardinality(L \cap D \cap Group)
        /\ Cardinality((L \ D) \cap Group) \in Nat
    BY ONLY <2>1, LessCount
  <2>5. D \subseteq Node /\ L \subseteq Node
    BY <1>3, <2>1
  <2> DEFINE a == Cardinality(L \cap Synth)
             b == Cardinality(D \cap Synth)
             c == Cardinality((L \ D) \cap Synth)
             x == Cardinality(L \cap Group)
             y == Cardinality(D \cap Group)
             z == Cardinality((L \ D) \cap Group)
  <2>6. /\ a \in Nat /\ b \in Nat /\ x \in Nat /\ y \in Nat
    BY <2>5, SubsetCount
  <2>7. L \cap D \cap Synth = D \cap Synth /\ L \cap D \cap Group = D \cap Group
    BY <2>1
  <2>8. c = a - b /\ z = x - y /\ c \in Nat /\ z \in Nat
    BY ONLY <2>3, <2>4, <2>7
  <2>9. synthCount' = a - b /\ groupCount' = (1 + x) - y
    BY <1>1, <2>2
  <2>10. Cardinality(Linked(parent') \cap Synth) = c /\ Cardinality(Linked(parent') \cap Group) = z
    BY <2>1
  <2> HIDE DEF a, b, c, x, y, z
  <2>11. synthCount' = c /\ groupCount' = 1 + z /\ synthCount' \in Nat /\ groupCount' \in Nat
    BY ONLY <2>6, <2>8, <2>9
  <2> QED
    BY <2>10, <2>11, TotalsAreNext DEF TotalsExact
<1>14. refs' \in [Node -> Nat] /\ RefsAreHolders'
  <2>1. ASSUME NEW m \in Node
        PROVE  /\ refs'[m] = (IF m \in ids' THEN 1 ELSE 0) + (IF parent'[m] # None THEN 1 ELSE 0)
                               + (IF m \in queue' THEN 1 ELSE 0)
               /\ refs'[m] \in Nat
    <3>1. refs[m] = (IF m \in ids THEN 1 ELSE 0) + (IF parent[m] # None THEN 1 ELSE 0)
                      + (IF m \in queue THEN 1 ELSE 0)
      BY <1>2 DEF RefsAreHolders
    <3>2. CASE m \in D
      <4>1. /\ m \notin ids' /\ parent'[m] = None /\ queue' = queue /\ refs'[m] = refs[m] - 2
            /\ m \in ids /\ parent[m] # None
        BY <3>2, <1>1, <1>3, <1>4
      <4> QED
        BY ONLY <3>1, <4>1
    <3>3. CASE m \notin D
      <4>1. /\ (m \in ids' <=> m \in ids) /\ parent'[m] = parent[m]
            /\ queue' = queue /\ refs'[m] = refs[m]
        BY <3>3, <1>1, <1>4
      <4>2. refs[m] \in Nat
        BY <1>2 DEF TreeTypes
      <4> QED
        BY ONLY <3>1, <4>1, <4>2
    <3> QED
      BY <3>2, <3>3
  <2> QED
    BY <1>1, <2>1 DEF RefsAreHolders
<1>15. QueueCurrent'
  <2> SUFFICES ASSUME ~dirty' PROVE queue' = Under(kids', Root) \cap Synth
    BY DEF QueueCurrent, SynthsUnder, Subtree
  <2>1. ~dirty /\ F = {} /\ D = {}
    BY <1>1, <1>3
  <2>2. queue = Under(kids, Root) \cap Synth
    BY <1>2, <2>1 DEF QueueCurrent, SynthsUnder, Subtree
  <2>3. \A g \in Group : ToSet(kids'[g]) = ToSet(kids[g])
    BY ONLY <2>1, <1>5, <1>8
  <2>4. Under(kids', Root) = Under(kids, Root)
    BY <2>3, Kinds, UnderSame
  <2> QED
    BY <1>1, <2>2, <2>4
<1>16. /\ running' \in [Synth -> BOOLEAN] /\ ids' \subseteq Node
       /\ queue' \subseteq Synth /\ dirty' \in BOOLEAN
  BY <1>1, <1>2 DEF TreeTypes
<1>17. TreeTypes'
  BY <1>4, <1>9, <1>12, <1>13, <1>14, <1>16 DEF TreeTypes
<1>18. Forest'
  BY <1>7 DEF Forest
<1> QED
  BY <1>10, <1>11, <1>12, <1>13, <1>14, <1>15, <1>17, <1>18 DEF TreeInv

-----------------------------------------------------------------------------
(* The other steps of the tree                                             *)

(* Only who runs changes.                                                  *)
LEMMA SameTree ==
  ASSUME TreeInv, running' \in [Synth -> BOOLEAN], UNCHANGED <<tree, refs, queue, dirty>>
  PROVE  TreeInv'
<1>1. /\ kids' = kids /\ groups' = groups /\ synthKids' = synthKids /\ groupKids' = groupKids
      /\ parent' = parent /\ ids' = ids /\ synthCount' = synthCount /\ groupCount' = groupCount
      /\ refs' = refs /\ queue' = queue /\ dirty' = dirty
  BY DEF tree
<1>2. TreeTypes'
  BY <1>1 DEF TreeInv, TreeTypes
<1>3. Forest' /\ Acyclic(kids') /\ Registered'
  BY <1>1 DEF TreeInv, Forest, Registered
<1>4. CountersExact' /\ TotalsExact' /\ RefsAreHolders'
  BY <1>1 DEF TreeInv, CountersExact, TotalsExact, RefsAreHolders
<1>5. QueueCurrent'
  BY <1>1 DEF TreeInv, QueueCurrent, SynthsUnder, Subtree
<1> QED
  BY <1>2, <1>3, <1>4, <1>5 DEF TreeInv

LEMMA RunningTypes ==
  ASSUME TreeInv, NEW n, NEW flag \in BOOLEAN, SetRunning(n, flag)
  PROVE  running' \in [Synth -> BOOLEAN]
BY DEF SetRunning, TreeInv, TreeTypes

(* What a command or a done action frees has a parent.                     *)
LEMMA FreesLinked ==
  ASSUME TreeInv
  PROVE  /\ \A n \in Node : Freeable(n) \subseteq Node /\ \A f \in Freeable(n) : parent[f] # None
         /\ \A g \in Group : ToSet(kids[g]) \subseteq Node /\ \A f \in ToSet(kids[g]) : parent[f] # None
         /\ \A g \in Group : SynthsUnder(g) \subseteq Node /\ \A f \in SynthsUnder(g) : parent[f] # None
<1>1. \A n \in Node : Freeable(n) \subseteq Node /\ \A f \in Freeable(n) : parent[f] # None
  BY DEF Freeable
<1>2. ASSUME NEW g \in Group
      PROVE  ToSet(kids[g]) \subseteq Node /\ \A f \in ToSet(kids[g]) : parent[f] # None
  <2>1. ToSet(kids[g]) = Members(parent, g)
    BY TreeFacts
  <2> QED
    BY <2>1, Kinds DEF Members
<1>3. ASSUME NEW g \in Group, NEW f \in SynthsUnder(g)
      PROVE  f \in Node /\ parent[f] # None
  <2>1. f \in Under(kids, g) /\ f \in Node /\ g \in Node /\ f # g
    BY Kinds DEF SynthsUnder, Subtree
  <2>2. PICK h \in Under(kids, g) \cap Group : f \in ToSet(kids[h])
    BY ONLY <2>1, UnderIsChild
  <2>3. parent[f] = h
    BY <2>1, <2>2, TreeFacts
  <2> QED
    BY <2>1, <2>2, <2>3, Kinds
<1> QED
  BY <1>1, <1>2, <1>3

LEMMA AudioKeepsTree ==
  ASSUME TreeInv, ComputeAudio
  PROVE  TreeInv'
<1> DEFINE new == IF dirty THEN SynthsUnder(Root) ELSE queue
<1>1. /\ queue' = new /\ refs' = [n \in Node |-> QueueRefs(n, new)] /\ ~dirty' /\ dirty' = FALSE
      /\ running' = running /\ UNCHANGED tree
  BY DEF ComputeAudio
<1>2. /\ kids' = kids /\ groups' = groups /\ synthKids' = synthKids /\ groupKids' = groupKids
      /\ parent' = parent /\ ids' = ids /\ synthCount' = synthCount /\ groupCount' = groupCount
  BY <1>1 DEF tree
<1>3. new = SynthsUnder(Root) /\ new \subseteq Synth
  BY DEF TreeInv, QueueCurrent, SynthsUnder
<1> HIDE DEF new
<1>4. ASSUME NEW m \in Node
      PROVE  /\ refs'[m] = (IF m \in ids THEN 1 ELSE 0) + (IF parent[m] # None THEN 1 ELSE 0)
                             + (IF m \in queue' THEN 1 ELSE 0)
             /\ refs'[m] \in Nat
  <2>1. refs[m] = (IF m \in ids THEN 1 ELSE 0) + (IF parent[m] # None THEN 1 ELSE 0)
                    + (IF m \in queue THEN 1 ELSE 0)
    BY DEF TreeInv, RefsAreHolders
  <2>2. refs'[m] = refs[m] + (IF m \in queue' THEN 1 ELSE 0) - (IF m \in queue THEN 1 ELSE 0)
    BY <1>1 DEF QueueRefs
  <2> QED
    BY ONLY <2>1, <2>2
<1>5. refs' \in [Node -> Nat] /\ RefsAreHolders'
  BY <1>1, <1>2, <1>4 DEF RefsAreHolders
<1>6. TreeTypes'
  BY <1>1, <1>2, <1>3, <1>5 DEF TreeInv, TreeTypes
<1>7. Forest' /\ Acyclic(kids') /\ Registered'
  BY <1>2 DEF TreeInv, Forest, Registered
<1>8. CountersExact' /\ TotalsExact'
  BY <1>2 DEF TreeInv, CountersExact, TotalsExact
<1>9. QueueCurrent'
  BY <1>1, <1>2, <1>3 DEF QueueCurrent, SynthsUnder, Subtree
<1> QED
  BY <1>5, <1>6, <1>7, <1>8, <1>9 DEF TreeInv
-----------------------------------------------------------------------------
(* What a done action appends to the lists                                 *)

LEMMA Reversed ==
  ASSUME NEW V, NEW s \in Seq(V)
  PROVE  Reverse(s) \in Seq(V)
<1> DEFINE n == Len(s)
           r == [i \in 1..n |-> s[(n - i) + 1]]
<1>1. n \in Nat /\ \A i \in 1..n : s[i] \in V
  BY LenProperties, ElementOfSeq
<1>2. \A i \in 1..n : (n - i) + 1 \in 1..n
  BY <1>1
<1>3. r \in [1..n -> V]
  BY <1>1, <1>2
<1>4. Reverse(s) = r
  BY DEF Reverse
<1> HIDE DEF r, n
<1>5. r \in Seq(V)
  BY <1>1, <1>3
<1> QED
  BY <1>4, <1>5

LEMMA NarrowSeq ==
  ASSUME NEW W, NEW s \in Seq(W), NEW V, \A i \in 1..Len(s) : s[i] \in V
  PROVE  s \in Seq(V)
<1> DEFINE n == Len(s)
<1>1. n \in Nat /\ s \in [1..n -> W]
  BY LenProperties
<1>2. s \in [1..n -> V]
  BY <1>1
<1> QED
  BY <1>1, <1>2

(* The siblings of a synth of the queue are in the tree too, so those that *)
(* are synths are in the queue.                                            *)
LEMMA SiblingsHeld ==
  ASSUME TreeInv, ~dirty, NEW s \in queue
  PROVE  /\ s \in Node /\ s \in Synth /\ parent[s] \in Group
         /\ Siblings(s) \in Seq(queue \cup Group)
         /\ Len(Siblings(s)) \in Nat
         /\ IndexOf(Siblings(s), s) \in 1..Len(Siblings(s))
<1> DEFINE p == parent[s]
           U == Under(kids, Root)
<1>1. s \in Synth /\ s \in Node /\ queue = U \cap Synth /\ s \in U /\ s # Root /\ Root \in Node
  BY Kinds DEF TreeInv, TreeTypes, QueueCurrent, SynthsUnder, Subtree
<1>2. PICK g \in U \cap Group : s \in ToSet(kids[g])
  BY ONLY <1>1, UnderIsChild
<1>3. p = g /\ p \in Group
  BY <1>1, <1>2, TreeFacts
<1>4. Closed(kids, U)
  BY <1>1, UnderClosed
<1>5. ToSet(kids[p]) \subseteq U /\ ToSet(kids[p]) \subseteq Node
  <2>1. ToSet(kids[p]) = Members(parent, p)
    BY <1>3, TreeFacts
  <2> QED
    BY <2>1, <1>2, <1>3, <1>4 DEF Closed, Members
<1>6. ToSet(kids[p]) \subseteq queue \cup Group
  BY <1>1, <1>5, Kinds
<1>7. Lists(kids[p], Members(parent, p)) /\ s \in Members(parent, p)
  BY <1>1, <1>3 DEF TreeInv, Forest, Members
<1>8. /\ kids[p] \in Seq(Node) /\ Len(kids[p]) \in Nat
      /\ \A i \in 1..Len(kids[p]) : kids[p][i] \in queue \cup Group
  <2>1. kids[p] \in Seq(Node) /\ Len(kids[p]) \in Nat /\ DOMAIN kids[p] = 1..Len(kids[p])
    BY <1>7, ListsElements DEF Lists
  <2> QED
    BY <2>1, <1>6 DEF ToSet
<1>9. kids[p] \in Seq(queue \cup Group)
  BY ONLY <1>8, NarrowSeq
<1>10. IndexOf(kids[p], s) \in 1..Len(kids[p])
  BY ONLY <1>7, IndexOfFacts
<1> QED
  BY <1>1, <1>3, <1>8, <1>9, <1>10 DEF Siblings

(* What is said of all siblings can be said of the neighbours.             *)
LEMMA NeighboursListed ==
  ASSUME NEW s, NEW V, Siblings(s) \in Seq(V), IndexOf(Siblings(s), s) \in 1..Len(Siblings(s)), NEW Kind
  PROVE  /\ Previous(s) \subseteq V /\ AtMostOne(Previous(s))
         /\ AtMostOne(Previous(s) \cap Kind)
         /\ Following(s) \subseteq V /\ AtMostOne(Following(s))
         /\ AllPrevious(s) \in Seq(V)
         /\ AllFollowing(s) \in Seq(V)
<1> DEFINE sib == Siblings(s)
           i == IndexOf(sib, s)
<1>1. sib \in Seq(V) /\ Len(sib) \in Nat /\ i \in 1..Len(sib)
  BY LenProperties
<1>2. \A j \in 1..Len(sib) : sib[j] \in V
  BY <1>1, ElementOfSeq
<1>3. /\ Previous(s) = (IF i = 1 THEN {} ELSE {sib[i - 1]})
      /\ Following(s) = (IF i = Len(sib) THEN {} ELSE {sib[i + 1]})
      /\ AllPrevious(s) = Reverse(SubSeq(sib, 1, i - 1))
      /\ AllFollowing(s) = SubSeq(sib, i + 1, Len(sib))
  BY DEF Previous, Following, AllPrevious, AllFollowing
<1> HIDE DEF sib, i
<1>4. (i # 1 => i - 1 \in 1..Len(sib)) /\ (i # Len(sib) => i + 1 \in 1..Len(sib))
  BY <1>1
<1>5. Previous(s) \subseteq V /\ Following(s) \subseteq V
  BY <1>2, <1>3, <1>4
<1>6. AtMostOne(Previous(s)) /\ AtMostOne(Following(s))
  BY <1>3 DEF AtMostOne
<1>7. AtMostOne(Previous(s) \cap Kind)
  BY <1>3 DEF AtMostOne
<1>8. AllFollowing(s) \in Seq(V)
  <2>1. i + 1 \in Int /\ Len(sib) \in Int /\ \A j \in (i + 1)..Len(sib) : sib[j] \in V
    BY <1>1, <1>2
  <2> QED
    BY <2>1, <1>3, SubSeqProperties
<1>9. AllPrevious(s) \in Seq(V)
  <2>1. 1 \in Int /\ i - 1 \in Int /\ \A j \in 1..(i - 1) : sib[j] \in V
    BY <1>1, <1>2
  <2>2. SubSeq(sib, 1, i - 1) \in Seq(V)
    BY <2>1, SubSeqProperties
  <2> QED
    BY <2>2, <1>3, Reversed
<1> QED
  BY <1>5, <1>6, <1>7, <1>8, <1>9

LEMMA NeighboursHeld ==
  ASSUME TreeInv, ~dirty, NEW s \in queue, NEW Kind
  PROVE  /\ Previous(s) \subseteq queue \cup Group /\ AtMostOne(Previous(s))
         /\ AtMostOne(Previous(s) \cap Kind)
         /\ Following(s) \subseteq queue \cup Group /\ AtMostOne(Following(s))
         /\ AllPrevious(s) \in Seq(queue \cup Group)
         /\ AllFollowing(s) \in Seq(queue \cup Group)
<1>1. Siblings(s) \in Seq(queue \cup Group) /\ IndexOf(Siblings(s), s) \in 1..Len(Siblings(s))
  BY SiblingsHeld
<1> QED
  BY ONLY <1>1, NeighboursListed

LEMMA DoneListed ==
  ASSUME TreeInv, ~dirty, NEW s \in queue, NEW a
  PROVE  /\ DoneBy(a, s) \in Seq(queue \cup Group)
         /\ PausedBy(a, s) \in Seq(queue \cup Group)
         /\ ResumedBy(a, s) \in Seq(queue \cup Group)
         /\ \A actions : GroupsBy(a, s, actions) \in Seq(Group)
<1> DEFINE V == queue \cup Group
           lone == parent[s] \in Parallel
           prev == IF lone THEN <<>> ELSE SetToSeq(Previous(s))
           following == IF lone THEN <<>> ELSE SetToSeq(Following(s))
           prevSynth == IF lone THEN <<>> ELSE SetToSeq(Previous(s) \cap Synth)
<1>1. s \in V /\ parent[s] \in Group /\ parent[s] \in V
  BY SiblingsHeld
<1>2. /\ Previous(s) \subseteq V /\ AtMostOne(Previous(s))
      /\ Following(s) \subseteq V /\ AtMostOne(Following(s))
      /\ AllPrevious(s) \in Seq(V)
  BY NeighboursHeld
<1>3. AtMostOne(Previous(s) \cap Synth) /\ AtMostOne(Previous(s) \cap Group)
  BY NeighboursHeld
<1> HIDE DEF V
<1>4. SetToSeq(Previous(s)) \in Seq(V) /\ SetToSeq(Following(s)) \in Seq(V)
  BY ONLY <1>2, SetSeqSet
<1>5. SetToSeq(Previous(s) \cap Synth) \in Seq(V)
  <2>1. Previous(s) \cap Synth \subseteq V
    BY <1>2
  <2> QED
    BY ONLY <2>1, <1>3, SetSeqSet
<1>6. SetToSeq(Previous(s) \cap Group) \in Seq(Group)
  <2>1. Previous(s) \cap Group \subseteq Group
    OBVIOUS
  <2> QED
    BY ONLY <2>1, <1>3, SetSeqSet
<1>7. <<>> \in Seq(V) /\ <<>> \in Seq(Group) /\ <<s>> \in Seq(V) /\ <<parent[s]>> \in Seq(V)
  BY <1>1
<1>8. prev \in Seq(V) /\ following \in Seq(V) /\ prevSynth \in Seq(V)
  BY <1>4, <1>5, <1>7
<1>9. /\ <<s>> \o prev \in Seq(V) /\ <<s>> \o following \in Seq(V)
      /\ <<s>> \o prevSynth \in Seq(V) /\ <<s>> \o AllPrevious(s) \in Seq(V)
  <2> HIDE DEF prev, following, prevSynth
  <2> QED
    BY <1>2, <1>7, <1>8, ConcatSet
<1>10. DoneBy(a, s) \in Seq(V)
  <2>1. DoneBy(a, s) =
          CASE a = 2 -> <<s>>
            [] a = 3 -> <<s>> \o prev
            [] a = 4 -> <<s>> \o following
            [] a \in {5, 6, 11, 12} -> <<s>> \o prevSynth
            [] a \in {7, 8} -> IF lone THEN <<s>> ELSE <<s>> \o AllPrevious(s)
            [] a \in {9, 10, 15} -> <<s>>
            [] a = 14 -> <<parent[s]>>
            [] OTHER -> <<>>
    BY DEF DoneBy
  <2> HIDE DEF prev, following, prevSynth, lone
  <2> QED
    BY ONLY <2>1, <1>7, <1>9
<1>11. PausedBy(a, s) \in Seq(V)
  BY <1>4, <1>7 DEF PausedBy
<1>12. ResumedBy(a, s) \in Seq(V)
  BY <1>4, <1>7 DEF ResumedBy
<1>13. \A actions : GroupsBy(a, s, actions) \in Seq(Group)
  BY <1>6, <1>7 DEF GroupsBy
<1> QED
  BY <1>10, <1>11, <1>12, <1>13 DEF V

LEMMA DocumentedNodes ==
  ASSUME TreeInv, ~dirty, NEW s \in queue, NEW a
  PROVE  DocumentedFrees(a, s) \subseteq Node
<1> DEFINE All(S) == UNION {Subtree(n) : n \in S}
           Synths(S) == All(S) \cap Synth
           Most(S) == All(S) \ (S \cap Group)
           lone == parent[s] \in Parallel
           Nearest(q) == IF lone \/ q = <<>> THEN {} ELSE {q[1]}
           prev == Nearest(AllPrevious(s))
           next == Nearest(AllFollowing(s))
<1>1. queue \cup Group \subseteq Node /\ s \in Node /\ parent[s] \in Node
  BY SiblingsHeld DEF TreeInv, TreeTypes, Node
<1>2. AllPrevious(s) \in Seq(Node) /\ AllFollowing(s) \in Seq(Node)
  <2>1. AllPrevious(s) \in Seq(queue \cup Group) /\ AllFollowing(s) \in Seq(queue \cup Group)
    BY NeighboursHeld
  <2> QED
    BY <1>1, <2>1
<1>3. \A q \in Seq(Node) : Nearest(q) \subseteq Node /\ ToSet(q) \subseteq Node
  <2> SUFFICES ASSUME NEW q \in Seq(Node) PROVE Nearest(q) \subseteq Node /\ ToSet(q) \subseteq Node
    OBVIOUS
  <2>1. q # <<>> => q[1] \in Node
    <3>1. q # <<>> => Len(q) \in Nat \ {0}
      BY EmptySeq
    <3>2. q # <<>> => 1 \in 1..Len(q)
      BY <3>1
    <3> QED
      BY <3>2, ElementOfSeq
  <2> QED
    BY <2>1 DEF ToSet
<1>4. prev \subseteq Node /\ next \subseteq Node
      /\ ToSet(AllPrevious(s)) \subseteq Node /\ ToSet(AllFollowing(s)) \subseteq Node
      /\ {parent[s]} \subseteq Node /\ {parent[s]} \ {Root} \subseteq Node
  BY <1>1, <1>2, <1>3
<1>5. \A S : S \subseteq Node => All(S) \subseteq Node
  <2>1. \A n \in Node : Subtree(n) \subseteq Node
    BY UnderNodes DEF TreeInv, TreeTypes, Subtree
  <2> QED
    BY <2>1
<1> HIDE DEF All
<1>6. \A S : S \subseteq Node => Synths(S) \subseteq Node /\ Most(S) \subseteq Node
  BY <1>5
<1>7. DocumentedFrees(a, s) =
        CASE a = 1 -> {}
          [] a = 3 -> {s} \cup All(prev)
          [] a = 4 -> {s} \cup All(next)
          [] a = 5 -> {s} \cup Most(prev)
          [] a = 6 -> {s} \cup Most(next)
          [] a = 7 /\ ~lone -> {s} \cup All(ToSet(AllPrevious(s)))
          [] a = 8 /\ ~lone -> {s} \cup All(ToSet(AllFollowing(s)))
          [] a = 11 -> {s} \cup Synths(prev)
          [] a = 12 -> {s} \cup Synths(next)
          [] a = 13 -> Most({parent[s]})
          [] a = 14 -> All({parent[s]} \ {Root})
          [] OTHER -> {s}
  BY DEF DocumentedFrees, All
<1> HIDE DEF Synths, Most, prev, next, lone
<1>8. /\ All(prev) \subseteq Node /\ All(next) \subseteq Node
      /\ Most(prev) \subseteq Node /\ Most(next) \subseteq Node
      /\ All(ToSet(AllPrevious(s))) \subseteq Node /\ All(ToSet(AllFollowing(s))) \subseteq Node
      /\ Synths(prev) \subseteq Node /\ Synths(next) \subseteq Node
      /\ Most({parent[s]}) \subseteq Node /\ All({parent[s]} \ {Root}) \subseteq Node
      /\ {s} \subseteq Node
  BY <1>1, <1>4, <1>5, <1>6
<1>9. /\ {s} \cup All(prev) \subseteq Node /\ {s} \cup All(next) \subseteq Node
      /\ {s} \cup Most(prev) \subseteq Node /\ {s} \cup Most(next) \subseteq Node
      /\ {s} \cup All(ToSet(AllPrevious(s))) \subseteq Node
      /\ {s} \cup All(ToSet(AllFollowing(s))) \subseteq Node
      /\ {s} \cup Synths(prev) \subseteq Node /\ {s} \cup Synths(next) \subseteq Node
      /\ {} \subseteq Node
  BY ONLY <1>8
<1> QED
  BY ONLY <1>7, <1>8, <1>9

(* The lists keep what was in them and what is appended.                   *)
LEMMA DoneKeepsLists ==
  ASSUME TreeInv, ListTypes, PendingHeld, NEW s \in Synth, NEW a, DoneAction(s, a)
  PROVE  ListTypes' /\ PendingHeld'
<1> DEFINE V == queue \cup Group
           more == IF a = 13 THEN <<parent[s]>> ELSE <<>>
<1>1. /\ phase = "audio" /\ s \in queue
      /\ done' = AddAll(done, DoneBy(a, s))
      /\ pauses' = pauses \o PausedBy(a, s)
      /\ resumes' = resumes \o ResumedBy(a, s)
      /\ freeAll' = AddAll(freeAll, GroupsBy(a, s, {5, 6}) \o more)
      /\ freeDeep' = AddAll(freeDeep, GroupsBy(a, s, {11, 12}))
      /\ asked' = asked \cup {s}
      /\ due' = due \cup DocumentedFrees(a, s)
      /\ queue' = queue /\ dirty' = dirty /\ phase' = phase
  BY DEF DoneAction
<1>2. ~dirty
  BY <1>1 DEF PendingHeld
<1>3. /\ DoneBy(a, s) \in Seq(V) /\ PausedBy(a, s) \in Seq(V) /\ ResumedBy(a, s) \in Seq(V)
      /\ GroupsBy(a, s, {5, 6}) \in Seq(Group) /\ GroupsBy(a, s, {11, 12}) \in Seq(Group)
  BY <1>1, <1>2, DoneListed
<1>4. more \in Seq(Group)
  BY <1>1, <1>2, SiblingsHeld
<1>5. done \in Seq(V) /\ pauses \in Seq(V) /\ resumes \in Seq(V)
      /\ freeAll \in Seq(Group) /\ freeDeep \in Seq(Group)
  BY DEF PendingHeld, ListTypes
<1> HIDE DEF V, more
<1>6. done' \in Seq(V) /\ pauses' \in Seq(V) /\ resumes' \in Seq(V)
  BY <1>1, <1>3, <1>5, AddAllSet, ConcatSet
<1>7. freeAll' \in Seq(Group) /\ freeDeep' \in Seq(Group)
  <2>1. GroupsBy(a, s, {5, 6}) \o more \in Seq(Group)
    BY <1>3, <1>4, ConcatSet
  <2> QED
    BY <2>1, <1>1, <1>3, <1>5, AddAllSet
<1>8. done' \in Seq(Node) /\ pauses' \in Seq(Node) /\ resumes' \in Seq(Node)
  <2>1. V \subseteq Node
    BY DEF V, TreeInv, TreeTypes, Node
  <2> QED
    BY <1>6, <2>1
<1>9. due' \subseteq Node
  BY <1>1, <1>2, DocumentedNodes DEF ListTypes
<1>10. ListTypes'
  BY <1>1, <1>7, <1>8, <1>9 DEF ListTypes
<1>11. {done', pauses', resumes'} \subseteq Seq(queue' \cup Group)
  BY <1>1, <1>6 DEF V
<1>12. PendingHeld'
  BY <1>1, <1>2, <1>11 DEF PendingHeld
<1> QED
  BY <1>10, <1>12

-----------------------------------------------------------------------------
(* The invariant is inductive                                              *)

LEMMA InitGraph == ASSUME Init PROVE GraphInv
<1>1. /\ kids = [g \in Group |-> <<>>] /\ groups = [g \in Group |-> {}]
      /\ synthKids = [g \in Group |-> 0] /\ groupKids = [g \in Group |-> 0]
      /\ parent = [n \in Node |-> None] /\ running = [s \in Synth |-> TRUE]
      /\ refs = [n \in Node |-> IF n = Root THEN 1 ELSE 0]
      /\ ids = {Root} /\ synthCount = 0 /\ groupCount = 1 /\ queue = {} /\ dirty = FALSE
      /\ done = <<>> /\ resumes = <<>> /\ pauses = <<>> /\ freeDeep = <<>> /\ freeAll = <<>>
      /\ asked = {} /\ due = {} /\ phase = "apply"
  BY DEF Init
<1>2. \A g \in Group : kids[g] = <<>> /\ ToSet(kids[g]) = {} /\ Members(parent, g) = {}
  <2>1. \A g \in Group : g # None
    BY Kinds
  <2> QED
    BY <1>1, <2>1 DEF ToSet, Members
<1>3. TreeTypes
  <2>1. \A V : <<>> \in Seq(V)
    BY EmptySeq
  <2> QED
    BY <1>1, <2>1, Kinds DEF TreeTypes
<1>4. Forest
  BY <1>2, ListsNothing DEF Forest
<1>5. Acyclic(kids)
  BY <1>2 DEF Acyclic
<1>6. Registered
  BY <1>1, Kinds DEF Registered
<1>7. {} \cap Synth = {} /\ {} \cap Group = {} /\ Cardinality({}) = 0
  BY FS_EmptySet
<1>8. CountersExact
  BY <1>1, <1>2, <1>7 DEF CountersExact
<1>9. TotalsExact
  <2>1. {s \in Synth : parent[s] # None} = {} /\ {g \in Group : parent[g] # None} = {}
    BY <1>1 DEF Node
  <2>2. synthCount = 0 /\ groupCount = 1 + 0
    BY <1>1
  <2> QED
    BY ONLY <2>1, <2>2, <1>7 DEF TotalsExact
<1>10. RefsAreHolders
  BY <1>1 DEF RefsAreHolders
<1>11. QueueCurrent
  <2>1. Under(kids, Root) = {Root}
    BY <1>2, Kinds, UnderEmpty
  <2> QED
    BY <1>1, <2>1, Kinds DEF QueueCurrent, SynthsUnder, Subtree
<1>12. TreeInv
  BY <1>3, <1>4, <1>5, <1>6, <1>8, <1>9, <1>10, <1>11 DEF TreeInv
<1>13. \A V : <<>> \in Seq(V)
  BY EmptySeq
<1>14. ListTypes /\ PendingHeld
  BY <1>1, <1>13 DEF ListTypes, PendingHeld
<1> QED
  BY <1>12, <1>14 DEF GraphInv

(* A command leaves the lists and the queue alone.                         *)
LEMMA CommandFrame ==
  ASSUME GraphInv, Command
  PROVE  phase = "commands" /\ TreeInv' /\ UNCHANGED <<lists, asked, due, phase, queue>>
<1>1. TreeInv /\ ListTypes /\ PendingHeld
  BY DEF GraphInv
<1>2. phase = "commands"
  BY DEF Command
<1>3. CASE \E n \in Node, target \in Node :
             \E pos \in {"head", "tail", "insert", "before", "after"} : AddNode(n, target, pos)
  <2>1. PICK n \in Node, target \in Node :
          \E pos \in {"head", "tail", "insert", "before", "after"} : AddNode(n, target, pos)
    BY <1>3
  <2>2. PICK pos : AddNode(n, target, pos)
    BY <2>1
  <2>3. TreeInv'
    BY <1>1, <2>2, AddKeepsTree
  <2>4. UNCHANGED <<lists, asked, due, phase, queue>>
    BY ONLY <2>2 DEF AddNode
  <2> QED
    BY ONLY <1>2, <2>3, <2>4
<1>4. CASE \E n \in Node, target \in Node : ReplaceNode(n, target)
  BY <1>1, <1>2, <1>4, ReplaceKeepsTree DEF ReplaceNode
<1>5. CASE \E n \in Node, target \in Node :
             \E pos \in {"head", "tail", "before", "after"} : MoveNode(n, target, pos)
  <2>1. PICK n \in Node, target \in Node :
          \E pos \in {"head", "tail", "before", "after"} : MoveNode(n, target, pos)
    BY <1>5
  <2>2. PICK pos : MoveNode(n, target, pos)
    BY <2>1
  <2>3. TreeInv'
    BY <1>1, <2>2, MoveKeepsTree
  <2>4. UNCHANGED <<lists, asked, due, phase, queue>>
    BY ONLY <2>2 DEF MoveNode
  <2> QED
    BY ONLY <1>2, <2>3, <2>4
<1>6. CASE \E n \in Node, target \in Node :
             \E pos \in {"head", "tail", "before", "after"} : OrderNode(n, target, pos)
  <2>1. PICK n \in Node, target \in Node :
          \E pos \in {"head", "tail", "before", "after"} : OrderNode(n, target, pos)
    BY <1>6
  <2>2. PICK pos : OrderNode(n, target, pos)
    BY <2>1
  <2>3. TreeInv'
    BY <1>1, <2>2, OrderKeepsTree
  <2>4. UNCHANGED <<lists, asked, due, phase, queue>>
    BY ONLY <2>2 DEF OrderNode
  <2> QED
    BY ONLY <1>2, <2>3, <2>4
<1>7. CASE \E n \in Node : FreeNode(n)
  <2>1. PICK n \in Node : FreeNodes(Freeable(n)) /\ UNCHANGED <<lists, asked, due, phase>>
    BY <1>7 DEF FreeNode
  <2>2. TreeInv'
    BY <1>1, <2>1, FreesLinked, FreeKeepsTree
  <2> QED
    BY <1>2, <2>1, <2>2 DEF FreeNodes
<1>8. CASE \E n \in Node, flag \in BOOLEAN : RunNode(n, flag)
  <2>1. PICK n \in Node, flag \in BOOLEAN : RunNode(n, flag)
    BY <1>8
  <2>2. running' \in [Synth -> BOOLEAN]
    BY <1>1, <2>1, RunningTypes DEF RunNode
  <2>3. TreeInv'
    BY <1>1, <2>1, <2>2, SameTree DEF RunNode
  <2> QED
    BY <1>2, <2>1, <2>3 DEF RunNode
<1>9. CASE \E g \in Group : FreeAll(g)
  <2>1. PICK g \in Group : FreeNodes(ToSet(kids[g])) /\ UNCHANGED <<lists, asked, due, phase>>
    BY <1>9 DEF FreeAll
  <2>2. TreeInv'
    BY <1>1, <2>1, FreesLinked, FreeKeepsTree
  <2> QED
    BY <1>2, <2>1, <2>2 DEF FreeNodes
<1>10. CASE \E g \in Group : DeepFree(g)
  <2>1. PICK g \in Group : FreeNodes(SynthsUnder(g)) /\ UNCHANGED <<lists, asked, due, phase>>
    BY <1>10 DEF DeepFree
  <2>2. TreeInv'
    BY <1>1, <2>1, FreesLinked, FreeKeepsTree
  <2> QED
    BY <1>2, <2>1, <2>2 DEF FreeNodes
<1> QED
  BY <1>3, <1>4, <1>5, <1>6, <1>7, <1>8, <1>9, <1>10 DEF Command

LEMMA CommandKeeps ==
  ASSUME GraphInv, Command
  PROVE  GraphInv'
<1>1. TreeInv /\ ListTypes /\ PendingHeld
  BY DEF GraphInv
<1>2. phase = "commands" /\ TreeInv' /\ UNCHANGED <<lists, asked, due, phase, queue>>
  BY CommandFrame
<1>3. /\ done' = done /\ resumes' = resumes /\ pauses' = pauses
      /\ freeDeep' = freeDeep /\ freeAll' = freeAll
      /\ asked' = asked /\ due' = due /\ phase' = phase /\ queue' = queue
  BY <1>2 DEF lists
<1>4. ListTypes'
  BY <1>1, <1>3 DEF ListTypes
<1>5. PendingHeld'
  <2>1. AllApplied'
    BY <1>1, <1>2 DEF PendingHeld, AllApplied, lists
  <2> QED
    BY <1>1, <1>2, <1>3, <2>1 DEF PendingHeld
<1> QED
  BY <1>2, <1>4, <1>5 DEF GraphInv

(* An entry of a list is applied and leaves it.                            *)
LEMMA ApplyKeeps ==
  ASSUME GraphInv, ApplyDone \/ ApplyResume \/ ApplyPause \/ ApplyFreeDeep \/ ApplyFreeAll
  PROVE  GraphInv'
<1> DEFINE V == queue \cup Group
<1>1. /\ TreeInv /\ ListTypes /\ PendingHeld
      /\ done \in Seq(Node) /\ resumes \in Seq(Node) /\ pauses \in Seq(Node)
      /\ done \in Seq(V) /\ resumes \in Seq(V) /\ pauses \in Seq(V)
      /\ freeDeep \in Seq(Group) /\ freeAll \in Seq(Group)
  BY DEF GraphInv, ListTypes, PendingHeld
<1> HIDE DEF V
<1>2. /\ TreeInv'
      /\ phase = "apply" /\ UNCHANGED <<asked, due, phase, queue>>
      /\ done' = done \/ (done # <<>> /\ done' = Tail(done))
      /\ resumes' = resumes \/ (resumes # <<>> /\ resumes' = Tail(resumes))
      /\ pauses' = pauses \/ (pauses # <<>> /\ pauses' = Tail(pauses))
      /\ freeDeep' = freeDeep \/ (freeDeep # <<>> /\ freeDeep' = Tail(freeDeep))
      /\ freeAll' = freeAll \/ (freeAll # <<>> /\ freeAll' = Tail(freeAll))
  <2>1. CASE ApplyDone
    <3>1. FreeNodes(Freeable(Head(done))) /\ Head(done) \in Node
      BY <1>1, <2>1, TailSet DEF ApplyDone
    <3>2. TreeInv'
      BY <1>1, <3>1, FreesLinked, FreeKeepsTree
    <3> QED
      BY <2>1, <3>2 DEF ApplyDone, FreeNodes
  <2>2. CASE ApplyResume
    <3>1. SetRunning(Head(resumes), TRUE) /\ UNCHANGED <<tree, refs, queue, dirty>>
      BY <2>2 DEF ApplyResume
    <3>2. TreeInv'
      BY <1>1, <3>1, RunningTypes, SameTree
    <3> QED
      BY <2>2, <3>2 DEF ApplyResume
  <2>3. CASE ApplyPause
    <3>1. SetRunning(Head(pauses), FALSE) /\ UNCHANGED <<tree, refs, queue, dirty>>
      BY <2>3 DEF ApplyPause
    <3>2. TreeInv'
      BY <1>1, <3>1, RunningTypes, SameTree
    <3> QED
      BY <2>3, <3>2 DEF ApplyPause
  <2>4. CASE ApplyFreeDeep
    <3>1. FreeNodes(SynthsUnder(Head(freeDeep))) /\ Head(freeDeep) \in Group
      BY <1>1, <2>4, TailSet DEF ApplyFreeDeep
    <3>2. TreeInv'
      BY <1>1, <3>1, FreesLinked, FreeKeepsTree
    <3> QED
      BY <2>4, <3>2 DEF ApplyFreeDeep, FreeNodes
  <2>5. CASE ApplyFreeAll
    <3>1. FreeNodes(ToSet(kids[Head(freeAll)])) /\ Head(freeAll) \in Group
      BY <1>1, <2>5, TailSet DEF ApplyFreeAll
    <3>2. TreeInv'
      BY <1>1, <3>1, FreesLinked, FreeKeepsTree
    <3> QED
      BY <2>5, <3>2 DEF ApplyFreeAll, FreeNodes
  <2> QED
    BY <2>1, <2>2, <2>3, <2>4, <2>5
<1>3. /\ done' \in Seq(Node) /\ resumes' \in Seq(Node) /\ pauses' \in Seq(Node)
      /\ done' \in Seq(V) /\ resumes' \in Seq(V) /\ pauses' \in Seq(V)
      /\ freeDeep' \in Seq(Group) /\ freeAll' \in Seq(Group)
  BY <1>1, <1>2, TailSet
<1>4. asked' = asked /\ due' = due /\ phase' = "apply" /\ queue' = queue
  BY <1>2
<1>5. ListTypes'
  BY <1>1, <1>3, <1>4 DEF ListTypes
<1>6. PendingHeld'
  BY <1>3, <1>4 DEF PendingHeld, V
<1> QED
  BY <1>2, <1>5, <1>6 DEF GraphInv

LEMMA TickKeeps ==
  ASSUME GraphInv, Tick
  PROVE  GraphInv'
<1>1. TreeInv /\ ListTypes /\ PendingHeld
  BY DEF GraphInv
<1>2. CASE ApplyDone \/ ApplyResume \/ ApplyPause \/ ApplyFreeDeep \/ ApplyFreeAll
  BY <1>2, ApplyKeeps
<1>3. CASE StartCommands
  <2>1. /\ AllApplied /\ phase' = "commands" /\ asked' = {} /\ due' = {}
        /\ running' = running /\ UNCHANGED <<tree, refs, queue, dirty>> /\ UNCHANGED lists
        /\ queue' = queue
    BY <1>3 DEF StartCommands
  <2>2. TreeInv'
    BY <1>1, <2>1, SameTree DEF TreeInv, TreeTypes
  <2>3. /\ done' = done /\ resumes' = resumes /\ pauses' = pauses
        /\ freeDeep' = freeDeep /\ freeAll' = freeAll
    BY <2>1 DEF lists
  <2>4. ListTypes'
    BY <1>1, <2>1, <2>3 DEF ListTypes
  <2>5. PendingHeld'
    BY <1>1, <2>1, <2>3 DEF PendingHeld, AllApplied
  <2> QED
    BY <2>2, <2>4, <2>5 DEF GraphInv
<1>4. CASE ComputeAudio
  <2>1. TreeInv'
    BY <1>1, <1>4, AudioKeepsTree
  <2>2. /\ phase = "commands" /\ phase' = "audio" /\ dirty' = FALSE
        /\ asked' = asked /\ due' = due /\ UNCHANGED lists
    BY <1>4 DEF ComputeAudio
  <2>3. /\ done' = done /\ resumes' = resumes /\ pauses' = pauses
        /\ freeDeep' = freeDeep /\ freeAll' = freeAll
    BY <2>2 DEF lists
  <2>4. ListTypes'
    BY <1>1, <2>2, <2>3 DEF ListTypes
  <2>5. done = <<>> /\ resumes = <<>> /\ pauses = <<>>
    BY <1>1, <2>2 DEF PendingHeld, AllApplied, lists
  <2>6. {done', resumes', pauses'} \subseteq Seq(queue' \cup Group)
    BY <2>3, <2>5, EmptySeq
  <2>7. PendingHeld'
    BY <2>2, <2>6 DEF PendingHeld
  <2> QED
    BY <2>1, <2>4, <2>7 DEF GraphInv
<1>5. CASE \E s \in Synth, a \in DoneActions : DoneAction(s, a)
  <2>1. PICK s \in Synth, a \in DoneActions : DoneAction(s, a)
    BY <1>5
  <2>2. running' = running /\ UNCHANGED <<tree, refs, queue, dirty>>
    BY <2>1 DEF DoneAction
  <2>3. TreeInv'
    BY <1>1, <2>2, SameTree DEF TreeInv, TreeTypes
  <2>4. ListTypes' /\ PendingHeld'
    BY <1>1, <2>1, DoneKeepsLists
  <2> QED
    BY <2>3, <2>4 DEF GraphInv
<1>6. CASE StartTick
  <2>1. /\ phase' = "apply" /\ running' = running /\ UNCHANGED <<tree, refs, queue, dirty>>
        /\ UNCHANGED lists /\ asked' = asked /\ due' = due /\ queue' = queue
    BY <1>6 DEF StartTick
  <2>2. TreeInv'
    BY <1>1, <2>1, SameTree DEF TreeInv, TreeTypes
  <2>3. /\ done' = done /\ resumes' = resumes /\ pauses' = pauses
        /\ freeDeep' = freeDeep /\ freeAll' = freeAll
    BY <2>1 DEF lists
  <2>4. ListTypes'
    BY <1>1, <2>1, <2>3 DEF ListTypes
  <2>5. PendingHeld'
    BY <1>1, <2>1, <2>3 DEF PendingHeld
  <2> QED
    BY <2>2, <2>4, <2>5 DEF GraphInv
<1> QED
  BY <1>2, <1>3, <1>4, <1>5, <1>6 DEF Tick

LEMMA SameKeeps ==
  ASSUME GraphInv, UNCHANGED vars
  PROVE  GraphInv'
<1>1. TreeInv /\ ListTypes /\ PendingHeld
  BY DEF GraphInv
<1>2. /\ running' = running /\ UNCHANGED <<tree, refs, queue, dirty>> /\ queue' = queue /\ dirty' = dirty
      /\ done' = done /\ resumes' = resumes /\ pauses' = pauses
      /\ freeDeep' = freeDeep /\ freeAll' = freeAll
      /\ asked' = asked /\ due' = due /\ phase' = phase
  BY DEF vars, tree
<1>3. TreeInv'
  BY <1>1, <1>2, SameTree DEF TreeInv, TreeTypes
<1>4. ListTypes'
  BY <1>1, <1>2 DEF ListTypes
<1>5. PendingHeld'
  BY <1>1, <1>2 DEF PendingHeld, AllApplied, lists
<1> QED
  BY <1>3, <1>4, <1>5 DEF GraphInv

(* Every reachable state has the invariant: each command, each entry of    *)
(* the done actions that is applied and each step of the tick keeps it.    *)
THEOREM GraphInvariant == Spec => []GraphInv
<1>1. Init => GraphInv
  BY InitGraph
<1>2. GraphInv /\ [Next]_vars => GraphInv'
  <2> SUFFICES ASSUME GraphInv, [Next]_vars PROVE GraphInv'
    OBVIOUS
  <2>1. CASE Command
    BY <2>1, CommandKeeps
  <2>2. CASE Tick
    BY <2>2, TickKeeps
  <2>3. CASE UNCHANGED vars
    BY <2>3, SameKeeps
  <2> QED
    BY <2>1, <2>2, <2>3 DEF Next
<1> QED
  BY <1>1, <1>2, PTL DEF Spec

-----------------------------------------------------------------------------
(* What the runs check, for any synths, groups and done actions            *)

(* In every state the tree is made of nodes, the counters are natural      *)
(* numbers and the lists of done actions hold nodes and groups.            *)
THEOREM TypeCorrect == Spec => []TypeOK
<1>1. GraphInv => TypeOK
  BY DEF GraphInv, TreeInv, TreeTypes, ListTypes, TypeOK
<1> QED
  BY <1>1, GraphInvariant, PTL

LEMMA ListedOnce ==
  ASSUME NEW s, NEW S, Lists(s, S), NEW n \in Node
  PROVE  Cardinality({i \in DOMAIN s : s[i] = n}) = (IF n \in S THEN 1 ELSE 0)
<1>1. /\ DOMAIN s = 1..Len(s) /\ \A k \in 1..Len(s) : s[k] \in S
      /\ \A j, k \in 1..Len(s) : s[j] = s[k] => j = k
      /\ \A m \in S : \E k \in 1..Len(s) : s[k] = m
  BY ListsElements
<1>2. CASE n \in S
  <2>1. PICK k \in 1..Len(s) : s[k] = n
    BY <1>1, <1>2
  <2>2. {i \in DOMAIN s : s[i] = n} = {k}
    BY <1>1, <2>1
  <2> QED
    BY <1>2, <2>2, FS_Singleton
<1>3. CASE n \notin S
  <2>1. {i \in DOMAIN s : s[i] = n} = {}
    BY <1>1, <1>3
  <2> QED
    BY <1>3, <2>1, FS_EmptySet
<1> QED
  BY <1>2, <1>3

(* Through every add, replace, move, order and free, by command or by done *)
(* action, what the server keeps about its tree says the same: a group     *)
(* lists a node once and exactly if it is the node's parent, no group is   *)
(* under itself, the counters that the queue generator trusts and the      *)
(* counts of /status.reply are exact, and the queue that runs while audio  *)
(* is computed has the synths of the tree.                                 *)
THEOREM TreeIsConsistent == Spec => []TreeConsistent
<1>1. ASSUME GraphInv PROVE TreeConsistent
  <2>1. TreeInv /\ PendingHeld
    BY <1>1 DEF GraphInv
  <2>2. ASSUME NEW g \in Group, NEW n \in Node
        PROVE  Cardinality({i \in DOMAIN kids[g] : kids[g][i] = n}) = (IF parent[n] = g THEN 1 ELSE 0)
    <3>1. Lists(kids[g], Members(parent, g))
      BY <2>1 DEF TreeInv, Forest
    <3>2. Cardinality({i \in DOMAIN kids[g] : kids[g][i] = n}) = (IF n \in Members(parent, g) THEN 1 ELSE 0)
      BY <3>1, ListedOnce
    <3>3. n \in Members(parent, g) <=> parent[n] = g
      BY DEF Members
    <3> QED
      BY ONLY <3>2, <3>3
  <2>3. ASSUME NEW g \in Group, NEW i \in DOMAIN kids[g] PROVE g \notin Subtree(kids[g][i])
    <3>1. kids[g][i] \in ToSet(kids[g])
      BY DEF ToSet
    <3> QED
      BY <2>1, <3>1 DEF TreeInv, Acyclic, Subtree
  <2>4. ParentsAndChildrenAgree
    BY <2>2, <2>3 DEF ParentsAndChildrenAgree
  <2>5. QueueIsTree
    BY <2>1 DEF TreeInv, QueueCurrent, PendingHeld, QueueIsTree
  <2> QED
    BY <2>1, <2>4, <2>5 DEF TreeInv, TreeConsistent
<1> QED
  BY <1>1, GraphInvariant, PTL

(* use_count_ is the number of those that hold the node: the node set, its *)
(* parent and the dsp queue.  So none of them is left with a pointer to a  *)
(* node that was deleted, and no node that all have dropped stays.         *)
THEOREM ReferencesAreHolders == Spec => []RefsAreHolders
<1>1. GraphInv => RefsAreHolders
  BY DEF GraphInv, TreeInv
<1> QED
  BY <1>1, GraphInvariant, PTL

(* No synth is deleted while sc_done_action_handler has a plain pointer to *)
(* it, although other entries may free it first.                           *)
THEOREM PendingAreAlive == Spec => []PendingSynthsAlive
<1>1. ASSUME GraphInv PROVE PendingSynthsAlive
  <2> SUFFICES ASSUME NEW n \in ToSet(done \o resumes \o pauses) \cap Synth PROVE refs[n] > 0
    BY DEF PendingSynthsAlive
  <2> DEFINE V == queue \cup Group
  <2>1. done \in Seq(V) /\ resumes \in Seq(V) /\ pauses \in Seq(V)
    BY <1>1 DEF GraphInv, PendingHeld
  <2> HIDE DEF V
  <2>2. done \o resumes \o pauses \in Seq(V)
    BY <2>1, ConcatSet
  <2>3. n \in V
    BY <2>2 DEF ToSet
  <2>4. n \in queue /\ n \in Node
    BY <2>3, Kinds DEF V
  <2>5. refs[n] = (IF n \in ids THEN 1 ELSE 0) + (IF parent[n] # None THEN 1 ELSE 0)
                    + (IF n \in queue THEN 1 ELSE 0)
    BY <1>1, <2>4 DEF GraphInv, TreeInv, RefsAreHolders
  <2> QED
    BY ONLY <2>4, <2>5
<1> QED
  BY <1>1, GraphInvariant, PTL

-----------------------------------------------------------------------------
(* What is due is freed: every node that the documentation of a done       *)
(* action frees is covered by an entry of the lists until it has left the  *)
(* tree.                                                                   *)

Covered(n) ==
  \/ parent[n] = None
  \/ \E d \in ToSet(done) : parent[d] # None /\ n \in Subtree(d)
  \/ \E g \in ToSet(freeAll) : n \in Subtree(g) \ {g}
  \/ \E g \in ToSet(freeDeep) : n \in SynthsUnder(g)

DueCovered ==
  /\ phase = "commands" => due = {}
  /\ \A n \in due : Covered(n)

(* Taking subtrees away leaves what is under the nodes that stay.          *)
LEMMA UnderPruned ==
  ASSUME NEW children, NEW fewer, NEW D, NEW n \in Node, NEW x \in Under(children, n), x \notin D,
         \A g \in Group : g \in D => ToSet(children[g]) \subseteq D,
         \A g \in Group : g \notin D => ToSet(children[g]) \subseteq ToSet(fewer[g]) \cup D
  PROVE  x \in Under(fewer, n)
<1> DEFINE T == Under(fewer, n) \cup D
<1>1. n \in Under(fewer, n) /\ Closed(fewer, Under(fewer, n))
  BY UnderClosed
<1>2. n \in T /\ Closed(children, T)
  BY <1>1 DEF Closed
<1> HIDE DEF T
<1>3. Under(children, n) \subseteq T
  BY ONLY <1>2, UnderLeast
<1> QED
  BY <1>3 DEF T

(* What is under a group is under one of its children.                     *)
LEMMA UnderAChild ==
  ASSUME NEW children \in [Group -> Seq(Node)], NEW g \in Group, NEW x \in Under(children, g), x # g
  PROVE  \E c \in ToSet(children[g]) : x \in Under(children, c)
<1> DEFINE T == {g} \cup UNION {Under(children, c) : c \in ToSet(children[g])}
<1>1. \A c \in ToSet(children[g]) : c \in Node
  BY DEF ToSet
<1>2. \A c \in ToSet(children[g]) : c \in Under(children, c) /\ Closed(children, Under(children, c))
  BY <1>1, UnderClosed
<1>3. g \in T /\ Closed(children, T)
  BY <1>2 DEF Closed
<1> HIDE DEF T
<1>4. Under(children, g) \subseteq T
  BY ONLY <1>3, UnderLeast
<1> QED
  BY <1>4 DEF T

LEMMA HeadOrTail ==
  ASSUME NEW V, NEW s \in Seq(V), s # <<>>, NEW x \in ToSet(s)
  PROVE  x = Head(s) \/ x \in ToSet(Tail(s))
<1> DEFINE t == Tail(s)
<1>1. /\ t \in Seq(V) /\ Len(t) = Len(s) - 1 /\ Len(s) \in Nat \ {0}
      /\ \A i \in 1..Len(t) : t[i] = s[i + 1]
  BY HeadTailProperties, EmptySeq
<1>2. DOMAIN s = 1..Len(s) /\ DOMAIN t = 1..Len(t) /\ Head(s) = s[1]
  BY <1>1, LenProperties
<1> HIDE DEF t
<1>3. PICK k \in 1..Len(s) : s[k] = x
  BY <1>2 DEF ToSet
<1>4. CASE k = 1
  BY <1>2, <1>3, <1>4
<1>5. CASE k # 1
  <2>1. k - 1 \in 1..Len(t) /\ (k - 1) + 1 = k
    BY <1>1, <1>3, <1>5
  <2>2. t[k - 1] = x
    BY <2>1, <1>1, <1>3
  <2> QED
    BY <2>1, <2>2, <1>2 DEF ToSet, t
<1> QED
  BY <1>4, <1>5

(* Freeing subtrees keeps what is under the nodes that stay.               *)
LEMMA FreeKeepsUnder ==
  ASSUME TreeInv, NEW F, F \subseteq Node, \A f \in F : parent[f] # None, FreeNodes(F), NEW n \in Node
  PROVE  /\ n \in FreedBy(F) \/ parent[n] = None => parent'[n] = None
         /\ \A d \in Node : n \in Subtree(d) /\ n \notin FreedBy(F) =>
              n \in Under(kids', d) /\ parent'[d] = parent[d]
<1> DEFINE D == FreedBy(F)
<1>1. /\ kids' = [g \in Group |-> IF g \in D THEN <<>> ELSE Without(kids[g], F)]
      /\ parent' = [m \in Node |-> IF m \in D THEN None ELSE parent[m]]
  BY DEF FreeNodes
<1>2. F \subseteq D /\ D \subseteq Node /\ \A m \in Node : parent[m] \in D => m \in D
  BY FreedFacts
<1>3. ASSUME NEW d \in Node, n \in Subtree(d), d \in D PROVE n \in D
  <2>1. PICK f \in F : d \in Under(kids, f)
    BY <1>3 DEF FreedBy, Subtree
  <2>2. f \in Node /\ n \in Under(kids, d)
    BY <1>3 DEF Subtree
  <2>3. n \in Under(kids, f)
    BY ONLY <2>1, <2>2, UnderTwice
  <2> QED
    BY <2>1, <2>3 DEF FreedBy, Subtree
<1> HIDE DEF D
<1>4. \A g \in Group : Lists(kids[g], Members(parent, g))
  BY DEF TreeInv, Forest
<1>5. ASSUME NEW g \in Group, g \in D PROVE ToSet(kids[g]) \subseteq D
  <2>1. ToSet(kids[g]) = Members(parent, g)
    BY <1>4 DEF Lists
  <2> QED
    BY <2>1, <1>2, <1>5 DEF Members
<1>6. ASSUME NEW g \in Group, g \notin D PROVE ToSet(kids[g]) \subseteq ToSet(kids'[g]) \cup D
  <2>1. kids'[g] = Without(kids[g], F)
    BY <1>1, <1>6
  <2>2. Lists(kids'[g], Members(parent, g) \ F)
    BY <2>1, <1>4, ListsWithout
  <2>3. ToSet(kids[g]) = Members(parent, g) /\ ToSet(kids'[g]) = Members(parent, g) \ F
    BY <2>2, <1>4 DEF Lists
  <2> QED
    BY ONLY <2>3, <1>2
<1>7. ASSUME NEW d \in Node, n \in Subtree(d), n \notin D
      PROVE  n \in Under(kids', d) /\ parent'[d] = parent[d]
  <2>1. d \notin D
    BY <1>3, <1>7
  <2>2. n \in Under(kids, d)
    BY <1>7 DEF Subtree
  <2>3. n \in Under(kids', d)
    BY ONLY <2>2, <1>5, <1>6, <1>7, UnderPruned
  <2> QED
    BY <2>1, <2>3, <1>1
<1>8. n \in D \/ parent[n] = None => parent'[n] = None
  BY <1>1
<1> QED
  BY <1>7, <1>8 DEF D

LEMMA CoveredNext ==
  ASSUME NEW n, \/ parent'[n] = None
                \/ \E d \in ToSet(done') : parent'[d] # None /\ n \in Under(kids', d)
                \/ \E g \in ToSet(freeAll') : n \in Under(kids', g) \ {g}
                \/ \E g \in ToSet(freeDeep') : n \in Under(kids', g) \cap Synth
  PROVE  Covered(n)'
BY DEF Covered, SynthsUnder, Subtree

(* An entry leaves its list when what it covers is freed.                  *)
LEMMA FreeKeepsCovered ==
  ASSUME TreeInv, ListTypes, NEW F, F \subseteq Node, \A f \in F : parent[f] # None, FreeNodes(F),
         \A d \in ToSet(done) :
           d \in ToSet(done') \/ (parent[d] # None => Subtree(d) \subseteq FreedBy(F)),
         \A g \in ToSet(freeAll) :
           g \in ToSet(freeAll') \/ Subtree(g) \ {g} \subseteq FreedBy(F),
         \A g \in ToSet(freeDeep) :
           g \in ToSet(freeDeep') \/ SynthsUnder(g) \subseteq FreedBy(F),
         NEW n \in Node, Covered(n)
  PROVE  Covered(n)'
<1>1. /\ n \in FreedBy(F) \/ parent[n] = None => parent'[n] = None
      /\ \A d \in Node : n \in Subtree(d) /\ n \notin FreedBy(F) =>
           n \in Under(kids', d) /\ parent'[d] = parent[d]
  BY FreeKeepsUnder
<1>2. /\ ToSet(done) \subseteq Node
      /\ ToSet(freeAll) \subseteq Group /\ ToSet(freeDeep) \subseteq Group /\ Group \subseteq Node
  BY DEF ListTypes, ToSet, Node
<1>3. CASE n \in FreedBy(F) \/ parent[n] = None
  BY <1>1, <1>3, CoveredNext
<1>4. CASE /\ n \notin FreedBy(F)
           /\ \E d \in ToSet(done) : parent[d] # None /\ n \in Subtree(d)
  <2>1. PICK d \in ToSet(done) : parent[d] # None /\ n \in Subtree(d)
    BY <1>4
  <2>2. d \in ToSet(done') /\ parent'[d] # None /\ n \in Under(kids', d)
    BY <2>1, <1>1, <1>2, <1>4
  <2> QED
    BY <2>2, CoveredNext
<1>5. CASE n \notin FreedBy(F) /\ \E g \in ToSet(freeAll) : n \in Subtree(g) \ {g}
  <2>1. PICK g \in ToSet(freeAll) : n \in Subtree(g) \ {g}
    BY <1>5
  <2>2. g \in ToSet(freeAll') /\ n \in Under(kids', g) \ {g}
    BY <2>1, <1>1, <1>2, <1>5
  <2> QED
    BY <2>2, CoveredNext
<1>6. CASE n \notin FreedBy(F) /\ \E g \in ToSet(freeDeep) : n \in SynthsUnder(g)
  <2>1. PICK g \in ToSet(freeDeep) : n \in Subtree(g) \cap Synth
    BY <1>6 DEF SynthsUnder
  <2>2. ~(Subtree(g) \cap Synth \subseteq FreedBy(F))
    BY <2>1, <1>6
  <2>3. g \in ToSet(freeDeep') /\ n \in Under(kids', g) \cap Synth
    BY <2>1, <2>2, <1>1, <1>2, <1>6 DEF SynthsUnder
  <2> QED
    BY <2>3, CoveredNext
<1> QED
  BY <1>3, <1>4, <1>5, <1>6 DEF Covered

LEMMA SameCovered ==
  ASSUME kids' = kids, parent' = parent, ToSet(done) \subseteq ToSet(done'),
         ToSet(freeAll) \subseteq ToSet(freeAll'), ToSet(freeDeep) \subseteq ToSet(freeDeep'),
         NEW n, Covered(n)
  PROVE  Covered(n)'
BY CoveredNext DEF Covered, SynthsUnder, Subtree

LEMMA ApplyKeepsCovered ==
  ASSUME GraphInv, DueCovered, ApplyDone \/ ApplyResume \/ ApplyPause \/ ApplyFreeDeep \/ ApplyFreeAll
  PROVE  DueCovered'
<1>1. /\ TreeInv /\ ListTypes /\ due \subseteq Node /\ kids \in [Group -> Seq(Node)]
      /\ done \in Seq(Node) /\ freeDeep \in Seq(Group) /\ freeAll \in Seq(Group)
  BY DEF GraphInv, TreeInv, TreeTypes, ListTypes
<1>2. phase' = "apply" /\ due' = due
  BY DEF ApplyDone, ApplyResume, ApplyPause, ApplyFreeDeep, ApplyFreeAll
<1> SUFFICES ASSUME NEW n \in due PROVE Covered(n)'
  BY <1>2 DEF DueCovered
<1>3. Covered(n) /\ n \in Node
  BY <1>1 DEF DueCovered
<1>4. CASE ApplyDone
  <2> DEFINE d == Head(done)
             F == Freeable(d)
  <2>1. done # <<>> /\ FreeNodes(F) /\ done' = Tail(done) /\ freeDeep' = freeDeep /\ freeAll' = freeAll
    BY <1>4 DEF ApplyDone
  <2>2. d \in Node
    BY <1>1, <2>1, TailSet
  <2>3. F \subseteq Node /\ \A f \in F : parent[f] # None
    BY <1>1, <2>2, FreesLinked
  <2>4. parent[d] # None => Subtree(d) \subseteq FreedBy(F)
    BY DEF Freeable, FreedBy
  <2>5. \A x \in ToSet(done) : x = d \/ x \in ToSet(done')
    BY <1>1, <2>1, HeadOrTail
  <2> HIDE DEF d, F
  <2> QED
    BY <1>1, <1>3, <2>1, <2>3, <2>4, <2>5, FreeKeepsCovered
<1>5. CASE ApplyFreeAll
  <2> DEFINE g == Head(freeAll)
             F == ToSet(kids[g])
  <2>1. freeAll # <<>> /\ FreeNodes(F) /\ freeAll' = Tail(freeAll) /\ freeDeep' = freeDeep /\ done' = done
    BY <1>5 DEF ApplyFreeAll
  <2>2. g \in Group
    BY <1>1, <2>1, TailSet
  <2>3. F \subseteq Node /\ \A f \in F : parent[f] # None
    BY <1>1, <2>2, FreesLinked
  <2>4. Subtree(g) \ {g} \subseteq FreedBy(F)
    <3> SUFFICES ASSUME NEW x \in Under(kids, g), x # g PROVE \E f \in F : x \in Under(kids, f)
      BY DEF FreedBy, Subtree
    <3> HIDE DEF g
    <3> QED
      BY <1>1, <2>2, UnderAChild
  <2>5. \A x \in ToSet(freeAll) : x = g \/ x \in ToSet(freeAll')
    BY <1>1, <2>1, HeadOrTail
  <2> HIDE DEF g, F
  <2> QED
    BY <1>1, <1>3, <2>1, <2>3, <2>4, <2>5, FreeKeepsCovered
<1>6. CASE ApplyFreeDeep
  <2> DEFINE g == Head(freeDeep)
             F == SynthsUnder(g)
  <2>1. freeDeep # <<>> /\ FreeNodes(F) /\ freeDeep' = Tail(freeDeep) /\ freeAll' = freeAll /\ done' = done
    BY <1>6 DEF ApplyFreeDeep
  <2>2. g \in Group
    BY <1>1, <2>1, TailSet
  <2>3. F \subseteq Node /\ \A f \in F : parent[f] # None
    BY <1>1, <2>2, FreesLinked
  <2>4. SynthsUnder(g) \subseteq FreedBy(F)
    BY <1>1, <2>3, FreedFacts
  <2>5. \A x \in ToSet(freeDeep) : x = g \/ x \in ToSet(freeDeep')
    BY <1>1, <2>1, HeadOrTail
  <2> HIDE DEF g, F
  <2> QED
    BY <1>1, <1>3, <2>1, <2>3, <2>4, <2>5, FreeKeepsCovered
<1>7. CASE ApplyResume
  BY <1>3, <1>7, SameCovered DEF ApplyResume, tree
<1>8. CASE ApplyPause
  BY <1>3, <1>8, SameCovered DEF ApplyPause, tree
<1> QED
  BY <1>4, <1>5, <1>6, <1>7, <1>8

(* The neighbours that the documentation speaks of are the ones that       *)
(* done_action finds.                                                      *)
LEMMA NearestNeighbours ==
  ASSUME NEW s, NEW V, Siblings(s) \in Seq(V), IndexOf(Siblings(s), s) \in 1..Len(Siblings(s))
  PROVE  /\ Previous(s) = IF AllPrevious(s) = <<>> THEN {} ELSE {AllPrevious(s)[1]}
         /\ Following(s) = IF AllFollowing(s) = <<>> THEN {} ELSE {AllFollowing(s)[1]}
<1> DEFINE sib == Siblings(s)
           i == IndexOf(sib, s)
           before == SubSeq(sib, 1, i - 1)
           after == SubSeq(sib, i + 1, Len(sib))
<1>1. sib \in Seq(V) /\ Len(sib) \in Nat /\ i \in 1..Len(sib) /\ \A j \in 1..Len(sib) : sib[j] \in V
  BY LenProperties, ElementOfSeq
<1>2. /\ Previous(s) = (IF i = 1 THEN {} ELSE {sib[i - 1]})
      /\ Following(s) = (IF i = Len(sib) THEN {} ELSE {sib[i + 1]})
      /\ AllPrevious(s) = [k \in 1..Len(before) |-> before[(Len(before) - k) + 1]]
      /\ AllFollowing(s) = after
  BY DEF Previous, Following, AllPrevious, AllFollowing, Reverse
<1> HIDE DEF sib, i
<1>3. /\ Len(before) = i - 1 /\ \A k \in 1..(i - 1) : before[k] = sib[k]
  <2>1. 1 \in Int /\ i - 1 \in Int /\ \A j \in 1..(i - 1) : sib[j] \in V
    BY <1>1
  <2>2. /\ Len(before) = (IF 1 <= i - 1 THEN (i - 1) - 1 + 1 ELSE 0)
        /\ \A k \in 1..((i - 1) - 1 + 1) : before[k] = sib[1 + k - 1]
    BY ONLY <2>1, SubSeqProperties
  <2> HIDE DEF before
  <2>3. i \in Nat /\ i >= 1
    BY <1>1
  <2>4. (i - 1) - 1 + 1 = i - 1 /\ \A k \in 1..(i - 1) : 1 + k - 1 = k
    BY <2>3
  <2> QED
    BY <2>2, <2>3, <2>4
<1>4. /\ after \in Seq(V) /\ Len(after) = Len(sib) - i
      /\ i # Len(sib) => after[1] = sib[i + 1]
  <2>1. i + 1 \in Int /\ Len(sib) \in Int /\ \A j \in (i + 1)..Len(sib) : sib[j] \in V
    BY <1>1
  <2>2. /\ after \in Seq(V)
        /\ Len(after) = (IF i + 1 <= Len(sib) THEN Len(sib) - (i + 1) + 1 ELSE 0)
        /\ \A k \in 1..(Len(sib) - (i + 1) + 1) : after[k] = sib[(i + 1) + k - 1]
    BY ONLY <2>1, SubSeqProperties
  <2> HIDE DEF after
  <2>3. i \in Nat /\ Len(sib) \in Nat /\ i <= Len(sib)
    BY <1>1
  <2>4. i # Len(sib) => 1 \in 1..(Len(sib) - (i + 1) + 1) /\ (i + 1) + 1 - 1 = i + 1
    BY <2>3
  <2> QED
    BY <2>2, <2>3, <2>4
<1> HIDE DEF before, after
<1>5. i = 1 => Previous(s) = {} /\ AllPrevious(s) = <<>>
  <2>1. i = 1 => 1..Len(before) = {}
    BY <1>3
  <2> QED
    BY <1>2, <2>1
<1>6. i # 1 => Previous(s) = {AllPrevious(s)[1]} /\ AllPrevious(s) # <<>>
  <2> SUFFICES ASSUME i # 1 PROVE Previous(s) = {AllPrevious(s)[1]} /\ AllPrevious(s) # <<>>
    OBVIOUS
  <2>1. 1 \in 1..Len(before) /\ (Len(before) - 1) + 1 = i - 1 /\ i - 1 \in 1..(i - 1)
    BY <1>1, <1>3
  <2>2. AllPrevious(s)[1] = sib[i - 1]
    BY <1>2, <1>3, <2>1
  <2>3. DOMAIN AllPrevious(s) = 1..Len(before) /\ DOMAIN <<>> = {}
    BY <1>2
  <2> QED
    BY <1>2, <2>1, <2>2, <2>3
<1>7. i = Len(sib) => Following(s) = {} /\ AllFollowing(s) = <<>>
  <2>1. i = Len(sib) => Len(after) = 0
    BY <1>1, <1>4
  <2>2. Len(after) = 0 => after = <<>>
    BY <1>4, EmptySeq
  <2> QED
    BY <1>2, <2>1, <2>2
<1>8. i # Len(sib) => Following(s) = {AllFollowing(s)[1]} /\ AllFollowing(s) # <<>>
  <2> SUFFICES ASSUME i # Len(sib) PROVE Following(s) = {AllFollowing(s)[1]} /\ AllFollowing(s) # <<>>
    OBVIOUS
  <2>1. Len(after) # 0
    BY <1>1, <1>4
  <2>2. after # <<>>
    BY <2>1, EmptySeq
  <2> QED
    BY <1>2, <1>4, <2>2
<1> QED
  BY <1>5, <1>6, <1>7, <1>8

(* A synth of the queue and its neighbours have a parent, and so has the   *)
(* group they are in unless it is the root.                                *)
LEMMA NeighboursLinked ==
  ASSUME TreeInv, ~dirty, NEW s \in queue
  PROVE  /\ \A m \in Previous(s) \cup Following(s) \cup ToSet(AllPrevious(s)) \cup {s} :
              m \in Node /\ parent[m] # None
         /\ parent[s] # Root => parent[parent[s]] # None
<1> DEFINE p == parent[s]
           V == ToSet(kids[p])
           U == Under(kids, Root)
<1>1. p \in Group /\ s \in Node /\ Siblings(s) \in Seq(queue \cup Group)
      /\ Len(Siblings(s)) \in Nat /\ IndexOf(Siblings(s), s) \in 1..Len(Siblings(s))
  BY SiblingsHeld
<1>2. \A m \in V \cup {s} : m \in Node /\ parent[m] = p
  BY <1>1, TreeFacts DEF Members
<1>3. \A j \in 1..Len(Siblings(s)) : Siblings(s)[j] \in V
  BY <1>1, LenProperties DEF Siblings, ToSet
<1>4. Siblings(s) \in Seq(V)
  BY ONLY <1>1, <1>3, NarrowSeq
<1> HIDE DEF V
<1>5. Previous(s) \subseteq V /\ Following(s) \subseteq V /\ AllPrevious(s) \in Seq(V)
  BY ONLY <1>1, <1>4, NeighboursListed
<1>6. ToSet(AllPrevious(s)) \subseteq V
  BY <1>5 DEF ToSet
<1>7. p # None
  BY <1>1, Kinds
<1>8. p # Root => parent[p] # None
  <2>1. s \in U /\ s # Root /\ Root \in Node
    BY Kinds DEF TreeInv, TreeTypes, QueueCurrent, SynthsUnder, Subtree
  <2>2. PICK g \in U \cap Group : s \in ToSet(kids[g])
    BY ONLY <2>1, UnderIsChild
  <2>3. p = g
    BY <1>1, <2>2, TreeFacts
  <2>4. ASSUME g # Root PROVE parent[g] # None
    <3>1. PICK h \in U \cap Group : g \in ToSet(kids[h])
      BY ONLY <2>1, <2>2, <2>4, UnderIsChild
    <3>2. parent[g] = h
      BY <2>3, <1>1, <3>1, TreeFacts DEF Node
    <3> QED
      BY <3>1, <3>2, Kinds
  <2> QED
    BY <2>3, <2>4
<1> QED
  BY <1>2, <1>5, <1>6, <1>7, <1>8

\* The neighbours that done_action looks at; in a parallel group there is none.
Before(s) == IF parent[s] \in Parallel THEN {} ELSE Previous(s)
After(s) == IF parent[s] \in Parallel THEN {} ELSE Following(s)

(* What the lists get, as sets of nodes.                                   *)
LEMMA DoneSets ==
  ASSUME TreeInv, ~dirty, NEW s \in queue, NEW a
  PROVE  /\ a = 2 => ToSet(DoneBy(a, s)) = {s}
         /\ a = 3 => ToSet(DoneBy(a, s)) = {s} \cup Before(s)
         /\ a = 4 => ToSet(DoneBy(a, s)) = {s} \cup After(s)
         /\ a \in {5, 11} => ToSet(DoneBy(a, s)) = {s} \cup (Before(s) \cap Synth)
         /\ a = 7 /\ parent[s] \in Parallel => ToSet(DoneBy(a, s)) = {s}
         /\ a = 7 /\ parent[s] \notin Parallel => ToSet(DoneBy(a, s)) = {s} \cup ToSet(AllPrevious(s))
         /\ a \in {9, 10, 15} => ToSet(DoneBy(a, s)) = {s}
         /\ a = 14 => ToSet(DoneBy(a, s)) = {parent[s]}
         /\ \A actions : a \in actions => ToSet(GroupsBy(a, s, actions)) = Before(s) \cap Group
<1> DEFINE V == queue \cup Group
           lone == parent[s] \in Parallel
           PS == Before(s)
           FS == After(s)
           prev == IF lone THEN <<>> ELSE SetToSeq(Previous(s))
           following == IF lone THEN <<>> ELSE SetToSeq(Following(s))
           prevSynth == IF lone THEN <<>> ELSE SetToSeq(Previous(s) \cap Synth)
           one == <<s>>
           p == parent[s]
           up == <<p>>
           all == AllPrevious(s)
<1>1. s \in V /\ p \in V
  BY SiblingsHeld
<1>2. /\ Previous(s) \subseteq V /\ AtMostOne(Previous(s))
      /\ Following(s) \subseteq V /\ AtMostOne(Following(s)) /\ all \in Seq(V)
  BY NeighboursHeld
<1>3. AtMostOne(Previous(s) \cap Synth) /\ AtMostOne(Previous(s) \cap Group)
  BY NeighboursHeld
<1> HIDE DEF V
<1>4. /\ SetToSeq(Previous(s)) \in Seq(V) /\ ToSet(SetToSeq(Previous(s))) = Previous(s)
      /\ SetToSeq(Following(s)) \in Seq(V) /\ ToSet(SetToSeq(Following(s))) = Following(s)
  BY ONLY <1>2, SetSeqSet
<1>5. /\ SetToSeq(Previous(s) \cap Synth) \in Seq(V)
      /\ ToSet(SetToSeq(Previous(s) \cap Synth)) = Previous(s) \cap Synth
  <2>1. Previous(s) \cap Synth \subseteq V
    BY <1>2
  <2> QED
    BY ONLY <2>1, <1>3, SetSeqSet
<1>6. ToSet(SetToSeq(Previous(s) \cap Group)) = Previous(s) \cap Group
  <2>1. Previous(s) \cap Group \subseteq Group
    OBVIOUS
  <2> QED
    BY ONLY <2>1, <1>3, SetSeqSet
<1>7. <<>> \in Seq(V) /\ ToSet(<<>>) = {} /\ one \in Seq(V) /\ ToSet(one) = {s} /\ ToSet(up) = {p}
  BY <1>1 DEF ToSet
<1>8. PS = (IF lone THEN {} ELSE Previous(s)) /\ FS = (IF lone THEN {} ELSE Following(s))
  BY DEF Before, After
<1> HIDE DEF one, up, all, PS, FS
<1>9. /\ prev \in Seq(V) /\ ToSet(prev) = PS
      /\ following \in Seq(V) /\ ToSet(following) = FS
      /\ prevSynth \in Seq(V) /\ ToSet(prevSynth) = PS \cap Synth
  <2>1. CASE lone
    BY <2>1, <1>7, <1>8
  <2>2. CASE ~lone
    BY <2>2, <1>4, <1>5, <1>8
  <2> QED
    BY <2>1, <2>2
<1>10. \A actions : a \in actions => ToSet(GroupsBy(a, s, actions)) = PS \cap Group
  BY <1>6, <1>7, <1>8 DEF GroupsBy
<1> HIDE DEF prev, following, prevSynth
<1>11. /\ ToSet(one \o prev) = {s} \cup PS
       /\ ToSet(one \o following) = {s} \cup FS
       /\ ToSet(one \o prevSynth) = {s} \cup (PS \cap Synth)
       /\ ToSet(one \o all) = {s} \cup ToSet(all)
  <2>1. /\ ToSet(one \o prev) = ToSet(one) \cup ToSet(prev)
        /\ ToSet(one \o following) = ToSet(one) \cup ToSet(following)
        /\ ToSet(one \o prevSynth) = ToSet(one) \cup ToSet(prevSynth)
        /\ ToSet(one \o all) = ToSet(one) \cup ToSet(all)
    BY <1>2, <1>7, <1>9, ConcatSet
  <2> QED
    BY ONLY <2>1, <1>7, <1>9
<1>12. DoneBy(a, s) =
          CASE a = 2 -> one
            [] a = 3 -> one \o prev
            [] a = 4 -> one \o following
            [] a \in {5, 6, 11, 12} -> one \o prevSynth
            [] a \in {7, 8} -> IF lone THEN one ELSE one \o all
            [] a \in {9, 10, 15} -> one
            [] a = 14 -> up
            [] OTHER -> <<>>
  BY DEF DoneBy, one, up, all, prev, following, prevSynth
<1> HIDE DEF lone
<1>13. /\ a = 2 => DoneBy(a, s) = one
       /\ a = 3 => DoneBy(a, s) = one \o prev
       /\ a = 4 => DoneBy(a, s) = one \o following
       /\ a \in {5, 11} => DoneBy(a, s) = one \o prevSynth
       /\ a = 7 /\ lone => DoneBy(a, s) = one
       /\ a = 7 /\ ~lone => DoneBy(a, s) = one \o all
       /\ a \in {9, 10, 15} => DoneBy(a, s) = one
       /\ a = 14 => DoneBy(a, s) = up
  BY ONLY <1>12
<1> QED
  BY <1>7, <1>10, <1>11, <1>13 DEF lone, all, p, PS, FS

\* An entry for a node of D frees it and what is under it, one for a group of A
\* its members, one for a group of B the synths under it.
FreedWith(n, D, A, B) ==
  \/ \E d \in D : parent[d] # None /\ n \in Subtree(d)
  \/ \E g \in A : n \in Subtree(g) \ {g}
  \/ \E g \in B : n \in SynthsUnder(g)

(* What the documentation of an action frees, an entry that it appends     *)
(* will free; not so of actions 6, 8 and 12.                               *)
LEMMA DocumentedIsListed ==
  ASSUME TreeInv, ~dirty, NEW s \in queue, NEW a \in 1..15, a \notin {6, 8, 12},
         NEW n \in DocumentedFrees(a, s)
  PROVE  FreedWith(n, ToSet(DoneBy(a, s)),
                   ToSet(GroupsBy(a, s, {5, 6})) \cup (IF a = 13 THEN {parent[s]} ELSE {}),
                   ToSet(GroupsBy(a, s, {11, 12})))
<1> DEFINE lone == parent[s] \in Parallel
           PS == Before(s)
           FS == After(s)
           All(S) == UNION {Subtree(m) : m \in S}
           D == ToSet(DoneBy(a, s))
           A == ToSet(GroupsBy(a, s, {5, 6})) \cup (IF a = 13 THEN {parent[s]} ELSE {})
           B == ToSet(GroupsBy(a, s, {11, 12}))
           p == parent[s]
<1>1. /\ a = 2 => D = {s}
      /\ a = 3 => D = {s} \cup PS
      /\ a = 4 => D = {s} \cup FS
      /\ a \in {5, 11} => D = {s} \cup (PS \cap Synth)
      /\ a = 7 /\ lone => D = {s}
      /\ a = 7 /\ ~lone => D = {s} \cup ToSet(AllPrevious(s))
      /\ a \in {9, 10, 15} => D = {s}
      /\ a = 14 => D = {p}
      /\ a = 5 => PS \cap Group \subseteq A
      /\ a = 13 => p \in A
      /\ a = 11 => B = PS \cap Group
  <2>1. /\ a = 2 => ToSet(DoneBy(a, s)) = {s}
        /\ a = 3 => ToSet(DoneBy(a, s)) = {s} \cup PS
        /\ a = 4 => ToSet(DoneBy(a, s)) = {s} \cup FS
        /\ a \in {5, 11} => ToSet(DoneBy(a, s)) = {s} \cup (PS \cap Synth)
        /\ a = 7 /\ parent[s] \in Parallel => ToSet(DoneBy(a, s)) = {s}
        /\ a = 7 /\ parent[s] \notin Parallel => ToSet(DoneBy(a, s)) = {s} \cup ToSet(AllPrevious(s))
        /\ a \in {9, 10, 15} => ToSet(DoneBy(a, s)) = {s}
        /\ a = 14 => ToSet(DoneBy(a, s)) = {parent[s]}
        /\ \A actions : a \in actions => ToSet(GroupsBy(a, s, actions)) = PS \cap Group
    BY DoneSets
  <2>2. /\ a = 5 => ToSet(GroupsBy(a, s, {5, 6})) = PS \cap Group
        /\ a = 11 => ToSet(GroupsBy(a, s, {11, 12})) = PS \cap Group
    BY ONLY <2>1
  <2> QED
    BY <2>1, <2>2
<1>2. /\ PS = IF lone \/ AllPrevious(s) = <<>> THEN {} ELSE {AllPrevious(s)[1]}
      /\ FS = IF lone \/ AllFollowing(s) = <<>> THEN {} ELSE {AllFollowing(s)[1]}
  <2>1. Siblings(s) \in Seq(queue \cup Group) /\ IndexOf(Siblings(s), s) \in 1..Len(Siblings(s))
    BY SiblingsHeld
  <2>2. /\ Previous(s) = IF AllPrevious(s) = <<>> THEN {} ELSE {AllPrevious(s)[1]}
        /\ Following(s) = IF AllFollowing(s) = <<>> THEN {} ELSE {AllFollowing(s)[1]}
    BY ONLY <2>1, NearestNeighbours
  <2> QED
    BY ONLY <2>2 DEF Before, After
<1>3. \A m \in PS \cup FS \cup ToSet(AllPrevious(s)) \cup {s} : m \in Node /\ parent[m] # None
  BY NeighboursLinked DEF Before, After
<1>4. p # Root => parent[p] # None
  BY NeighboursLinked
<1>5. s \in Subtree(s) /\ s \in Node
  BY <1>3, UnderClosed DEF Subtree
<1>6. \A m \in Synth : Subtree(m) = {m}
  BY Kinds DEF Subtree, Under
<1> HIDE DEF PS, FS, lone
<1>7. DocumentedFrees(a, s) =
        CASE a = 1 -> {}
          [] a = 3 -> {s} \cup All(PS)
          [] a = 4 -> {s} \cup All(FS)
          [] a = 5 -> {s} \cup (All(PS) \ (PS \cap Group))
          [] a = 6 -> {s} \cup (All(FS) \ (FS \cap Group))
          [] a = 7 /\ ~lone -> {s} \cup All(ToSet(AllPrevious(s)))
          [] a = 8 /\ ~lone -> {s} \cup All(ToSet(AllFollowing(s)))
          [] a = 11 -> {s} \cup (All(PS) \cap Synth)
          [] a = 12 -> {s} \cup (All(FS) \cap Synth)
          [] a = 13 -> All({p}) \ ({p} \cap Group)
          [] a = 14 -> All({p} \ {Root})
          [] OTHER -> {s}
  BY <1>2 DEF DocumentedFrees, lone
<1> HIDE DEF D, A, B
<1>8. CASE a \in {2, 9, 10, 15} \/ (a = 7 /\ lone)
  <2>1. n = s /\ s \in D
    <3> HIDE DEF All
    <3> QED
      BY ONLY <1>1, <1>7, <1>8, n \in DocumentedFrees(a, s)
  <2> QED
    BY <2>1, <1>3, <1>5 DEF FreedWith, D, A, B
<1>9. CASE a \in {3, 4} \/ (a = 7 /\ ~lone)
  <2> DEFINE Q == IF a = 3 THEN PS ELSE IF a = 4 THEN FS ELSE ToSet(AllPrevious(s))
  <2>1. DocumentedFrees(a, s) = {s} \cup All(Q) /\ D = {s} \cup Q
    <3> HIDE DEF All
    <3> QED
      BY ONLY <1>1, <1>7, <1>9
  <2>2. \A m \in D : parent[m] # None
    BY <2>1, <1>3
  <2>3. \E d \in D : n \in Subtree(d)
    BY <2>1, <1>5
  <2> QED
    BY <2>2, <2>3 DEF FreedWith, D, A, B
<1>10. CASE a = 5
  <2>1. n \in {s} \cup (All(PS) \ (PS \cap Group)) /\ D = {s} \cup (PS \cap Synth) /\ PS \cap Group \subseteq A
    <3> HIDE DEF All
    <3> QED
      BY ONLY <1>1, <1>7, <1>10, n \in DocumentedFrees(a, s)
  <2>2. CASE n = s
    BY <2>1, <2>2, <1>3, <1>5 DEF FreedWith, D, A, B
  <2>3. CASE n # s
    <3>1. PICK d \in PS : n \in Subtree(d) /\ n \notin PS \cap Group
      BY <2>1, <2>3
    <3>2. d \in Synth \/ d \in Group
      BY <1>3, Kinds
    <3>3. d \in Synth => d \in D /\ parent[d] # None
      BY <2>1, <1>3
    <3>4. d \in Group => d \in A /\ n # d
      BY <2>1, <3>1
    <3> QED
      BY <3>1, <3>2, <3>3, <3>4 DEF FreedWith, D, A, B
  <2> QED
    BY <2>2, <2>3
<1>11. CASE a = 11
  <2>1. n \in {s} \cup (All(PS) \cap Synth) /\ D = {s} \cup (PS \cap Synth) /\ B = PS \cap Group
    <3> HIDE DEF All
    <3> QED
      BY ONLY <1>1, <1>7, <1>11, n \in DocumentedFrees(a, s)
  <2>2. CASE n = s
    BY <2>1, <2>2, <1>3, <1>5 DEF FreedWith, D, A, B
  <2>3. CASE n # s
    <3>1. PICK d \in PS : n \in Subtree(d) /\ n \in Synth
      BY <2>1, <2>3
    <3>2. d \in Synth \/ d \in Group
      BY <1>3, Kinds
    <3>3. d \in Synth => d \in D /\ parent[d] # None
      BY <2>1, <1>3
    <3>4. d \in Group => d \in B /\ n \in SynthsUnder(d)
      BY <2>1, <3>1 DEF SynthsUnder
    <3> QED
      BY <3>1, <3>2, <3>3, <3>4 DEF FreedWith, D, A, B
  <2> QED
    BY <2>2, <2>3
<1>12. CASE a = 13
  <2>1. n \in All({p}) \ ({p} \cap Group) /\ p \in A
    <3> HIDE DEF All
    <3> QED
      BY ONLY <1>1, <1>7, <1>12, n \in DocumentedFrees(a, s)
  <2>2. p \in Group
    BY SiblingsHeld
  <2>3. n \in Subtree(p) \ {p}
    BY <2>1, <2>2
  <2> QED
    BY <2>1, <2>3 DEF FreedWith, D, A, B
<1>13. CASE a = 14
  <2>1. n \in All({p} \ {Root}) /\ D = {p}
    <3> HIDE DEF All
    <3> QED
      BY ONLY <1>1, <1>7, <1>13, n \in DocumentedFrees(a, s)
  <2>2. p # Root /\ n \in Subtree(p)
    BY <2>1
  <2> QED
    BY <2>1, <2>2, <1>4 DEF FreedWith, D, A, B
<1>14. a # 1
  <2> HIDE DEF All
  <2> QED
    BY ONLY <1>7, n \in DocumentedFrees(a, s)
<1>15. a \in {2, 3, 4, 5, 7, 9, 10, 11, 13, 14, 15}
  BY <1>14
<1> QED
  BY ONLY <1>8, <1>9, <1>10, <1>11, <1>12, <1>13, <1>15

LEMMA DoneKeepsCovered ==
  ASSUME GraphInv, DueCovered, NEW s \in Synth, NEW a \in 1..15, a \notin {6, 8, 12}, DoneAction(s, a)
  PROVE  DueCovered'
<1> DEFINE V == queue \cup Group
           more == IF a = 13 THEN <<parent[s]>> ELSE <<>>
           D == DoneBy(a, s)
           A == GroupsBy(a, s, {5, 6})
           B == GroupsBy(a, s, {11, 12})
           M == A \o more
<1>1. /\ phase = "audio" /\ phase' = phase /\ s \in queue
      /\ done' = AddAll(done, D) /\ freeAll' = AddAll(freeAll, M)
      /\ freeDeep' = AddAll(freeDeep, B)
      /\ due' = due \cup DocumentedFrees(a, s)
      /\ kids' = kids /\ parent' = parent
  BY DEF DoneAction, tree
<1>2. TreeInv /\ ~dirty
  BY <1>1 DEF GraphInv, PendingHeld
<1>3. D \in Seq(V) /\ A \in Seq(Group) /\ B \in Seq(Group)
  BY <1>1, <1>2, DoneListed
<1>4. more \in Seq(Group) /\ ToSet(more) = IF a = 13 THEN {parent[s]} ELSE {}
  BY <1>1, <1>2, SiblingsHeld DEF ToSet
<1>5. done \in Seq(V) /\ freeAll \in Seq(Group) /\ freeDeep \in Seq(Group)
  BY DEF GraphInv, PendingHeld, ListTypes
<1>6. \A n \in DocumentedFrees(a, s) :
        FreedWith(n, ToSet(D), ToSet(A) \cup (IF a = 13 THEN {parent[s]} ELSE {}), ToSet(B))
  BY <1>1, <1>2, DocumentedIsListed
<1> HIDE DEF V, more, D, A, B
<1>7. M \in Seq(Group) /\ ToSet(M) = ToSet(A) \cup ToSet(more)
  BY <1>3, <1>4, ConcatSet
<1> HIDE DEF M
<1>8. /\ ToSet(done') = ToSet(done) \cup ToSet(D)
      /\ ToSet(freeAll') = ToSet(freeAll) \cup ToSet(M)
      /\ ToSet(freeDeep') = ToSet(freeDeep) \cup ToSet(B)
  <2>1. ToSet(AddAll(done, D)) = ToSet(done) \cup ToSet(D)
    BY ONLY <1>3, <1>5, AddAllSet
  <2>2. ToSet(AddAll(freeAll, M)) = ToSet(freeAll) \cup ToSet(M)
    BY ONLY <1>5, <1>7, AddAllSet
  <2>3. ToSet(AddAll(freeDeep, B)) = ToSet(freeDeep) \cup ToSet(B)
    BY ONLY <1>3, <1>5, AddAllSet
  <2> QED
    BY ONLY <2>1, <2>2, <2>3, <1>1
<1>9. ASSUME NEW n \in due PROVE Covered(n)'
  <2>1. Covered(n)
    BY DEF DueCovered
  <2> QED
    BY <1>1, <1>8, <2>1, SameCovered
<1>10. ASSUME NEW n \in DocumentedFrees(a, s) PROVE Covered(n)'
  <2>1. FreedWith(n, ToSet(D), ToSet(A) \cup ToSet(more), ToSet(B))
    BY <1>4, <1>6
  <2>2. \/ \E d \in ToSet(D) : parent[d] # None /\ n \in Under(kids, d)
        \/ \E g \in ToSet(A) \cup ToSet(more) : n \in Under(kids, g) \ {g}
        \/ \E g \in ToSet(B) : n \in Under(kids, g) \cap Synth
    BY <2>1 DEF FreedWith, SynthsUnder, Subtree
  <2>3. \/ \E d \in ToSet(done') : parent'[d] # None /\ n \in Under(kids', d)
        \/ \E g \in ToSet(freeAll') : n \in Under(kids', g) \ {g}
        \/ \E g \in ToSet(freeDeep') : n \in Under(kids', g) \cap Synth
    BY ONLY <2>2, <1>1, <1>7, <1>8
  <2> QED
    BY <2>3, CoveredNext
<1> QED
  BY <1>1, <1>9, <1>10 DEF DueCovered

(* Once the done actions of a tick are applied, every node that the        *)
(* documentation of the actions says is freed has left the tree, whatever  *)
(* order the entries were made in and whichever of them freed it.  This is *)
(* not so of actions 6, 8 and 12, which look at the nodes before the synth *)
(* where the documentation speaks of those after it.                       *)
THEOREM DueAreFreed ==
  ASSUME DoneActions \cap {6, 8, 12} = {}
  PROVE  Spec => []DueIsFreed
<1>1. Init => DueCovered
  BY DEF Init, DueCovered
<1>2. GraphInv /\ DueCovered /\ [Next]_vars => DueCovered'
  <2> SUFFICES ASSUME GraphInv, DueCovered, [Next]_vars PROVE DueCovered'
    OBVIOUS
  <2>1. CASE Command
    <3>1. phase = "commands" /\ due' = due
      BY <2>1, CommandFrame
    <3> QED
      BY <3>1 DEF DueCovered
  <2>2. CASE ApplyDone \/ ApplyResume \/ ApplyPause \/ ApplyFreeDeep \/ ApplyFreeAll
    BY <2>2, ApplyKeepsCovered
  <2>3. CASE StartCommands
    BY <2>3 DEF StartCommands, DueCovered
  <2>4. CASE ComputeAudio
    BY <2>4 DEF ComputeAudio, DueCovered
  <2>5. CASE \E s \in Synth, a \in DoneActions : DoneAction(s, a)
    <3>1. PICK s \in Synth, a \in DoneActions : DoneAction(s, a)
      BY <2>5
    <3>2. a \in 1..15 /\ a \notin {6, 8, 12}
      BY NodeAssumption
    <3> QED
      BY <3>1, <3>2, DoneKeepsCovered
  <2>6. CASE StartTick \/ UNCHANGED vars
    <3>1. /\ kids' = kids /\ parent' = parent /\ due' = due
          /\ done' = done /\ freeAll' = freeAll /\ freeDeep' = freeDeep
          /\ phase' = "commands" => phase = "commands"
      BY <2>6 DEF StartTick, vars, tree, lists
    <3>2. ASSUME NEW n \in due PROVE Covered(n)'
      BY <3>1, SameCovered DEF DueCovered
    <3> QED
      BY <3>1, <3>2 DEF DueCovered
  <2> QED
    BY <2>1, <2>2, <2>3, <2>4, <2>5, <2>6 DEF Next, Tick
<1>3. DueCovered => DueIsFreed
  <2> SUFFICES ASSUME DueCovered, AllApplied, NEW n \in due PROVE parent[n] = None
    BY DEF DueIsFreed
  <2>1. ToSet(done) = {} /\ ToSet(freeAll) = {} /\ ToSet(freeDeep) = {}
    BY DEF AllApplied, lists, ToSet
  <2> QED
    BY <2>1 DEF DueCovered, Covered
<1> QED
  BY <1>1, <1>2, <1>3, GraphInvariant, PTL DEF Spec
=============================================================================
