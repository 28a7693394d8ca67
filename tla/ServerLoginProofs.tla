------------------------- MODULE ServerLoginProofs -------------------------
(* Proofs that the server gives no id to two clients and never looks for   *)
(* one in an empty list, and that a client that booted the server knows    *)
(* that it has ended, for any number of clients and any use of the server. *)
EXTENDS ServerLogin, FiniteSetTheorems, SequenceTheorems, TLAPS

-----------------------------------------------------------------------------
(* The sequence of free ids *)

LEMMA RemoveAtFacts ==
  ASSUME NEW S, NEW s \in Seq(S), NEW i \in 1..Len(s)
  PROVE  /\ RemoveAt(s, i) \in Seq(S)
         /\ Len(RemoveAt(s, i)) = Len(s) - 1
         /\ \A k \in 1..(Len(s) - 1) :
              RemoveAt(s, i)[k] = IF k < i THEN s[k] ELSE s[k + 1]
<1> DEFINE a == SubSeq(s, 1, i - 1)
           b == SubSeq(s, i + 1, Len(s))
<1>1. /\ a \in Seq(S) /\ Len(a) = i - 1
      /\ \A k \in 1..(i - 1) : a[k] = s[k]
  OBVIOUS
<1>2. /\ b \in Seq(S) /\ Len(b) = Len(s) - i
      /\ \A k \in 1..(Len(s) - i) : b[k] = s[k + i]
  OBVIOUS
<1>3. RemoveAt(s, i) = a \o b
  BY DEF RemoveAt
<1> HIDE DEF a, b
<1>4. /\ a \o b \in Seq(S) /\ Len(a \o b) = Len(s) - 1
      /\ \A k \in 1..(Len(s) - 1) :
           (a \o b)[k] = IF k < i THEN a[k] ELSE b[k - (i - 1)]
  <2>1. Len(s) \in Nat /\ i \in Int /\ 1 <= i /\ i <= Len(s)
    OBVIOUS
  <2>2. /\ a \o b \in Seq(S) /\ Len(a \o b) = Len(a) + Len(b)
        /\ \A k \in 1..(Len(a) + Len(b)) :
             (a \o b)[k] = IF k <= Len(a) THEN a[k] ELSE b[k - Len(a)]
    BY <1>1, <1>2, ConcatProperties
  <2>3. Len(a) + Len(b) = Len(s) - 1
    BY ONLY <1>1, <1>2, <2>1
  <2>4. \A k \in 1..(Len(s) - 1) : k <= Len(a) <=> k < i
    BY ONLY <1>1, <2>1
  <2> QED
    BY ONLY <1>1, <2>2, <2>3, <2>4
<1>5. ASSUME NEW k \in 1..(Len(s) - 1)
      PROVE  (a \o b)[k] = IF k < i THEN s[k] ELSE s[k + 1]
  <2>1. CASE k < i
    BY <2>1, <1>1, <1>4
  <2>2. CASE ~(k < i)
    <3>1. k - (i - 1) \in 1..(Len(s) - i) /\ (k - (i - 1)) + i = k + 1
      BY <2>2
    <3> QED
      BY <3>1, <2>2, <1>2, <1>4
  <2> QED
    BY <2>1, <2>2
<1> QED
  BY <1>3, <1>4, <1>5

(* What is left when an element is taken from a sequence without repetitions *)
LEMMA RemoveOne ==
  ASSUME NEW S, NEW s \in Seq(S), NEW i \in 1..Len(s), IsInjective(s)
  PROVE  /\ IsInjective(RemoveAt(s, i))
         /\ ToSet(RemoveAt(s, i)) = ToSet(s) \ {s[i]}
<1> DEFINE r == RemoveAt(s, i)
<1>1. /\ r \in Seq(S) /\ Len(r) = Len(s) - 1
      /\ \A k \in 1..(Len(s) - 1) : r[k] = IF k < i THEN s[k] ELSE s[k + 1]
  BY RemoveAtFacts
<1>2. /\ DOMAIN s = 1..Len(s) /\ DOMAIN r = 1..(Len(s) - 1)
      /\ Len(s) \in Nat /\ i \in Int
  BY <1>1
<1>3. \A j, k \in 1..Len(s) : s[j] = s[k] => j = k
  BY <1>2 DEF IsInjective
<1> HIDE DEF r
<1>4. \A j, k \in 1..(Len(s) - 1) : r[j] = r[k] => j = k
  <2> SUFFICES ASSUME NEW j \in 1..(Len(s) - 1), NEW k \in 1..(Len(s) - 1), r[j] = r[k]
               PROVE  j = k
    OBVIOUS
  <2> DEFINE jj == IF j < i THEN j ELSE j + 1
             kk == IF k < i THEN k ELSE k + 1
  <2>1. /\ jj \in 1..Len(s) /\ kk \in 1..Len(s)
        /\ r[j] = s[jj] /\ r[k] = s[kk]
    BY <1>1, <1>2
  <2>2. jj = kk
    BY <2>1, <1>3
  <2> QED
    BY ONLY <2>2, <1>2, j \in 1..(Len(s) - 1), k \in 1..(Len(s) - 1)
<1>5. \A j \in 1..(Len(s) - 1) : \E k \in 1..Len(s) : k # i /\ r[j] = s[k]
  <2> SUFFICES ASSUME NEW j \in 1..(Len(s) - 1)
               PROVE  \E k \in 1..Len(s) : k # i /\ r[j] = s[k]
    OBVIOUS
  <2>1. CASE j < i
    BY <2>1, <1>1, <1>2
  <2>2. CASE ~(j < i)
    BY <2>2, <1>1, <1>2
  <2> QED
    BY <2>1, <2>2
<1>6. \A k \in 1..Len(s) : k # i => \E j \in 1..(Len(s) - 1) : r[j] = s[k]
  <2> SUFFICES ASSUME NEW k \in 1..Len(s), k # i
               PROVE  \E j \in 1..(Len(s) - 1) : r[j] = s[k]
    OBVIOUS
  <2>1. CASE k < i
    BY <2>1, <1>1, <1>2
  <2>2. CASE ~(k < i)
    <3>1. k - 1 \in 1..(Len(s) - 1) /\ ~(k - 1 < i) /\ (k - 1) + 1 = k
      BY <2>2, <1>2
    <3> QED
      BY <3>1, <1>1
  <2> QED
    BY <2>1, <2>2
<1>7. /\ ToSet(s) = {s[k] : k \in 1..Len(s)}
      /\ ToSet(r) = {r[k] : k \in 1..(Len(s) - 1)}
  BY <1>2 DEF ToSet
<1>8. ToSet(r) = ToSet(s) \ {s[i]}
  <2>1. \A x : x \in ToSet(r) => x \in ToSet(s) \ {s[i]}
    BY <1>5, <1>3, <1>7
  <2>2. \A x : x \in ToSet(s) \ {s[i]} => x \in ToSet(r)
    BY <1>6, <1>7
  <2> QED
    BY <2>1, <2>2
<1>9. IsInjective(r)
  BY <1>4, <1>2 DEF IsInjective
<1> QED
  BY <1>8, <1>9 DEF r

LEMMA AppendNew ==
  ASSUME NEW S, NEW s \in Seq(S), NEW x \in S, IsInjective(s), x \notin ToSet(s)
  PROVE  /\ Append(s, x) \in Seq(S)
         /\ IsInjective(Append(s, x))
         /\ ToSet(Append(s, x)) = ToSet(s) \cup {x}
<1> DEFINE r == Append(s, x)
<1>1. /\ r \in Seq(S) /\ DOMAIN s = 1..Len(s) /\ DOMAIN r = 1..(Len(s) + 1)
      /\ r[Len(s) + 1] = x /\ \A k \in 1..Len(s) : r[k] = s[k]
      /\ Len(s) \in Nat
  OBVIOUS
<1> HIDE DEF r
<1>2. /\ \A k \in 1..Len(s) : s[k] # x
      /\ \A j, k \in 1..Len(s) : s[j] = s[k] => j = k
  BY <1>1 DEF ToSet, IsInjective
<1>3. \A k \in 1..(Len(s) + 1) : k \in 1..Len(s) \/ k = Len(s) + 1
  BY <1>1
<1>4. IsInjective(r)
  BY <1>1, <1>2, <1>3 DEF IsInjective
<1>5. ToSet(s) = {s[k] : k \in 1..Len(s)} /\ ToSet(r) = {r[k] : k \in 1..(Len(s) + 1)}
  BY <1>1 DEF ToSet
<1>6. \A y : y \in ToSet(r) => y \in ToSet(s) \cup {x}
  BY <1>1, <1>3, <1>5
<1>7. \A k \in 1..Len(s) : k \in 1..(Len(s) + 1)
  BY <1>1
<1>8. \A y : y \in ToSet(s) \cup {x} => y \in ToSet(r)
  BY <1>1, <1>5, <1>7
<1> QED
  BY <1>1, <1>4, <1>6, <1>8 DEF r

-----------------------------------------------------------------------------
(* The ids of the server *)

ClientIds == 0..(site.maxLogins - 1)

IdsInv ==
  /\ site \in Sites
  /\ IsFiniteSet(Registered)
  /\ \A c \in Registered : users[c] \in ClientIds
  /\ available \in Seq(ClientIds)
  /\ IdsAccounted

LEMMA MaxLogins ==
  ASSUME site \in Sites
  PROVE  /\ site.maxLogins \in Nat \ {0}
         /\ IsFiniteSet(ClientIds) /\ Cardinality(ClientIds) = site.maxLogins
<1>1. site.maxLogins \in Nat \ {0}
  BY ServerLoginAssumption DEF Site
<1> DEFINE n == site.maxLogins - 1
<1>2. n \in Nat /\ n - 0 + 1 = site.maxLogins /\ ~(0 > n)
  BY <1>1
<1>3. ClientIds = 0..n
  BY DEF ClientIds
<1> HIDE DEF n
<1>4. 0 \in Int /\ n \in Int
  BY <1>2
<1>5. /\ IsFiniteSet(0..n)
      /\ Cardinality(0..n) = IF 0 > n THEN 0 ELSE n - 0 + 1
  BY ONLY <1>4, FS_Interval
<1>6. Cardinality(0..n) = site.maxLogins
  BY ONLY <1>2, <1>5
<1> QED
  BY <1>1, <1>3, <1>5, <1>6

LEMMA FreshIds ==
  ASSUME site \in Sites
  PROVE  /\ Fresh \in Seq(ClientIds)
         /\ IsInjective(Fresh)
         /\ ToSet(Fresh) = ClientIds
<1>1. site.maxLogins \in Nat
  BY MaxLogins
<1>2. DOMAIN Fresh = 1..site.maxLogins /\ \A i \in 1..site.maxLogins : Fresh[i] = i - 1
  BY DEF Fresh
<1>3. Fresh \in Seq(ClientIds)
  BY <1>1 DEF Fresh, ClientIds
<1>4. IsInjective(Fresh)
  BY <1>1, <1>2 DEF IsInjective
<1>5. \A x : x \in ToSet(Fresh) => x \in ClientIds
  BY <1>1, <1>2 DEF ToSet, ClientIds
<1>6. ASSUME NEW x \in ClientIds
      PROVE  x \in ToSet(Fresh)
  <2>1. x + 1 \in 1..site.maxLogins /\ (x + 1) - 1 = x
    BY <1>1 DEF ClientIds
  <2>2. Fresh[x + 1] = x
    BY <2>1, <1>2
  <2> QED
    BY <2>1, <2>2, <1>2 DEF ToSet
<1> QED
  BY <1>3, <1>4, <1>5, <1>6

LEMMA NoneRegistered == DOMAIN << >> = {} /\ IsFiniteSet({})
BY FS_EmptySet

(* While fewer clients are registered than there are ids, one is free. *)
LEMMA OneIsFree ==
  ASSUME IdsInv, up, ~(Cardinality(Registered) >= site.maxLogins)
  PROVE  available # << >>
<1>1. SUFFICES ASSUME available = << >> PROVE FALSE
  OBVIOUS
<1> DEFINE used == {users[c] : c \in Registered}
           f == [c \in Registered |-> users[c]]
<1>2. ToSet(available) = {}
  BY <1>1, NoneRegistered DEF ToSet
<1>3. used = ClientIds
  BY <1>2 DEF IdsInv, IdsAccounted, ClientIds
<1>4. f \in Surjection(Registered, ClientIds)
  BY <1>3 DEF Surjection
<1>5. Cardinality(ClientIds) <= Cardinality(Registered)
  BY <1>4, FS_Surjection DEF IdsInv
<1>6. site.maxLogins \in Nat /\ Cardinality(ClientIds) = site.maxLogins
  BY MaxLogins DEF IdsInv
<1>7. Cardinality(Registered) \in Nat
  BY FS_CardinalityType DEF IdsInv
<1> HIDE DEF used, f
<1> QED
  BY <1>5, <1>6, <1>7

LEMMA PopInRange ==
  ASSUME available \in Seq(ClientIds), available # << >>, NEW id
  PROVE  PopAvailableClientID(id) \in 1..Len(available)
<1>1. Len(available) \in Nat /\ 1 \in 1..Len(available)
  BY EmptySeq
<1>2. CASE \E i \in 1..Len(available) : available[i] = id
  <2>1. PICK i \in 1..Len(available) : available[i] = id
    BY <1>2
  <2> DEFINE where == {j \in 1..Len(available) : available[j] = id}
  <2>2. \E j \in where : \A k \in where : j <= k
    <3>1. where \subseteq Nat /\ where # {}
      BY <2>1, <1>1
    <3> HIDE DEF where
    <3> DEFINE less == {p \in Nat \X Nat : p[1] < p[2]}
    <3>2. IsWellFoundedOn(less, Nat)
      BY ONLY NatLessThanWellFounded, Zenon DEF OpToRel
    <3>3. \A j, k \in Nat : <<k, j>> \notin less => j <= k
      OBVIOUS
    <3> HIDE DEF less
    <3>4. \E j \in where : \A k \in where : <<k, j>> \notin less
      BY ONLY <3>1, <3>2, WFMin
    <3> QED
      BY <3>1, <3>3, <3>4
  <2>3. \E j \in 1..Len(available) :
          available[j] = id /\ \A k \in 1..(j - 1) : available[k] # id
    BY <2>2, <1>1
  <2> QED
    BY <2>3, <1>2 DEF PopAvailableClientID
<1>3. CASE ~\E i \in 1..Len(available) : available[i] = id
  BY <1>1, <1>3 DEF PopAvailableClientID
<1> QED
  BY <1>2, <1>3

LEMMA LogIn ==
  ASSUME IdsInv, up, NEW m, NotifyOn(m), UNCHANGED <<site, up>>
  PROVE  IdsInv'
<1>1. CASE UNCHANGED <<users, available>>
  BY <1>1 DEF IdsInv, IdsAccounted, Registered, ClientIds
<1>2. CASE ~UNCHANGED <<users, available>>
  <2> DEFINE i == PopAvailableClientID(m.id)
             id == available[i]
             left == RemoveAt(available, i)
  <2>1. /\ m.client \notin Registered
        /\ ~(Cardinality(Registered) >= site.maxLogins)
        /\ users' = [d \in Registered \cup {m.client} |->
                       IF d = m.client THEN id ELSE users[d]]
        /\ available' = left
    BY <1>2 DEF NotifyOn
  <2>2. /\ available \in Seq(ClientIds) /\ IsInjective(available)
        /\ ToSet(available) = ClientIds \ {users[c] : c \in Registered}
        /\ \A c, d \in Registered : users[c] = users[d] => c = d
        /\ \A c \in Registered : users[c] \in ClientIds
        /\ site \in Sites /\ IsFiniteSet(Registered)
    BY DEF IdsInv, IdsAccounted, ClientIds
  <2>3. i \in 1..Len(available)
    BY <2>1, <2>2, OneIsFree, PopInRange
  <2> HIDE DEF i
  <2>4. /\ left \in Seq(ClientIds) /\ IsInjective(left)
        /\ ToSet(left) = ToSet(available) \ {id}
    BY <2>2, <2>3, RemoveAtFacts, RemoveOne
  <2>5. id \in ToSet(available)
    BY <2>2, <2>3 DEF ToSet
  <2> HIDE DEF id, left
  <2>6. id \in ClientIds /\ \A c \in Registered : users[c] # id
    BY <2>2, <2>5
  <2>7. /\ Registered' = Registered \cup {m.client}
        /\ users'[m.client] = id
        /\ \A c \in Registered : users'[c] = users[c]
    BY <2>1 DEF Registered
  <2>8. IsFiniteSet(Registered')
    BY <2>2, <2>7, FS_AddElement
  <2>9. ClientIds' = ClientIds
    BY DEF ClientIds
  <2>10. \A c \in Registered' : users'[c] \in ClientIds
    BY <2>2, <2>6, <2>7
  <2>11. \A c, d \in Registered' : users'[c] = users'[d] => c = d
    BY <2>2, <2>6, <2>7
  <2>12. {users'[c] : c \in Registered'} = {users[c] : c \in Registered} \cup {id}
    BY <2>1, <2>7
  <2>13. ToSet(available') = ClientIds \ {users'[c] : c \in Registered'}
    BY <2>1, <2>2, <2>4, <2>12
  <2>14. IdsAccounted'
    BY <2>1, <2>4, <2>9, <2>11, <2>13 DEF IdsAccounted, ClientIds
  <2> QED
    BY <2>1, <2>2, <2>4, <2>8, <2>9, <2>10, <2>14 DEF IdsInv
<1> QED
  BY <1>1, <1>2

LEMMA LogOut ==
  ASSUME IdsInv, up, NEW m, NotifyOff(m), UNCHANGED <<site, up>>
  PROVE  IdsInv'
<1>1. CASE m.client \notin Registered
  BY <1>1 DEF NotifyOff, IdsInv, IdsAccounted, Registered, ClientIds
<1>2. CASE m.client \in Registered
  <2> DEFINE id == users[m.client]
             more == Append(available, id)
  <2>1. /\ users' = Without(users, m.client)
        /\ available' = more
    BY <1>2 DEF NotifyOff
  <2>2. /\ available \in Seq(ClientIds) /\ IsInjective(available)
        /\ ToSet(available) = ClientIds \ {users[c] : c \in Registered}
        /\ \A c, d \in Registered : users[c] = users[d] => c = d
        /\ \A c \in Registered : users[c] \in ClientIds
        /\ site \in Sites /\ IsFiniteSet(Registered)
    BY DEF IdsInv, IdsAccounted, ClientIds
  <2>3. id \in ClientIds /\ id \notin ToSet(available)
    BY <1>2, <2>2
  <2>4. /\ more \in Seq(ClientIds) /\ IsInjective(more)
        /\ ToSet(more) = ToSet(available) \cup {id}
    BY <2>2, <2>3, AppendNew
  <2>5. /\ Registered' = Registered \ {m.client}
        /\ \A c \in Registered' : users'[c] = users[c]
    BY <2>1 DEF Registered, Without
  <2>6. IsFiniteSet(Registered')
    BY <2>2, <2>5, FS_RemoveElement
  <2>7. ClientIds' = ClientIds
    BY DEF ClientIds
  <2>8. /\ \A c \in Registered' : users'[c] \in ClientIds
        /\ \A c, d \in Registered' : users'[c] = users'[d] => c = d
    BY <2>2, <2>5
  <2>9. {users'[c] : c \in Registered'} = {users[c] : c \in Registered} \ {id}
    BY <1>2, <2>2, <2>5
  <2> HIDE DEF more
  <2>10. ToSet(available') = ClientIds \ {users'[c] : c \in Registered'}
    BY <2>1, <2>2, <2>3, <2>4, <2>9
  <2>11. IdsAccounted'
    BY <2>1, <2>4, <2>7, <2>8, <2>10 DEF IdsAccounted, ClientIds
  <2> QED
    BY <2>1, <2>2, <2>4, <2>6, <2>7, <2>8, <2>11 DEF IdsInv
<1> QED
  BY <1>1, <1>2

(* When the process ends, nobody is registered. *)
LEMMA NobodyLeft ==
  ASSUME IdsInv, ~up', users' = << >>, UNCHANGED <<site, available>>
  PROVE  IdsInv'
<1>1. Registered' = {} /\ ClientIds' = ClientIds
  BY NoneRegistered DEF Registered, ClientIds
<1> QED
  BY <1>1, NoneRegistered DEF IdsInv, IdsAccounted

LEMMA FirstIds ==
  ASSUME Init
  PROVE  IdsInv
<1>1. site \in Sites /\ users = << >> /\ available = Fresh
  BY DEF Init
<1>2. Registered = {}
  BY <1>1, NoneRegistered DEF Registered
<1>3. /\ Fresh \in Seq(ClientIds) /\ IsInjective(Fresh)
      /\ ToSet(Fresh) = ClientIds
  BY <1>1, FreshIds
<1> QED
  BY <1>1, <1>2, <1>3, NoneRegistered DEF IdsInv, IdsAccounted, ClientIds

LEMMA NewIds ==
  ASSUME IdsInv, NewWorld, UNCHANGED site
  PROVE  IdsInv'
<1>1. site \in Sites /\ users' = << >> /\ available' = Fresh
  BY DEF IdsInv, NewWorld
<1>2. Registered' = {} /\ ClientIds' = ClientIds
  BY <1>1, NoneRegistered DEF Registered, ClientIds
<1>3. /\ Fresh \in Seq(ClientIds) /\ IsInjective(Fresh)
      /\ ToSet(Fresh) = ClientIds
  BY <1>1, FreshIds
<1> QED
  BY <1>1, <1>2, <1>3, NoneRegistered DEF IdsInv, IdsAccounted, ClientIds

LEMMA IdsKeep ==
  ASSUME IdsInv, UNCHANGED <<site, server>>
  PROVE  IdsInv'
BY DEF IdsInv, IdsAccounted, Registered, ClientIds, server

LEMMA IdsStep ==
  ASSUME IdsInv, [Next]_vars
  PROVE  IdsInv'
<1>1. CASE Crash
  BY <1>1, NobodyLeft DEF Crash, bounds
<1>2. CASE Restart
  BY <1>2, NewIds DEF Restart
<1>3. CASE \E c \in Clients : Serve(c)
  <2>1. PICK c \in Clients : Serve(c)
    BY <1>3
  <2>2. PICK m \in net : StatusCmd(m) \/ NotifyCmd(m) \/ QuitCmd(m)
    BY <2>1 DEF Serve
  <2>3. CASE StatusCmd(m)
    BY <2>3, IdsKeep DEF StatusCmd, server, bounds
  <2>4. CASE NotifyCmd(m)
    <3>1. up /\ UNCHANGED <<site, up>> /\ (NotifyOn(m) \/ NotifyOff(m))
      BY <2>4 DEF NotifyCmd, bounds
    <3> QED
      BY <3>1, LogIn, LogOut
  <2>5. CASE QuitCmd(m)
    BY <2>5, NobodyLeft DEF QuitCmd, bounds
  <2> QED
    BY <2>2, <2>3, <2>4, <2>5
<1>4. CASE Boot
  BY <1>4, NewIds DEF Boot
<1>5. CASE Quit
  <2>1. CASE up /\ watcher[site.owner].unresponsive
    BY <1>5, <2>1, NobodyLeft DEF Quit, bounds
  <2>2. CASE ~(up /\ watcher[site.owner].unresponsive)
    <3>1. UNCHANGED <<site, users, available>> /\ up' = (up /\ TRUE)
      BY <1>5, <2>2 DEF Quit, bounds
    <3> QED
      BY <3>1 DEF IdsInv, IdsAccounted, Registered, ClientIds
  <2> QED
    BY <2>1, <2>2
<1>6. CASE \/ Lose \/ OnServerProcessExit \/ UNCHANGED vars
           \/ \E c \in Clients :
                \/ FindNoServer(c) \/ Receive(c) \/ Poll(c) \/ Deferred(c) \/ Recompile(c)
                \/ \E i \in 1..MaxTasks : Task(c, i) \/ TaskHangs(c, i)
                \/ \E flag \in BOOLEAN : Notify(c, flag)
  <2>1. UNCHANGED <<site, server>>
    BY <1>6 DEF Lose, OnServerProcessExit, vars, FindNoServer, Receive, StatusReply, DoneNotify,
                FailNotify, Take, Poll, Deferred, Recompile, Task, TaskHangs, Notify, server, bounds
  <2> QED
    BY <2>1, IdsKeep
<1> QED
  BY <1>1, <1>2, <1>3, <1>4, <1>5, <1>6 DEF Next

LEMMA IdsInductive == Spec => []IdsInv
<1>1. Init => IdsInv
  BY FirstIds
<1>2. IdsInv /\ [Next]_vars => IdsInv'
  BY IdsStep
<1> QED
  BY <1>1, <1>2, PTL DEF Spec

(* The ids of the server are accounted for: whatever is lost, overtaken or *)
(* restarted, no two registered clients have one id, and NotifyCmd finds   *)
(* every other id in mAvailableClientIDs, once.                            *)
THEOREM IdsKept == Spec => []IdsAccounted
<1>1. IdsInv => IdsAccounted
  BY DEF IdsInv
<1> QED
  BY <1>1, IdsInductive, PTL

(* popAvailableClientID takes the front of mAvailableClientIDs without     *)
(* asking whether there is one.  There is whenever NotifyCmd calls it: it  *)
(* has only compared the number of users with mMaxUsers.                   *)
THEOREM NeverEmpty ==
  Spec => [](up /\ ~(Cardinality(Registered) >= site.maxLogins) => available # << >>)
<1>1. IdsInv => (up /\ ~(Cardinality(Registered) >= site.maxLogins) => available # << >>)
  BY OneIsFree
<1> QED
  BY <1>1, IdsInductive, PTL

-----------------------------------------------------------------------------
(* What the methods make of a client's watcher *)

Fields ==
  {"poll", "alive", "notify", "notified", "hasBooted", "unresponsive", "reallyDeadCount",
   "clientID", "maxNumClients", "asked", "requests", "deferred", "tasks", "exited"}

Watcher(w) == DOMAIN w = Fields /\ w = [f \in Fields |-> w[f]]

WatchersShaped ==
  /\ DOMAIN watcher = Clients
  /\ \A c \in Clients : Watcher(watcher[c]) /\ watcher[c].requests = {}

(* v is what a method made of w that may log out and ask for notifications, *)
(* but does not log in.                                                     *)
Follows(v, w) ==
  /\ Watcher(v)
  /\ v.exited = w.exited /\ v.tasks = w.tasks /\ v.clientID = w.clientID
  /\ v.maxNumClients = w.maxNumClients
  /\ v.notified => w.notified
  /\ w.requests \subseteq {TRUE} => v.requests \subseteq {TRUE}

(* clientID_ refuses no id below n. *)
Wide(w, n) == 0..(n - 1) \subseteq 0..(w.maxNumClients - 1)

(* The client has taken the id, if it refuses none that the server can give. *)
Took(w, id) == Wide(w, site.maxLogins) /\ id \in ClientIds => w.clientID = id

LEMMA NewShape ==
  ASSUME NEW c, NEW poll
  PROVE  /\ Watcher(NewWatcher(c, poll))
         /\ NewWatcher(c, poll).requests = {} /\ NewWatcher(c, poll).poll = poll
         /\ ~NewWatcher(c, poll).notified /\ ~NewWatcher(c, poll).hasBooted
         /\ NewWatcher(c, poll).tasks = << >> /\ ~NewWatcher(c, poll).deferred
BY DEF NewWatcher, Watcher, Fields

LEMMA SendShape ==
  ASSUME NEW w, Watcher(w), NEW flag, NEW adding
  PROVE  /\ Watcher(SendNotifyRequest(w, flag, adding))
         /\ SendNotifyRequest(w, flag, adding).exited = w.exited
         /\ ~w.hasBooted => SendNotifyRequest(w, flag, adding) = w
BY DEF SendNotifyRequest, Watcher, Fields

LEMMA SendFollows ==
  ASSUME NEW w, Watcher(w), NEW adding
  PROVE  Follows(SendNotifyRequest(w, TRUE, adding), w)
BY DEF SendNotifyRequest, Watcher, Fields, Follows

LEMMA FollowsTwice ==
  ASSUME NEW u, NEW v, NEW w, Follows(v, u), Follows(w, v)
  PROVE  Follows(w, u)
BY DEF Follows

LEMMA UnresponsiveFollows ==
  ASSUME NEW w, Watcher(w), NEW c, NEW val
  PROVE  Follows(SetUnresponsive(w, c, val), w)
<1> DEFINE v == [w EXCEPT !.unresponsive = val]
<1>1. Follows(v, w)
  BY DEF Watcher, Fields, Follows
<1>2. Follows([v EXCEPT !.notified = FALSE], v)
  BY <1>1 DEF Watcher, Fields, Follows
<1>3. Follows(SendNotifyRequest(v, TRUE, "nil"), v)
  BY <1>1, SendFollows DEF Follows
<1>4. Follows(w, w)
  BY DEF Follows
<1>5. SetUnresponsive(w, c, val) \in
        {w, v, [v EXCEPT !.notified = FALSE], SendNotifyRequest(v, TRUE, "nil")}
  BY DEF SetUnresponsive
<1> DEFINE x == [v EXCEPT !.notified = FALSE]
           y == SendNotifyRequest(v, TRUE, "nil")
<1> HIDE DEF v, x, y
<1>6. Follows(x, w) /\ Follows(y, w)
  BY ONLY <1>1, <1>2, <1>3, FollowsTwice DEF x, y
<1> QED
  BY ONLY <1>1, <1>4, <1>5, <1>6 DEF x, y

LEMMA RunningFollows ==
  ASSUME NEW w, Watcher(w), NEW c
  PROVE  Follows(SetServerRunning(w, c), w)
<1> DEFINE v == SetUnresponsive(w, c, FALSE)
<1>0. Follows(w, w)
  BY DEF Follows
<1>1. Follows(v, w)
  BY ONLY Watcher(w), UnresponsiveFollows
<1> HIDE DEF v
<1>2. Follows([v EXCEPT !.hasBooted = TRUE], v)
  BY <1>1 DEF Watcher, Fields, Follows
<1>3. SetServerRunning(w, c) \in {w, [v EXCEPT !.hasBooted = TRUE]}
  BY DEF SetServerRunning, v
<1> DEFINE x == [v EXCEPT !.hasBooted = TRUE]
<1> HIDE DEF x
<1>4. Follows(x, w)
  BY ONLY <1>1, <1>2, FollowsTwice DEF x
<1> QED
  BY ONLY <1>0, <1>3, <1>4 DEF x

LEMMA UpdateFollows ==
  ASSUME NEW w, Watcher(w), NEW c, NEW running
  PROVE  Follows(UpdateRunningState(w, c, running), w)
<1>1. ASSUME NEW v, Follows(v, w), NEW n
      PROVE  Follows([v EXCEPT !.reallyDeadCount = n], w)
  BY <1>1 DEF Watcher, Fields, Follows
<1>2. CASE running
  <2> DEFINE u == SetServerRunning(w, c)
             v == SetUnresponsive(u, c, FALSE)
  <2>1. Follows(u, w)
    BY RunningFollows
  <2>2. Watcher(u)
    BY <2>1 DEF Follows
  <2> HIDE DEF u
  <2>3. Follows(v, u)
    BY ONLY <2>2, UnresponsiveFollows
  <2>4. Follows(v, w)
    BY <2>1, <2>3, FollowsTwice
  <2>5. UpdateRunningState(w, c, running) = [v EXCEPT !.reallyDeadCount = Pings]
    BY <1>2 DEF UpdateRunningState, u
  <2> HIDE DEF u, v
  <2> QED
    BY <2>4, <2>5, <1>1
<1>3. CASE ~running
  <2> DEFINE n == IF w.reallyDeadCount > 0 THEN w.reallyDeadCount - 1 ELSE 0
             v == SetUnresponsive(w, c, n <= 0)
  <2>1. Follows(v, w)
    BY UnresponsiveFollows
  <2>2. UpdateRunningState(w, c, running) = [v EXCEPT !.reallyDeadCount = n]
    BY <1>3 DEF UpdateRunningState
  <2> HIDE DEF n, v
  <2> QED
    BY <2>1, <2>2, <1>1
<1> QED
  BY <1>2, <1>3

LEMMA QuitFollows ==
  ASSUME NEW w, Watcher(w)
  PROVE  /\ Follows(QuitWatcher(w), w)
         /\ QuitWatcher(w).poll = "off" /\ ~QuitWatcher(w).hasBooted
         /\ QuitWatcher(w).deferred = w.deferred
         /\ QuitWatcher(w).requests = w.requests
<1> DEFINE v1 == [w EXCEPT !.poll = "off"]
           v2 == [v1 EXCEPT !.hasBooted = FALSE]
           v3 == [v2 EXCEPT !.alive = FALSE]
           v4 == [v3 EXCEPT !.notified = FALSE]
           v5 == [v4 EXCEPT !.unresponsive = FALSE]
<1>1. QuitWatcher(w) = v5
  BY DEF QuitWatcher
<1>2. Follows(v1, w) /\ v1.poll = "off" /\ v1.deferred = w.deferred /\ v1.requests = w.requests
  BY DEF Follows, Watcher, Fields
<1> HIDE DEF v1
<1>3. /\ Follows(v2, v1) /\ v2.poll = v1.poll /\ v2.deferred = v1.deferred
      /\ v2.requests = v1.requests /\ v2.hasBooted = FALSE
  BY <1>2 DEF Follows, Watcher, Fields
<1> HIDE DEF v2
<1>4. /\ Follows(v3, v2) /\ v3.poll = v2.poll /\ v3.deferred = v2.deferred
      /\ v3.requests = v2.requests /\ v3.hasBooted = v2.hasBooted
  BY <1>3 DEF Follows, Watcher, Fields
<1> HIDE DEF v3
<1>5. /\ Follows(v4, v3) /\ v4.poll = v3.poll /\ v4.deferred = v3.deferred
      /\ v4.requests = v3.requests /\ v4.hasBooted = v3.hasBooted
  BY <1>4 DEF Follows, Watcher, Fields
<1> HIDE DEF v4
<1>6. /\ Follows(v5, v4) /\ v5.poll = v4.poll /\ v5.deferred = v4.deferred
      /\ v5.requests = v4.requests /\ v5.hasBooted = v4.hasBooted
  BY <1>5 DEF Follows, Watcher, Fields
<1> HIDE DEF v5
<1>7. Follows(v5, w)
  BY ONLY <1>2, <1>3, <1>4, <1>5, <1>6, FollowsTwice
<1> QED
  BY <1>1, <1>2, <1>3, <1>4, <1>5, <1>6, <1>7

LEMMA SetClientShape ==
  ASSUME NEW w, Watcher(w), NEW id, ~ServerRunning(w)
  PROVE  LET v == SetClientID(w, id)
         IN Watcher(v) /\ v.exited = w.exited /\ v.requests = w.requests /\ Took(v, id)
<1> DEFINE x == [w EXCEPT !.clientID = id]
<1>1. /\ Watcher(x) /\ x.exited = w.exited /\ x.requests = w.requests
      /\ x.clientID = id
  BY DEF Watcher, Fields
<1> HIDE DEF x
<1>2. CASE id \in 0..(w.maxNumClients - 1)
  <2>1. SetClientID(w, id) = x
    BY <1>2 DEF SetClientID, x
  <2> QED
    BY <1>1, <2>1 DEF Took
<1>3. CASE id \notin 0..(w.maxNumClients - 1)
  <2>1. SetClientID(w, id) = w
    BY <1>3 DEF SetClientID
  <2>2. Took(w, id)
    BY <1>3 DEF Took, Wide, ClientIds
  <2> QED
    BY <2>1, <2>2
<1> QED
  BY <1>2, <1>3

LEMMA DoneShape ==
  ASSUME NEW w, Watcher(w), NEW called, NEW id, NEW rest
  PROVE  LET v == [DoneResponders(w, called, id) EXCEPT !.asked = rest]
         IN /\ Watcher(v) /\ v.exited = w.exited /\ v.requests = w.requests
            /\ Follows(v, w) \/ Took(v, id)
<1> DEFINE x == DoneResponders(w, called, id)
           x1 == [w EXCEPT !.notified = FALSE]
           v == [x EXCEPT !.asked = rest]
<1>1. Follows(w, w)
  BY DEF Follows
<1>2. Follows(x1, w) /\ x1.requests = w.requests /\ ~x1.notified
  BY DEF Follows, Watcher, Fields
<1>3. ASSUME called # << >>, id # NoId
      PROVE  Watcher(x) /\ x.exited = w.exited /\ x.requests = w.requests /\ Took(x, id)
  <2> DEFINE x2 == [x1 EXCEPT !.maxNumClients = site.maxLogins]
             x3 == SetClientID(x2, id)
             x4 == [x3 EXCEPT !.notified = (Last(called) = "false")]
             x5 == [x4 EXCEPT !.tasks = Fork(@, called)]
  <2>1. x = x5
    BY <1>3 DEF DoneResponders
  <2> HIDE DEF x1, x
  <2>2. /\ Watcher(x2) /\ x2.exited = x1.exited /\ x2.requests = x1.requests
        /\ ~x2.notified
    BY <1>2 DEF Follows, Watcher, Fields
  <2> HIDE DEF x2
  <2>3. Watcher(x3) /\ x3.exited = x2.exited /\ x3.requests = x2.requests /\ Took(x3, id)
    BY <2>2, SetClientShape DEF ServerRunning
  <2> HIDE DEF x3
  <2>4. /\ Watcher(x4) /\ x4.exited = x3.exited /\ x4.requests = x3.requests
        /\ x4.clientID = x3.clientID /\ x4.maxNumClients = x3.maxNumClients
    BY <2>3 DEF Watcher, Fields
  <2> HIDE DEF x4
  <2>5. /\ Watcher(x5) /\ x5.exited = x4.exited /\ x5.requests = x4.requests
        /\ x5.clientID = x4.clientID /\ x5.maxNumClients = x4.maxNumClients
    BY <2>4 DEF Watcher, Fields
  <2> HIDE DEF x5
  <2>6. Took(x5, id)
    BY <2>3, <2>4, <2>5 DEF Took, Wide
  <2> QED
    BY <1>2, <2>1, <2>2, <2>3, <2>4, <2>5, <2>6 DEF Follows
<1>4. /\ Watcher(x) /\ x.exited = w.exited /\ x.requests = w.requests
      /\ Follows(x, w) \/ Took(x, id)
  <2>1. CASE called = << >>
    BY <2>1, <1>1 DEF DoneResponders
  <2>2. CASE called # << >> /\ id = NoId
    <3>1. x = x1
      BY <2>2 DEF DoneResponders
    <3> HIDE DEF x, x1
    <3> QED
      BY <3>1, <1>2 DEF Follows
  <2> QED
    BY <1>3, <2>1, <2>2
<1> HIDE DEF x, x1
<1>5. /\ Follows(v, x) /\ v.requests = x.requests
  BY <1>4 DEF Follows, Watcher, Fields
<1> HIDE DEF v
<1>6. Follows(x, w) => Follows(v, w)
  BY <1>5, FollowsTwice
<1>7. Took(x, id) => Took(v, id)
  BY <1>5 DEF Follows, Took, Wide
<1>8. /\ Watcher(v) /\ v.exited = w.exited /\ v.requests = w.requests
      /\ Follows(v, w) \/ Took(v, id)
  BY <1>4, <1>5, <1>6, <1>7 DEF Follows
<1> QED
  BY <1>8 DEF v, x

LEMMA AlreadyShape ==
  ASSUME NEW w, Watcher(w), NEW id
  PROVE  LET v == LoginWhenAlreadyRegistered(w, id)
         IN Watcher(v) /\ v.exited = w.exited /\ v.requests = w.requests /\ Took(v, id)
<1> DEFINE x0 == [w EXCEPT !.notified = FALSE]
           x1 == IF id = w.clientID THEN w ELSE SetClientID(x0, id)
           x2 == [x1 EXCEPT !.notified = TRUE]
           x3 == [x2 EXCEPT !.unresponsive = FALSE]
<1>1. LoginWhenAlreadyRegistered(w, id) = x3
  BY DEF LoginWhenAlreadyRegistered
<1>2. Watcher(x0) /\ x0.exited = w.exited /\ x0.requests = w.requests /\ ~x0.notified
  BY DEF Watcher, Fields
<1> HIDE DEF x0
<1>3. Watcher(x1) /\ x1.exited = w.exited /\ x1.requests = w.requests /\ Took(x1, id)
  <2>1. CASE id = w.clientID
    BY <2>1 DEF Took
  <2>2. CASE id # w.clientID
    <3>1. ~ServerRunning(x0)
      BY <1>2 DEF ServerRunning
    <3>2. LET v == SetClientID(x0, id)
          IN Watcher(v) /\ v.exited = x0.exited /\ v.requests = x0.requests /\ Took(v, id)
      BY <1>2, <3>1, SetClientShape
    <3> QED
      BY <1>2, <2>2, <3>2
  <2> QED
    BY <2>1, <2>2
<1> HIDE DEF x1
<1>4. /\ Watcher(x2) /\ x2.exited = x1.exited /\ x2.requests = x1.requests
      /\ x2.clientID = x1.clientID /\ x2.maxNumClients = x1.maxNumClients
  BY <1>3 DEF Watcher, Fields
<1> HIDE DEF x2
<1>5. /\ Watcher(x3) /\ x3.exited = x2.exited /\ x3.requests = x2.requests
      /\ x3.clientID = x2.clientID /\ x3.maxNumClients = x2.maxNumClients
  BY <1>4 DEF Watcher, Fields
<1> HIDE DEF x3
<1>6. Took(x3, id)
  BY <1>3, <1>4, <1>5 DEF Took, Wide
<1> QED
  BY <1>1, <1>3, <1>4, <1>5, <1>6

(* What happens to a client that takes, or makes, a step of its own *)
LEMMA BecomesFacts ==
  ASSUME WatchersShaped, NEW c \in Clients, NEW w, Watcher(w), NEW others,
         Becomes(c, w, others)
  PROVE  /\ WatchersShaped'
         /\ \A d \in Clients : d # c => watcher'[d] = watcher[d]
         /\ \A f \in Fields : f # "requests" => watcher'[c][f] = w[f]
         /\ \A m \in net' : \/ m \in others
                            \/ m.client = c /\ m.cmd = "notify" /\ m.flag \in w.requests
<1> DEFINE v == [w EXCEPT !.requests = {}]
<1>1. /\ watcher' = [watcher EXCEPT ![c] = v]
      /\ net' = others \cup {ToServer(c, "notify", flag, w.clientID) : flag \in w.requests}
  BY DEF Becomes
<1>2. /\ Watcher(v) /\ v.requests = {}
      /\ \A f \in Fields : f # "requests" => v[f] = w[f]
  BY DEF Watcher, Fields
<1> HIDE DEF v
<1>3. /\ DOMAIN watcher' = Clients
      /\ \A d \in Clients : d # c => watcher'[d] = watcher[d]
      /\ watcher'[c] = v
  BY <1>1 DEF WatchersShaped
<1>4. WatchersShaped'
  BY <1>2, <1>3 DEF WatchersShaped
<1>5. \A m \in net' : \/ m \in others
                      \/ m.client = c /\ m.cmd = "notify" /\ m.flag \in w.requests
  BY <1>1 DEF ToServer
<1> QED
  BY <1>2, <1>3, <1>4, <1>5

LEMMA PollBecomes ==
  ASSUME WatchersShaped, NEW c \in Clients, Poll(c)
  PROVE  \E w : /\ Follows(w, watcher[c])
                /\ Becomes(c, w, net \cup {ToServer(c, "status", FALSE, NoId)})
<1> DEFINE w == watcher[c]
           v == IF w.poll = "on" THEN UpdateRunningState(w, c, w.alive) ELSE w
           x == [v EXCEPT !.alive = FALSE]
           y == [x EXCEPT !.poll = "on"]
<1>1. Watcher(w)
  BY DEF WatchersShaped
<1>2. Follows(w, w)
  BY <1>1 DEF Follows
<1>3. Becomes(c, y, net \cup {ToServer(c, "status", FALSE, NoId)})
  BY DEF Poll
<1> HIDE DEF w
<1>4. Follows(v, w)
  <2>1. CASE w.poll = "on"
    BY <2>1, <1>1, UpdateFollows
  <2>2. CASE w.poll # "on"
    BY <2>2, <1>2
  <2> QED
    BY <2>1, <2>2
<1> HIDE DEF v
<1>5. Follows(x, v)
  BY <1>4 DEF Follows, Watcher, Fields
<1> HIDE DEF x
<1>6. Follows(y, x)
  BY <1>5 DEF Follows, Watcher, Fields
<1> HIDE DEF y
<1>7. Follows(y, w)
  BY ONLY <1>4, <1>5, <1>6, FollowsTwice
<1> QED
  BY <1>3, <1>7 DEF w

LEMMA DeferredBecomes ==
  ASSUME WatchersShaped, NEW c \in Clients, Deferred(c)
  PROVE  \E w : Follows(w, watcher[c]) /\ Becomes(c, w, net)
<1> DEFINE w == watcher[c]
           v == [w EXCEPT !.deferred = FALSE]
           x == UpdateRunningState(v, c, TRUE)
<1>1. Watcher(w)
  BY DEF WatchersShaped
<1>2. Becomes(c, x, net)
  BY DEF Deferred
<1> HIDE DEF w
<1>3. Follows(v, w)
  BY <1>1 DEF Follows, Watcher, Fields
<1> HIDE DEF v
<1>4. Follows(x, v)
  BY <1>3, UpdateFollows DEF Follows
<1> HIDE DEF x
<1>5. Follows(x, w)
  BY ONLY <1>3, <1>4, FollowsTwice
<1> QED
  BY <1>2, <1>5 DEF w

LEMMA ReceiveBecomes ==
  ASSUME WatchersShaped, NEW c \in Clients, Receive(c)
  PROVE  \E m \in net : \E w :
           /\ m.client = c /\ Becomes(c, w, net \ {m})
           /\ Watcher(w) /\ w.exited = watcher[c].exited
           /\ w.requests \subseteq {TRUE}
           /\ Follows(w, watcher[c]) \/ (m.cmd \in {"done", "already"} /\ Took(w, m.id))
<1> DEFINE w == watcher[c]
<1>1. PICK m \in net : m.client = c /\ (StatusReply(m, c) \/ DoneNotify(m, c) \/ FailNotify(m, c))
  BY DEF Receive
<1>2. Watcher(w) /\ Follows(w, w) /\ w.requests = {}
  BY DEF WatchersShaped, Follows
<1>3. CASE StatusReply(m, c)
  <2> DEFINE v == IF w.notify /\ ~w.notified THEN SendNotifyRequest(w, TRUE, "true") ELSE w
             x == [v EXCEPT !.alive = TRUE]
             y == [x EXCEPT !.deferred = TRUE]
             z == IF w.poll = "off" THEN w ELSE y
  <2>1. Becomes(c, z, net \ {m})
    BY <1>3 DEF StatusReply, Take
  <2>2. Follows(v, w)
    BY <1>2, SendFollows
  <2> HIDE DEF v
  <2>3. Follows(x, v)
    BY <2>2 DEF Follows, Watcher, Fields
  <2> HIDE DEF x
  <2>4. Follows(y, x)
    BY <2>3 DEF Follows, Watcher, Fields
  <2> HIDE DEF y
  <2>5. Follows(y, w)
    BY ONLY <2>2, <2>3, <2>4, FollowsTwice
  <2>6. Follows(z, w)
    BY <1>2, <2>5
  <2> HIDE DEF z
  <2> QED
    BY <1>1, <1>2, <2>1, <2>6 DEF Follows
<1>4. CASE DoneNotify(m, c)
  <2> DEFINE called == SubSeq(w.asked, 1, CalledDone(w, m.id))
             rest == SubSeq(w.asked, CalledDone(w, m.id) + 1, Len(w.asked))
             v == [DoneResponders(w, called, m.id) EXCEPT !.asked = rest]
  <2>1. m.cmd = "done" /\ Becomes(c, v, net \ {m})
    BY <1>4 DEF DoneNotify, Take
  <2> HIDE DEF called, rest, w
  <2>2. /\ Watcher(v) /\ v.exited = w.exited /\ v.requests = w.requests
        /\ Follows(v, w) \/ Took(v, m.id)
    BY <1>2, DoneShape
  <2> HIDE DEF v
  <2> QED
    BY <1>1, <1>2, <2>1, <2>2 DEF w
<1>5. CASE FailNotify(m, c)
  <2> DEFINE v == [w EXCEPT !.asked = << >>]
             x == LoginWhenAlreadyRegistered(v, m.id)
             y == [v EXCEPT !.notified = FALSE]
             z == IF w.asked = << >> THEN v ELSE IF m.cmd = "already" THEN x ELSE y
  <2>1. Becomes(c, z, net \ {m})
    BY <1>5 DEF FailNotify, Take
  <2> HIDE DEF w
  <2>2. Follows(v, w)
    BY <1>2 DEF Follows, Watcher, Fields
  <2> HIDE DEF v
  <2>3. Follows(y, v)
    BY <2>2 DEF Follows, Watcher, Fields
  <2> HIDE DEF y
  <2>4. Follows(y, w)
    BY ONLY <2>2, <2>3, FollowsTwice
  <2>5. Watcher(x) /\ x.exited = v.exited /\ x.requests = v.requests /\ Took(x, m.id)
    BY <2>2, AlreadyShape DEF Follows
  <2> HIDE DEF x
  <2>6. v.requests \subseteq {TRUE} /\ y.requests \subseteq {TRUE} /\ v.exited = w.exited
    BY <1>2, <2>2, <2>4 DEF Follows
  <2>7. /\ Watcher(z) /\ z.exited = w.exited /\ z.requests \subseteq {TRUE}
        /\ Follows(z, w) \/ (m.cmd \in {"done", "already"} /\ Took(z, m.id))
    <3>1. CASE w.asked = << >>
      BY <3>1, <2>2, <2>6 DEF Follows
    <3>2. CASE w.asked # << >> /\ m.cmd = "already"
      BY <3>2, <2>5, <2>6
    <3>3. CASE w.asked # << >> /\ m.cmd # "already"
      BY <3>3, <2>4, <2>6 DEF Follows
    <3> QED
      BY <3>1, <3>2, <3>3
  <2> HIDE DEF z
  <2> QED
    BY <1>1, <2>1, <2>7 DEF w
<1> QED
  BY <1>1, <1>3, <1>4, <1>5

LEMMA NotifyBecomes ==
  ASSUME WatchersShaped, NEW c \in Clients, NEW flag \in BOOLEAN, Notify(c, flag)
  PROVE  \E w : /\ Watcher(w) /\ w.exited = watcher[c].exited
                /\ Becomes(c, w, net)
                /\ ~watcher[c].hasBooted =>
                     w.hasBooted = watcher[c].hasBooted /\ w.poll = watcher[c].poll
                     /\ w.deferred = watcher[c].deferred /\ w.requests = {}
<1> DEFINE w == watcher[c]
           v == [w EXCEPT !.notify = flag]
           x == SendNotifyRequest(v, flag, "false")
<1>1. Watcher(w) /\ w.requests = {}
  BY DEF WatchersShaped
<1>2. Becomes(c, x, net)
  BY DEF Notify
<1> HIDE DEF w
<1>3. /\ Watcher(v) /\ v.exited = w.exited /\ v.hasBooted = w.hasBooted
      /\ v.poll = w.poll /\ v.deferred = w.deferred /\ v.requests = {}
  BY <1>1 DEF Watcher, Fields
<1> HIDE DEF v
<1>4. Watcher(x) /\ x.exited = v.exited /\ (~v.hasBooted => x = v)
  BY <1>3, SendShape
<1> HIDE DEF x
<1> QED
  BY <1>2, <1>3, <1>4 DEF w

-----------------------------------------------------------------------------
(* The ids of the clients *)

(* The client takes itself for logged in, or a routine of it will. *)
Enters(w) == w.notified \/ w.tasks # << >>

(* g is how the server gave ids below n to its clients: the clients that    *)
(* enter, if they refuse none, and the replies on their way have the ids    *)
(* that g says.                                                             *)
Assigned(g, all, msgs, n) ==
  /\ \A c, d \in DOMAIN g : g[c] = g[d] => c = d
  /\ \A c \in DOMAIN g : g[c] \in 0..(n - 1)
  /\ \A c \in Clients :
       Enters(all[c]) /\ Wide(all[c], n) => c \in DOMAIN g /\ all[c].clientID = g[c]
  /\ \A m \in msgs : m.cmd \in {"done", "already"} => m.client \in DOMAIN g /\ m.id = g[m.client]

(* After a crash g is how the server gave them before. *)
LoginInv ==
  /\ WatchersShaped
  /\ \A m \in net : m.cmd = "notify" => m.flag = TRUE
  /\ \E g : Assigned(g, watcher, net, site.maxLogins) /\ (up => g = users)

(* What the clients had from a server is gone. *)
Calm ==
  /\ \A c \in Clients : ~Enters(watcher[c])
  /\ \A m \in net : m.cmd \notin {"done", "already"}

Unasked(v, w, c) ==
  Enters(v) /\ Wide(v, site.maxLogins) =>
    \/ Enters(w) /\ Wide(w, site.maxLogins) /\ v.clientID = w.clientID
    \/ \E m \in net : /\ m.client = c /\ m.cmd \in {"done", "already"}
                      /\ Took(v, m.id)

(* A step that gives no ids *)
LEMMA LoginKeeps ==
  ASSUME LoginInv, WatchersShaped',
         \A c \in Clients : Unasked(watcher'[c], watcher[c], c),
         \A m \in net' : \/ m \in net
                         \/ /\ m.cmd \notin {"done", "already"}
                            /\ m.cmd = "notify" => m.flag = TRUE,
         up' => up /\ users' = users, site' = site
  PROVE  LoginInv'
<1>1. PICK g : Assigned(g, watcher, net, site.maxLogins) /\ (up => g = users)
  BY DEF LoginInv
<1>2. \A c \in Clients :
        Enters(watcher'[c]) /\ Wide(watcher'[c], site.maxLogins) =>
          c \in DOMAIN g /\ watcher'[c].clientID = g[c]
  BY <1>1 DEF Assigned, Unasked, Took, ClientIds
<1>3. Assigned(g, watcher', net', site.maxLogins)
  BY <1>1, <1>2 DEF Assigned
<1>4. \A m \in net' : m.cmd = "notify" => m.flag = TRUE
  BY DEF LoginInv
<1> QED
  BY <1>1, <1>3, <1>4 DEF LoginInv

(* A step of one client *)
LEMMA LoginOwn ==
  ASSUME LoginInv, NEW c \in Clients, NEW w, Watcher(w), NEW others, Becomes(c, w, others),
         w.requests \subseteq {TRUE}, Unasked(w, watcher[c], c),
         \A m \in others : m \in net \/ m.cmd = "status",
         UNCHANGED <<up, users, site>>
  PROVE  LoginInv'
<1>1. WatchersShaped
  BY DEF LoginInv
<1>2. /\ WatchersShaped'
      /\ \A d \in Clients : d # c => watcher'[d] = watcher[d]
      /\ \A f \in Fields : f # "requests" => watcher'[c][f] = w[f]
      /\ \A m \in net' : \/ m \in others
                         \/ m.client = c /\ m.cmd = "notify" /\ m.flag \in w.requests
  BY <1>1, BecomesFacts
<1>3. /\ watcher'[c].notified = w.notified /\ watcher'[c].tasks = w.tasks
      /\ watcher'[c].clientID = w.clientID /\ watcher'[c].maxNumClients = w.maxNumClients
  BY <1>2 DEF Fields
<1>4. \A d \in Clients : Unasked(watcher'[d], watcher[d], d)
  <2>1. Unasked(watcher'[c], watcher[c], c)
    BY <1>3 DEF Unasked, Enters, Wide, Took
  <2>2. \A d \in Clients : d # c => Unasked(watcher'[d], watcher[d], d)
    BY <1>2 DEF Unasked
  <2> QED
    BY <2>1, <2>2
<1>5. \A m \in net' : \/ m \in net
                      \/ /\ m.cmd \notin {"done", "already"}
                         /\ m.cmd = "notify" => m.flag = TRUE
  BY <1>2
<1> QED
  BY <1>2, <1>4, <1>5, LoginKeeps

LEMMA LoginFollows ==
  ASSUME LoginInv, NEW c \in Clients, NEW w, Follows(w, watcher[c]), NEW others,
         Becomes(c, w, others),
         \A m \in others : m \in net \/ m.cmd = "status",
         UNCHANGED <<up, users, site>>
  PROVE  LoginInv'
<1>1. watcher[c].requests = {}
  BY DEF LoginInv, WatchersShaped
<1>2. Watcher(w) /\ w.requests \subseteq {TRUE} /\ Unasked(w, watcher[c], c)
  BY <1>1 DEF Follows, Unasked, Enters, Wide
<1> QED
  BY <1>2, LoginOwn

(* A step that only changes the watcher of c *)
LEMMA LoginOne ==
  ASSUME LoginInv, NEW c \in Clients, NEW v, Watcher(v), v.requests = {},
         Unasked(v, watcher[c], c), watcher' = [watcher EXCEPT ![c] = v],
         UNCHANGED <<net, up, users, site>>
  PROVE  LoginInv'
<1>1. /\ watcher'[c] = v /\ DOMAIN watcher' = Clients
      /\ \A d \in Clients : d # c => watcher'[d] = watcher[d]
  BY DEF LoginInv, WatchersShaped
<1>2. WatchersShaped'
  BY <1>1 DEF LoginInv, WatchersShaped
<1>3. \A d \in Clients : Unasked(watcher'[d], watcher[d], d)
  BY <1>1 DEF Unasked
<1> QED
  BY <1>2, <1>3, LoginKeeps

LEMMA ExitFacts ==
  ASSUME NEW all, \A c \in Clients : Watcher(all[c]), NEW c \in Clients
  PROVE  LET v == Exit(all)[c]
         IN /\ Watcher(v) /\ v.requests = all[c].requests
            /\ v.notified = all[c].notified /\ v.clientID = all[c].clientID
            /\ v.maxNumClients = all[c].maxNumClients
            /\ all[c].tasks = << >> => v.tasks = << >>
            /\ c = site.owner => v.exited
<1> DEFINE w == all[c]
           x == [w EXCEPT !.tasks = NotSyncing(@)]
           y == [x EXCEPT !.exited = @ \/ c = site.owner]
<1>1. Exit(all)[c] = y
  <2>1. Exit(all)[c] = [all[c] EXCEPT !.tasks = NotSyncing(@), !.exited = @ \/ c = site.owner]
    BY DEF Exit
  <2> QED
    BY <2>1
<1>2. NotSyncing(<< >>) = << >>
  BY NoneRegistered DEF NotSyncing
<1>3. /\ Watcher(x) /\ x.requests = w.requests /\ x.notified = w.notified
      /\ x.clientID = w.clientID /\ x.tasks = NotSyncing(w.tasks)
      /\ x.maxNumClients = w.maxNumClients
  BY DEF Watcher, Fields
<1> HIDE DEF x
<1>4. /\ Watcher(y) /\ y.requests = x.requests /\ y.notified = x.notified
      /\ y.clientID = x.clientID /\ y.tasks = x.tasks
      /\ y.maxNumClients = x.maxNumClients
      /\ c = site.owner => y.exited
  BY <1>3 DEF Watcher, Fields
<1> HIDE DEF y
<1> QED
  BY <1>1, <1>2, <1>3, <1>4

LEMMA ExitDomain == ASSUME NEW all PROVE DOMAIN Exit(all) = Clients
BY DEF Exit

(* The process of the server ends. *)
LEMMA LoginExit ==
  ASSUME LoginInv, ~up', watcher' = Exit(watcher), net' \subseteq net, site' = site
  PROVE  LoginInv'
<1>1. \A c \in Clients : Watcher(watcher[c]) /\ watcher[c].requests = {}
  BY DEF LoginInv, WatchersShaped
<1>2. \A c \in Clients :
        /\ Watcher(watcher'[c]) /\ watcher'[c].requests = watcher[c].requests
        /\ watcher'[c].notified = watcher[c].notified
        /\ watcher'[c].clientID = watcher[c].clientID
        /\ watcher'[c].maxNumClients = watcher[c].maxNumClients
        /\ watcher[c].tasks = << >> => watcher'[c].tasks = << >>
  BY <1>1, ExitFacts
<1>3. WatchersShaped'
  BY <1>1, <1>2, ExitDomain DEF WatchersShaped
<1>4. \A c \in Clients : Unasked(watcher'[c], watcher[c], c)
  BY <1>2 DEF Unasked, Enters, Wide
<1> QED
  BY <1>3, <1>4, LoginKeeps

(* A new server, when nothing is left of the one before *)
LEMMA LoginCalm ==
  ASSUME Calm, WatchersShaped', users' = << >>, net' = net,
         \A m \in net : m.cmd = "notify" => m.flag = TRUE,
         \A c \in Clients : /\ watcher'[c].notified = watcher[c].notified
                            /\ watcher'[c].tasks = watcher[c].tasks,
         site' = site
  PROVE  LoginInv'
<1>1. Assigned(<< >>, watcher', net', site.maxLogins)
  BY NoneRegistered DEF Assigned, Calm, Enters
<1> QED
  BY <1>1 DEF LoginInv

(* Each command that the server performs *)
LEMMA LoginServe ==
  ASSUME LoginInv, IdsInv, IdsInv', NEW c \in Clients, Serve(c)
  PROVE  LoginInv'
<1>1. PICK m \in net : StatusCmd(m) \/ NotifyCmd(m) \/ QuitCmd(m)
  BY DEF Serve
<1>2. PICK g : Assigned(g, watcher, net, site.maxLogins) /\ (up => g = users)
  BY DEF LoginInv
<1>3. /\ WatchersShaped /\ \A p \in net : p.cmd = "notify" => p.flag = TRUE
      /\ site' = site
  BY <1>1 DEF LoginInv, StatusCmd, NotifyCmd, QuitCmd, bounds
<1>4. ASSUME UNCHANGED watcher
      PROVE  WatchersShaped' /\ \A d \in Clients : Unasked(watcher'[d], watcher[d], d)
  BY <1>3, <1>4 DEF WatchersShaped, Unasked
<1>5. ASSUME NEW cmd, NEW id
      PROVE  /\ ToClient(m.client, cmd, id).cmd = cmd /\ ToClient(m.client, cmd, id).id = id
             /\ ToClient(m.client, cmd, id).client = m.client
  BY DEF ToClient
<1>6. CASE StatusCmd(m)
  <2>1. /\ net' = (net \ {m}) \cup {ToClient(m.client, "status.reply", NoId)}
        /\ UNCHANGED <<users, up, watcher>>
    BY <1>6 DEF StatusCmd
  <2>2. \A p \in net' : p \in net \/ p.cmd = "status.reply"
    BY <2>1, <1>5
  <2> QED
    BY <1>3, <1>4, <2>1, <2>2, LoginKeeps
<1>7. CASE NotifyCmd(m)
  <2>1. up /\ up' = up /\ UNCHANGED watcher /\ m.cmd = "notify" /\ m.flag = TRUE /\ NotifyOn(m)
    BY <1>3, <1>7 DEF NotifyCmd
  <2>2. Assigned(users, watcher, net, site.maxLogins)
    BY <1>2, <2>1
  <2>3. CASE m.client \in Registered
    <3>1. /\ net' = (net \ {m}) \cup {ToClient(m.client, "already", users[m.client])}
          /\ users' = users
      BY <2>1, <2>3 DEF NotifyOn
    <3>2. \A p \in net' : \/ p \in net
                          \/ p.cmd = "already" /\ p.client = m.client /\ p.id = users[m.client]
      BY <3>1, <1>5
    <3>3. Assigned(users, watcher, net', site.maxLogins)
      BY <2>2, <2>3, <3>2 DEF Assigned, Registered
    <3>4. \A p \in net' : p.cmd = "notify" => p.flag = TRUE
      BY <3>2, <1>3
    <3> QED
      BY <1>3, <1>4, <2>1, <3>1, <3>3, <3>4 DEF LoginInv
  <2>4. CASE m.client \notin Registered /\ Cardinality(Registered) >= site.maxLogins
    <3>1. /\ net' = (net \ {m}) \cup {ToClient(m.client, "many", NoId)}
          /\ users' = users
      BY <2>1, <2>4 DEF NotifyOn
    <3>2. \A p \in net' : p \in net \/ p.cmd = "many"
      BY <3>1, <1>5
    <3> QED
      BY <1>3, <1>4, <2>1, <3>1, <3>2, LoginKeeps
  <2>5. CASE m.client \notin Registered /\ ~(Cardinality(Registered) >= site.maxLogins)
    <3> DEFINE id == available[PopAvailableClientID(m.id)]
    <3>1. /\ users' = [d \in Registered \cup {m.client} |->
                         IF d = m.client THEN id ELSE users[d]]
          /\ net' = (net \ {m}) \cup {ToClient(m.client, "done", id)}
      BY <2>1, <2>5 DEF NotifyOn
    <3> HIDE DEF id
    <3>2. /\ DOMAIN users' = Registered \cup {m.client} /\ users'[m.client] = id
          /\ \A d \in Registered : users'[d] = users[d]
      BY <2>5, <3>1
    <3>3. \A p \in net' : \/ p \in net
                          \/ p.cmd = "done" /\ p.client = m.client /\ p.id = users'[m.client]
      BY <3>1, <3>2, <1>5
    <3>4. /\ \A d, e \in DOMAIN users' : users'[d] = users'[e] => d = e
          /\ \A d \in DOMAIN users' : users'[d] \in 0..(site.maxLogins - 1)
      BY <2>1, <1>3 DEF IdsInv, IdsAccounted, Registered, ClientIds
    <3>5. \A d \in Clients : Enters(watcher[d]) /\ Wide(watcher[d], site.maxLogins) =>
                               d \in DOMAIN users' /\ watcher[d].clientID = users'[d]
      BY <2>2, <3>2 DEF Assigned, Registered
    <3>6. \A p \in net' : p.cmd \in {"done", "already"} =>
                            p.client \in DOMAIN users' /\ p.id = users'[p.client]
      BY <2>2, <3>2, <3>3 DEF Assigned, Registered
    <3>7. Assigned(users', watcher', net', site.maxLogins)
      BY <2>1, <3>4, <3>5, <3>6 DEF Assigned
    <3>8. \A p \in net' : p.cmd = "notify" => p.flag = TRUE
      BY <3>3, <1>3
    <3> QED
      BY <1>3, <1>4, <2>1, <3>7, <3>8 DEF LoginInv
  <2> QED
    BY <2>3, <2>4, <2>5
<1>8. CASE QuitCmd(m)
  BY <1>3, <1>8, LoginExit DEF QuitCmd
<1> QED
  BY <1>1, <1>6, <1>7, <1>8

LEMMA LoginQuit ==
  ASSUME LoginInv, site.owner \in Clients, Quit
  PROVE  LoginInv'
<1> DEFINE o == site.owner
           all == [watcher EXCEPT ![o] = QuitWatcher(watcher[o])]
<1>1. WatchersShaped
  BY DEF LoginInv
<1>2. /\ Follows(QuitWatcher(watcher[o]), watcher[o])
      /\ QuitWatcher(watcher[o]).requests = {}
  BY <1>1, QuitFollows DEF WatchersShaped
<1>3. /\ DOMAIN all = Clients /\ all[o] = QuitWatcher(watcher[o])
      /\ \A d \in Clients : d # o => all[d] = watcher[d]
  BY <1>1 DEF WatchersShaped
<1>4. /\ net' = net \cup {ToServer(o, "quit", FALSE, NoId)} /\ site' = site
      /\ \/ watcher' = all /\ up' = (up /\ TRUE) /\ users' = users
         \/ watcher' = Exit(all) /\ ~up'
  BY DEF Quit, bounds
<1> HIDE DEF all
<1>5. \A d \in Clients : /\ Watcher(all[d]) /\ all[d].requests = {}
                         /\ Unasked(all[d], watcher[d], d)
  BY <1>1, <1>2, <1>3 DEF WatchersShaped, Follows, Unasked, Enters, Wide
<1>6. \A p \in net' : p \in net \/ p.cmd = "quit"
  BY <1>4 DEF ToServer
<1>7. CASE watcher' = all /\ up' = (up /\ TRUE) /\ users' = users
  <2>1. WatchersShaped'
    BY <1>3, <1>5, <1>7 DEF WatchersShaped
  <2> QED
    BY <1>4, <1>5, <1>6, <1>7, <2>1, LoginKeeps
<1>8. CASE watcher' = Exit(all) /\ ~up'
  <2>1. \A d \in Clients :
          /\ Watcher(watcher'[d]) /\ watcher'[d].requests = all[d].requests
          /\ watcher'[d].notified = all[d].notified /\ watcher'[d].clientID = all[d].clientID
          /\ watcher'[d].maxNumClients = all[d].maxNumClients
          /\ all[d].tasks = << >> => watcher'[d].tasks = << >>
    BY <1>5, <1>8, ExitFacts
  <2>2. WatchersShaped'
    BY <1>5, <1>8, <2>1, ExitDomain DEF WatchersShaped
  <2>3. \A d \in Clients : Unasked(watcher'[d], watcher[d], d)
    BY <1>5, <2>1 DEF Unasked, Enters, Wide, Took
  <2> QED
    BY <1>4, <1>6, <1>8, <2>2, <2>3, LoginKeeps
<1> QED
  BY <1>4, <1>7, <1>8

LEMMA LoginTask ==
  ASSUME LoginInv, NEW c \in Clients, NEW i \in 1..MaxTasks, Task(c, i) \/ TaskHangs(c, i)
  PROVE  LoginInv'
<1> DEFINE w == watcher[c]
<1>1. Watcher(w) /\ w.requests = {} /\ DOMAIN watcher = Clients
  BY DEF LoginInv, WatchersShaped
<1>2. i <= Len(w.tasks) /\ UNCHANGED <<net, up, users, site>>
  BY DEF Task, TaskHangs, server, bounds
<1>3. w.tasks # << >>
  <2>1. MaxTasks \in Nat
    BY ServerLoginAssumption
  <2>2. Len(<< >>) = 0
    OBVIOUS
  <2>3. 1 <= i /\ i \in Int
    BY <2>1
  <2> HIDE DEF w
  <2>4. w.tasks = << >> => Len(w.tasks) = 0
    BY <2>2
  <2> QED
    BY ONLY <1>2, <2>3, <2>4
<1>4. Enters(w)
  BY <1>3 DEF Enters
<1>5. CASE Task(c, i)
  <2> DEFINE x == [w EXCEPT !.tasks = Advance(@, i)]
             y == [x EXCEPT !.notified = w.notified \/ w.tasks[i] = "bootSync"]
  <2>1. watcher' = [watcher EXCEPT ![c] = y]
    BY <1>1, <1>5 DEF Task, Watcher, Fields
  <2> HIDE DEF w
  <2>2. /\ Watcher(x) /\ x.requests = w.requests /\ x.clientID = w.clientID
        /\ x.maxNumClients = w.maxNumClients
    BY <1>1 DEF Watcher, Fields
  <2> HIDE DEF x
  <2>3. /\ Watcher(y) /\ y.requests = x.requests /\ y.clientID = x.clientID
        /\ y.maxNumClients = x.maxNumClients
    BY <2>2 DEF Watcher, Fields
  <2> HIDE DEF y
  <2>4. y.requests = {} /\ Unasked(y, w, c)
    BY <1>1, <1>4, <2>2, <2>3 DEF Unasked, Wide
  <2> QED
    BY <1>2, <2>1, <2>3, <2>4, LoginOne DEF w
<1>6. CASE TaskHangs(c, i)
  <2> DEFINE x == [w EXCEPT !.tasks = RemoveAt(@, i)]
  <2>1. watcher' = [watcher EXCEPT ![c] = x]
    BY <1>6 DEF TaskHangs
  <2> HIDE DEF w
  <2>2. /\ Watcher(x) /\ x.requests = w.requests /\ x.clientID = w.clientID
        /\ x.maxNumClients = w.maxNumClients
    BY <1>1 DEF Watcher, Fields
  <2> HIDE DEF x
  <2>3. x.requests = {} /\ Unasked(x, w, c)
    BY <1>1, <1>4, <2>2 DEF Unasked, Wide
  <2> QED
    BY <1>2, <2>1, <2>2, <2>3, LoginOne DEF w
<1> QED
  BY <1>5, <1>6

LEMMA LoginBoot ==
  ASSUME LoginInv, site.owner \in Clients, Boot, Calm
  PROVE  LoginInv'
<1> DEFINE o == site.owner
           v == [watcher[o] EXCEPT !.poll = "first"]
<1>1. WatchersShaped /\ \A m \in net : m.cmd = "notify" => m.flag = TRUE
  BY DEF LoginInv
<1>2. /\ watcher' = [watcher EXCEPT ![o] = v] /\ users' = << >> /\ net' = net
      /\ site' = site
  BY DEF Boot, NewWorld
<1>3. /\ Watcher(v) /\ v.requests = watcher[o].requests /\ v.notified = watcher[o].notified
      /\ v.tasks = watcher[o].tasks
  BY <1>1 DEF WatchersShaped, Watcher, Fields
<1> HIDE DEF v
<1>4. /\ DOMAIN watcher' = Clients /\ watcher'[o] = v
      /\ \A d \in Clients : d # o => watcher'[d] = watcher[d]
  BY <1>1, <1>2 DEF WatchersShaped
<1>5. WatchersShaped'
  BY <1>1, <1>3, <1>4 DEF WatchersShaped
<1>6. \A d \in Clients : /\ watcher'[d].notified = watcher[d].notified
                         /\ watcher'[d].tasks = watcher[d].tasks
  BY <1>3, <1>4
<1> QED
  BY <1>1, <1>2, <1>5, <1>6, LoginCalm

LEMMA OwnerIsClient ==
  ASSUME site \in Sites, site.owner # NoClient
  PROVE  site.owner \in Clients
BY ServerLoginAssumption DEF Site

LEMMA LoginInit ==
  ASSUME Init
  PROVE  LoginInv
<1>1. \A c \in Clients : \E poll : watcher[c] = NewWatcher(c, poll)
  BY DEF Init
<1>2. DOMAIN watcher = Clients /\ users = << >> /\ net = {}
  BY DEF Init
<1>3. WatchersShaped /\ \A c \in Clients : ~Enters(watcher[c])
  BY <1>1, <1>2, NewShape DEF WatchersShaped, Enters
<1>4. Assigned(users, watcher, net, site.maxLogins)
  BY <1>2, <1>3, NoneRegistered DEF Assigned
<1> QED
  BY <1>2, <1>3, <1>4 DEF LoginInv

(* A server comes back when the clients have noticed that the one before   *)
(* has gone, and what it sent has arrived or got lost.                     *)
NoticedFirst == (Restart \/ Boot) => Calm

LEMMA LoginStep ==
  ASSUME LoginInv, IdsInv, IdsInv', [Next]_vars, NoticedFirst,
         \A s \in Sites : s.toggling = {}
  PROVE  LoginInv'
<1>1. WatchersShaped /\ site \in Sites
  BY DEF LoginInv, IdsInv
<1>2. \A c \in Clients : Watcher(watcher[c]) /\ watcher[c].requests = {} /\ Unasked(watcher[c], watcher[c], c)
  BY <1>1 DEF WatchersShaped, Unasked
<1>3. ASSUME UNCHANGED <<watcher, up, users, site>>, net' \subseteq net
      PROVE  LoginInv'
  <2>1. WatchersShaped' /\ \A c \in Clients : Unasked(watcher'[c], watcher[c], c)
    BY <1>1, <1>3 DEF WatchersShaped, Unasked
  <2> QED
    BY <1>3, <2>1, LoginKeeps
<1>4. CASE UNCHANGED vars
  BY <1>3, <1>4 DEF vars
<1>5. CASE Crash
  BY <1>5, LoginExit DEF Crash, bounds
<1>6. CASE Restart
  <2>1. Calm /\ users' = << >> /\ UNCHANGED <<net, watcher, site>>
    BY <1>6 DEF Restart, NewWorld, NoticedFirst
  <2>2. WatchersShaped' /\ \A m \in net : m.cmd = "notify" => m.flag = TRUE
    BY <1>1, <2>1 DEF WatchersShaped, LoginInv
  <2> QED
    BY <2>1, <2>2, LoginCalm
<1>7. CASE Lose
  BY <1>3, <1>7 DEF Lose, server
<1>8. CASE \E c \in Clients : Serve(c)
  BY <1>8, LoginServe
<1>9. CASE \E c \in Clients : FindNoServer(c)
  BY <1>3, <1>9 DEF FindNoServer, server, bounds
<1>10. CASE \E c \in Clients : Receive(c)
  <2>1. PICK c \in Clients : Receive(c)
    BY <1>10
  <2>0. PICK m \in net : \E w :
           /\ m.client = c /\ Becomes(c, w, net \ {m})
           /\ Watcher(w) /\ w.exited = watcher[c].exited
           /\ w.requests \subseteq {TRUE}
           /\ Follows(w, watcher[c]) \/ (m.cmd \in {"done", "already"} /\ Took(w, m.id))
    BY <1>1, <2>1, ReceiveBecomes
  <2>2. PICK w :
           /\ m.client = c /\ Becomes(c, w, net \ {m})
           /\ Watcher(w) /\ w.exited = watcher[c].exited
           /\ w.requests \subseteq {TRUE}
           /\ Follows(w, watcher[c]) \/ (m.cmd \in {"done", "already"} /\ Took(w, m.id))
    BY <2>0
  <2>3. Unasked(w, watcher[c], c)
    BY <2>2 DEF Unasked, Follows, Enters, Wide
  <2>4. UNCHANGED <<up, users, site>>
    BY <2>1 DEF Receive, StatusReply, DoneNotify, FailNotify, Take, server, bounds
  <2> DEFINE others == net \ {m}
  <2>5. Becomes(c, w, others) /\ \A p \in others : p \in net
    BY <2>2
  <2> HIDE DEF others
  <2> QED
    BY ONLY LoginInv, c \in Clients, <2>2, <2>3, <2>4, <2>5, LoginOwn
<1>11. CASE \E c \in Clients : Poll(c)
  <2>1. PICK c \in Clients : Poll(c)
    BY <1>11
  <2>2. PICK w : /\ Follows(w, watcher[c])
                 /\ Becomes(c, w, net \cup {ToServer(c, "status", FALSE, NoId)})
    BY <1>1, <2>1, PollBecomes
  <2>3. \A m \in net \cup {ToServer(c, "status", FALSE, NoId)} : m \in net \/ m.cmd = "status"
    BY DEF ToServer
  <2>4. UNCHANGED <<up, users, site>>
    BY <2>1 DEF Poll, server, bounds
  <2> QED
    BY <2>2, <2>3, <2>4, LoginFollows
<1>12. CASE \E c \in Clients : Deferred(c)
  <2>1. PICK c \in Clients : Deferred(c)
    BY <1>12
  <2>2. PICK w : Follows(w, watcher[c]) /\ Becomes(c, w, net)
    BY <1>1, <2>1, DeferredBecomes
  <2>3. UNCHANGED <<up, users, site>>
    BY <2>1 DEF Deferred, server, bounds
  <2> QED
    BY <2>2, <2>3, LoginFollows
<1>13. CASE \E c \in Clients, i \in 1..MaxTasks : Task(c, i) \/ TaskHangs(c, i)
  BY <1>13, LoginTask
<1>14. CASE \E c \in Clients : Recompile(c)
  <2>1. PICK c \in Clients : Recompile(c)
    BY <1>14
  <2>2. /\ watcher' = [watcher EXCEPT ![c] = NewWatcher(c, "first")]
        /\ UNCHANGED <<net, up, users, site>>
    BY <2>1 DEF Recompile, server
  <2>3. /\ Watcher(NewWatcher(c, "first")) /\ NewWatcher(c, "first").requests = {}
        /\ Unasked(NewWatcher(c, "first"), watcher[c], c)
    BY NewShape DEF Unasked, Enters
  <2> QED
    BY <2>2, <2>3, LoginOne
<1>15. CASE \E c \in Clients, flag \in BOOLEAN : Notify(c, flag)
  BY <1>1, <1>15 DEF Notify
<1>16. CASE Boot
  <2>1. site.owner \in Clients /\ Calm
    BY <1>1, <1>16, OwnerIsClient DEF Boot, NoticedFirst
  <2> QED
    BY <1>16, <2>1, LoginBoot
<1>17. CASE Quit
  BY <1>1, <1>17, OwnerIsClient, LoginQuit DEF Quit
<1>18. CASE OnServerProcessExit
  <2> DEFINE o == site.owner
             v == QuitWatcher(watcher[o])
             x == [v EXCEPT !.exited = FALSE]
  <2>1. o \in Clients
    BY <1>1, <1>18, OwnerIsClient DEF OnServerProcessExit
  <2>2. /\ watcher' = [watcher EXCEPT ![o] = x]
        /\ UNCHANGED <<net, up, users, site>>
    BY <1>18 DEF OnServerProcessExit, server, bounds
  <2>3. Follows(v, watcher[o]) /\ v.requests = {}
    BY <1>2, <2>1, QuitFollows
  <2> HIDE DEF v
  <2>4. /\ Watcher(x) /\ x.requests = v.requests /\ x.notified = v.notified
        /\ x.tasks = v.tasks /\ x.clientID = v.clientID
        /\ x.maxNumClients = v.maxNumClients
    BY <2>3 DEF Follows, Watcher, Fields
  <2> HIDE DEF x
  <2>5. Unasked(x, watcher[o], o)
    BY <2>3, <2>4 DEF Follows, Unasked, Enters, Wide
  <2> QED
    BY <2>1, <2>2, <2>3, <2>4, <2>5, LoginOne
<1> QED
  BY <1>4, <1>5, <1>6, <1>7, <1>8, <1>9, <1>10, <1>11, <1>12, <1>13, <1>14, <1>15,
     <1>16, <1>17, <1>18 DEF Next

(* No two clients that take the server for running have one id, whichever  *)
(* messages are lost or overtake each other and however often clients are  *)
(* restarted and the server crashes, for any number of clients whose       *)
(* clientID_ refuses no id of the server (TakesAnyId, a part of NoClash):  *)
(* a client with the default options refuses the id of an "already         *)
(* registered" reply and takes the server for running all the same.  The   *)
(* hypotheses exclude what else breaks it: a client that was switched off  *)
(* keeps its id until the answer comes, while the server may give it away, *)
(* and a server that is back before it was missed gives ids in use.        *)
THEOREM NeverClash ==
  (\A s \in Sites : s.toggling = {}) => (Spec /\ [][NoticedFirst]_vars => []NoClash)
<1> SUFFICES ASSUME \A s \in Sites : s.toggling = {}
             PROVE  Spec /\ [][NoticedFirst]_vars => []NoClash
  OBVIOUS
<1>1. Init => LoginInv
  BY LoginInit
<1>2. LoginInv /\ IdsInv /\ IdsInv' /\ [Next]_vars /\ [NoticedFirst]_vars => LoginInv'
  <2> SUFFICES ASSUME LoginInv, IdsInv, IdsInv', [Next]_vars, [NoticedFirst]_vars
               PROVE  LoginInv'
    OBVIOUS
  <2>1. CASE UNCHANGED vars
    BY <2>1 DEF LoginInv, WatchersShaped, vars
  <2>2. CASE NoticedFirst
    BY <2>2, LoginStep
  <2> QED
    BY <2>1, <2>2
<1>3. LoginInv /\ IdsInv => NoClash
  BY DEF LoginInv, IdsInv, NoClash, Assigned, Enters, ServerRunning, TakesAnyId, Wide
<1> QED
  BY <1>1, <1>2, <1>3, IdsInductive, PTL DEF Spec

-----------------------------------------------------------------------------
(* The exit of the server *)

(* Nothing is left by which a client could take a server for running that   *)
(* has exited.                                                              *)
Silent ==
  LET w == watcher[site.owner]
  IN /\ w.poll = "off" /\ ~w.hasBooted /\ ~w.deferred
     /\ \A m \in net : m.client # site.owner

Gone == site.owner # NoClient /\ ~up /\ ~watcher[site.owner].exited

ExitInv ==
  /\ site \in Sites
  /\ WatchersShaped
  /\ Gone => Silent

LEMMA ExitElse ==
  ASSUME ExitInv, UNCHANGED <<site, up>>, WatchersShaped',
         site.owner \in Clients => watcher'[site.owner] = watcher[site.owner],
         \A m \in net' : m \in net \/ m.client # site.owner
  PROVE  ExitInv'
<1>1. CASE site.owner = NoClient
  BY <1>1 DEF ExitInv, Gone
<1>2. CASE site.owner # NoClient
  <2>1. watcher'[site.owner] = watcher[site.owner]
    BY <1>2, OwnerIsClient DEF ExitInv
  <2> QED
    BY <2>1 DEF ExitInv, Gone, Silent
<1> QED
  BY <1>1, <1>2

LEMMA ExitInit ==
  ASSUME Init
  PROVE  ExitInv
<1>1. \A c \in Clients : watcher[c] = NewWatcher(c, IF c \in site.clients \ {site.owner} THEN "first" ELSE "off")
  BY DEF Init
<1>2. DOMAIN watcher = Clients /\ net = {} /\ site \in Sites
  BY DEF Init
<1>3. WatchersShaped
  BY <1>1, <1>2, NewShape DEF WatchersShaped
<1>4. ASSUME site.owner # NoClient
      PROVE  Silent
  <2>1. watcher[site.owner] = NewWatcher(site.owner, "off")
    BY <1>1, <1>2, <1>4, OwnerIsClient
  <2> QED
    BY <1>2, <2>1, NewShape DEF Silent
<1> QED
  BY <1>2, <1>3, <1>4 DEF ExitInv, Gone

LEMMA ExitOwn ==
  ASSUME ExitInv, NEW c \in Clients, NEW w, Watcher(w), NEW others, Becomes(c, w, others),
         w.exited = watcher[c].exited, UNCHANGED <<site, up>>,
         \A m \in others : m \in net \/ m.client = c,
         Gone /\ c = site.owner => /\ w.poll = "off" /\ ~w.hasBooted /\ ~w.deferred
                                   /\ w.requests = {} /\ others \subseteq net
  PROVE  ExitInv'
<1>1. /\ WatchersShaped'
      /\ \A d \in Clients : d # c => watcher'[d] = watcher[d]
      /\ \A f \in Fields : f # "requests" => watcher'[c][f] = w[f]
      /\ \A m \in net' : \/ m \in others
                         \/ m.client = c /\ m.cmd = "notify" /\ m.flag \in w.requests
  BY BecomesFacts DEF ExitInv
<1>2. CASE c = site.owner
  <2>1. /\ watcher'[c].poll = w.poll /\ watcher'[c].hasBooted = w.hasBooted
        /\ watcher'[c].deferred = w.deferred /\ watcher'[c].exited = w.exited
    BY <1>1 DEF Fields
  <2>2. Gone' => Gone
    BY <1>2, <2>1 DEF Gone
  <2>3. Gone => \A m \in net' : m \in net
    BY <1>1, <1>2
  <2>4. Gone' => Silent'
    BY <1>2, <2>1, <2>2, <2>3 DEF ExitInv, Silent
  <2> QED
    BY <1>1, <2>4 DEF ExitInv
<1>3. CASE c # site.owner
  BY <1>1, <1>3, ExitElse
<1> QED
  BY <1>2, <1>3

(* The step takes one client's watcher only, and leaves the exit alone. *)
LEMMA ExitOne ==
  ASSUME ExitInv, NEW c \in Clients, NEW v, Watcher(v), v.requests = {},
         watcher' = [watcher EXCEPT ![c] = v], UNCHANGED <<site, up, net>>,
         c = site.owner => /\ v.exited = watcher[c].exited /\ v.poll = watcher[c].poll
                           /\ v.hasBooted = watcher[c].hasBooted
                           /\ v.deferred = watcher[c].deferred
  PROVE  ExitInv'
<1>1. /\ watcher'[c] = v /\ DOMAIN watcher' = Clients
      /\ \A d \in Clients : d # c => watcher'[d] = watcher[d]
  BY DEF ExitInv, WatchersShaped
<1>2. WatchersShaped'
  BY <1>1 DEF ExitInv, WatchersShaped
<1>3. CASE c = site.owner
  BY <1>1, <1>2, <1>3 DEF ExitInv, Gone, Silent
<1>4. CASE c # site.owner
  BY <1>1, <1>2, <1>4, ExitElse
<1> QED
  BY <1>3, <1>4

LEMMA ExitEnds ==
  ASSUME ExitInv, UNCHANGED site, watcher' = Exit(watcher)
  PROVE  ExitInv'
<1>1. \A c \in Clients : Watcher(watcher[c]) /\ watcher[c].requests = {}
  BY DEF ExitInv, WatchersShaped
<1>2. \A c \in Clients :
        /\ Watcher(watcher'[c]) /\ watcher'[c].requests = watcher[c].requests
        /\ c = site.owner => watcher'[c].exited
  BY <1>1, ExitFacts
<1>3. WatchersShaped'
  BY <1>1, <1>2, ExitDomain DEF WatchersShaped
<1>4. ~Gone'
  BY <1>2, OwnerIsClient DEF Gone, ExitInv
<1> QED
  BY <1>3, <1>4 DEF ExitInv

LEMMA ExitQuit ==
  ASSUME ExitInv, Quit
  PROVE  ExitInv'
<1> DEFINE o == site.owner
           all == [watcher EXCEPT ![o] = QuitWatcher(watcher[o])]
<1>1. WatchersShaped /\ o \in Clients /\ UNCHANGED site
  BY OwnerIsClient DEF ExitInv, Quit, bounds
<1>2. /\ Follows(QuitWatcher(watcher[o]), watcher[o])
      /\ QuitWatcher(watcher[o]).requests = {}
  BY <1>1, QuitFollows DEF WatchersShaped
<1>3. /\ DOMAIN all = Clients /\ all[o] = QuitWatcher(watcher[o])
      /\ \A d \in Clients : d # o => all[d] = watcher[d]
  BY <1>1 DEF WatchersShaped
<1>4. /\ watcher[o].poll # "off"
      /\ \/ watcher' = all /\ up' = (up /\ TRUE)
         \/ watcher' = Exit(all) /\ ~up'
  BY DEF Quit
<1> HIDE DEF all
<1>5. \A d \in Clients : Watcher(all[d]) /\ all[d].requests = {}
  BY <1>1, <1>2, <1>3 DEF WatchersShaped, Follows
<1>6. CASE watcher' = all /\ up' = (up /\ TRUE)
  <2>1. WatchersShaped'
    BY <1>3, <1>5, <1>6 DEF WatchersShaped
  <2>2. watcher'[o].exited = watcher[o].exited
    BY <1>2, <1>3, <1>6 DEF Follows
  <2>3. ~Gone
    BY <1>4 DEF ExitInv, Silent
  <2>4. ~Gone'
    BY <1>1, <1>6, <2>2, <2>3 DEF Gone
  <2> QED
    BY <1>1, <2>1, <2>4 DEF ExitInv
<1>7. CASE watcher' = Exit(all) /\ ~up'
  <2>1. \A d \in Clients :
          /\ Watcher(watcher'[d]) /\ watcher'[d].requests = all[d].requests
          /\ d = site.owner => watcher'[d].exited
    BY <1>5, <1>7, ExitFacts
  <2>2. WatchersShaped'
    BY <1>5, <1>7, <2>1, ExitDomain DEF WatchersShaped
  <2>3. ~Gone'
    BY <1>1, <2>1 DEF Gone
  <2> QED
    BY <1>1, <2>2, <2>3 DEF ExitInv
<1> QED
  BY <1>4, <1>6, <1>7

LEMMA ExitTask ==
  ASSUME ExitInv, NEW c \in Clients, NEW i \in 1..MaxTasks, Task(c, i) \/ TaskHangs(c, i)
  PROVE  ExitInv'
<1> DEFINE w == watcher[c]
<1>1. Watcher(w) /\ w.requests = {} /\ DOMAIN watcher = Clients
  BY DEF ExitInv, WatchersShaped
<1>2. UNCHANGED <<site, up, net>>
  BY DEF Task, TaskHangs, server, bounds
<1>3. CASE Task(c, i)
  <2> DEFINE x == [w EXCEPT !.tasks = Advance(@, i)]
             y == [x EXCEPT !.notified = w.notified \/ w.tasks[i] = "bootSync"]
  <2>1. watcher' = [watcher EXCEPT ![c] = y]
    BY <1>1, <1>3 DEF Task, Watcher, Fields
  <2> HIDE DEF w
  <2>2. /\ Watcher(x) /\ x.requests = w.requests /\ x.exited = w.exited /\ x.poll = w.poll
        /\ x.hasBooted = w.hasBooted /\ x.deferred = w.deferred
    BY <1>1 DEF Watcher, Fields
  <2> HIDE DEF x
  <2>3. /\ Watcher(y) /\ y.requests = x.requests /\ y.exited = x.exited /\ y.poll = x.poll
        /\ y.hasBooted = x.hasBooted /\ y.deferred = x.deferred
    BY <2>2 DEF Watcher, Fields
  <2> HIDE DEF y
  <2> QED
    BY <1>1, <1>2, <2>1, <2>2, <2>3, ExitOne DEF w
<1>4. CASE TaskHangs(c, i)
  <2> DEFINE x == [w EXCEPT !.tasks = RemoveAt(@, i)]
  <2>1. watcher' = [watcher EXCEPT ![c] = x]
    BY <1>4 DEF TaskHangs
  <2> HIDE DEF w
  <2>2. /\ Watcher(x) /\ x.requests = w.requests /\ x.exited = w.exited /\ x.poll = w.poll
        /\ x.hasBooted = w.hasBooted /\ x.deferred = w.deferred
    BY <1>1 DEF Watcher, Fields
  <2> HIDE DEF x
  <2> QED
    BY <1>1, <1>2, <2>1, <2>2, ExitOne DEF w
<1> QED
  BY <1>3, <1>4

LEMMA ExitServe ==
  ASSUME ExitInv, NEW c \in Clients, Serve(c)
  PROVE  ExitInv'
<1>1. PICK m \in net : StatusCmd(m) \/ NotifyCmd(m) \/ QuitCmd(m)
  BY DEF Serve
<1>2. CASE StatusCmd(m) \/ NotifyCmd(m)
  <2>1. UNCHANGED <<site, watcher, up>> /\ up
    BY <1>2 DEF StatusCmd, NotifyCmd, bounds
  <2> QED
    BY <2>1 DEF ExitInv, WatchersShaped, Gone
<1>3. CASE QuitCmd(m)
  BY <1>3, ExitEnds DEF QuitCmd, bounds
<1> QED
  BY <1>1, <1>2, <1>3

LEMMA ExitStep ==
  ASSUME ExitInv, [Next]_vars, \A s \in Sites : s.prompt
  PROVE  ExitInv'
<1>1. WatchersShaped /\ site \in Sites
  BY DEF ExitInv
<1>2. \A c \in Clients : Watcher(watcher[c]) /\ watcher[c].requests = {}
  BY <1>1 DEF WatchersShaped
<1>3. ASSUME UNCHANGED <<watcher, site>>, net' \subseteq net, up' \/ up' = up
      PROVE  ExitInv'
  BY <1>3 DEF ExitInv, WatchersShaped, Gone, Silent
<1>4. CASE UNCHANGED vars
  BY <1>3, <1>4 DEF vars
<1>5. CASE Crash
  BY <1>5, ExitEnds DEF Crash, bounds
<1>6. CASE Restart
  BY <1>3, <1>6 DEF Restart, NewWorld
<1>7. CASE Lose
  BY <1>3, <1>7 DEF Lose, server
<1>8. CASE \E c \in Clients : Serve(c)
  BY <1>8, ExitServe
<1>9. CASE \E c \in Clients : FindNoServer(c)
  BY <1>3, <1>9 DEF FindNoServer, server, bounds
<1>10. CASE \E c \in Clients : Receive(c)
  <2>1. PICK c \in Clients : Receive(c)
    BY <1>10
  <2>0. PICK m \in net : \E w :
           /\ m.client = c /\ Becomes(c, w, net \ {m})
           /\ Watcher(w) /\ w.exited = watcher[c].exited
           /\ w.requests \subseteq {TRUE}
           /\ Follows(w, watcher[c]) \/ (m.cmd \in {"done", "already"} /\ Took(w, m.id))
    BY <1>1, <2>1, ReceiveBecomes
  <2>2. PICK w :
           /\ m.client = c /\ Becomes(c, w, net \ {m})
           /\ Watcher(w) /\ w.exited = watcher[c].exited
           /\ w.requests \subseteq {TRUE}
           /\ Follows(w, watcher[c]) \/ (m.cmd \in {"done", "already"} /\ Took(w, m.id))
    BY <2>0
  <2>3. UNCHANGED <<site, up>>
    BY <2>1 DEF Receive, StatusReply, DoneNotify, FailNotify, Take, server, bounds
  <2>4. ~(Gone /\ c = site.owner)
    BY <2>2 DEF ExitInv, Silent
  <2> DEFINE others == net \ {m}
  <2>5. Becomes(c, w, others) /\ \A p \in others : p \in net
    BY <2>2
  <2> HIDE DEF others
  <2> QED
    BY ONLY ExitInv, c \in Clients, <2>2, <2>3, <2>4, <2>5, ExitOwn
<1>11. CASE \E c \in Clients : Poll(c)
  <2>1. PICK c \in Clients : Poll(c)
    BY <1>11
  <2> DEFINE others == net \cup {ToServer(c, "status", FALSE, NoId)}
  <2>2. PICK w : Follows(w, watcher[c]) /\ Becomes(c, w, others)
    BY <1>1, <2>1, PollBecomes
  <2>3. \A m \in others : m \in net \/ m.client = c
    BY DEF ToServer
  <2>4. UNCHANGED <<site, up>>
    BY <2>1 DEF Poll, server, bounds
  <2>5. ~(Gone /\ c = site.owner)
    BY <2>1 DEF Poll, ExitInv, Silent
  <2>6. Watcher(w) /\ w.exited = watcher[c].exited
    BY <2>2 DEF Follows
  <2> HIDE DEF others
  <2> QED
    BY ONLY ExitInv, c \in Clients, <2>2, <2>3, <2>4, <2>5, <2>6, ExitOwn
<1>12. CASE \E c \in Clients : Deferred(c)
  <2>1. PICK c \in Clients : Deferred(c)
    BY <1>12
  <2>2. PICK w : Follows(w, watcher[c]) /\ Becomes(c, w, net)
    BY <1>1, <2>1, DeferredBecomes
  <2>3. UNCHANGED <<site, up>>
    BY <2>1 DEF Deferred, server, bounds
  <2>4. ~(Gone /\ c = site.owner)
    BY <2>1 DEF Deferred, ExitInv, Silent
  <2>5. Watcher(w) /\ w.exited = watcher[c].exited
    BY <2>2 DEF Follows
  <2> QED
    BY ONLY ExitInv, c \in Clients, <2>2, <2>3, <2>4, <2>5, ExitOwn
<1>13. CASE \E c \in Clients, i \in 1..MaxTasks : Task(c, i) \/ TaskHangs(c, i)
  BY <1>13, ExitTask
<1>14. CASE \E c \in Clients : Recompile(c)
  <2>1. PICK c \in Clients : Recompile(c)
    BY <1>14
  <2>2. /\ watcher' = [watcher EXCEPT ![c] = NewWatcher(c, "first")]
        /\ UNCHANGED <<site, up, net>> /\ c # site.owner
    BY <2>1 DEF Recompile, Remote, server
  <2> QED
    BY <2>2, NewShape, ExitOne
<1>15. CASE \E c \in Clients, flag \in BOOLEAN : Notify(c, flag)
  <2>1. PICK c \in Clients, flag \in BOOLEAN : Notify(c, flag)
    BY <1>15
  <2>2. PICK w : /\ Watcher(w) /\ w.exited = watcher[c].exited
                 /\ Becomes(c, w, net)
                 /\ ~watcher[c].hasBooted =>
                      w.hasBooted = watcher[c].hasBooted /\ w.poll = watcher[c].poll
                      /\ w.deferred = watcher[c].deferred /\ w.requests = {}
    BY <1>1, <2>1, NotifyBecomes
  <2>3. UNCHANGED <<site, up>>
    BY <2>1 DEF Notify, server, bounds
  <2>4. Gone /\ c = site.owner => /\ w.poll = "off" /\ ~w.hasBooted /\ ~w.deferred
                                  /\ w.requests = {} /\ net \subseteq net
    BY <2>2 DEF ExitInv, Silent
  <2> QED
    BY ONLY ExitInv, c \in Clients, <2>2, <2>3, <2>4, ExitOwn
<1>16. CASE Boot
  <2> DEFINE o == site.owner
             v == [watcher[o] EXCEPT !.poll = "first"]
  <2>1. o \in Clients /\ watcher' = [watcher EXCEPT ![o] = v] /\ up' /\ UNCHANGED site
    BY <1>1, <1>16, OwnerIsClient DEF Boot, NewWorld
  <2>2. Watcher(v) /\ v.requests = watcher[o].requests
    BY <1>2, <2>1 DEF Watcher, Fields
  <2> HIDE DEF v
  <2>3. WatchersShaped'
    BY <1>1, <1>2, <2>1, <2>2 DEF WatchersShaped
  <2> QED
    BY <1>1, <2>1, <2>3 DEF ExitInv, Gone
<1>17. CASE Quit
  BY <1>17, ExitQuit
<1>18. CASE OnServerProcessExit
  <2> DEFINE o == site.owner
             v == QuitWatcher(watcher[o])
             x == [v EXCEPT !.exited = FALSE]
  <2>1. o \in Clients /\ site.prompt
    BY <1>1, <1>18, OwnerIsClient DEF OnServerProcessExit
  <2>2. /\ watcher' = [watcher EXCEPT ![o] = x]
        /\ UNCHANGED <<site, net, up>> /\ Quiet(o)
    BY <1>18, <2>1 DEF OnServerProcessExit, server, bounds
  <2>3. /\ Follows(v, watcher[o]) /\ v.requests = {}
        /\ v.poll = "off" /\ ~v.hasBooted /\ v.deferred = watcher[o].deferred
    BY <1>2, <2>1, QuitFollows
  <2> HIDE DEF v
  <2>4. /\ Watcher(x) /\ x.requests = v.requests /\ x.poll = v.poll
        /\ x.hasBooted = v.hasBooted /\ x.deferred = v.deferred
    BY <2>3 DEF Follows, Watcher, Fields
  <2> HIDE DEF x
  <2>5. watcher'[o] = x
    BY <1>1, <2>1, <2>2 DEF WatchersShaped
  <2>6. WatchersShaped'
    BY <1>1, <1>2, <2>1, <2>2, <2>3, <2>4 DEF WatchersShaped
  <2>7. Silent'
    BY <2>2, <2>3, <2>4, <2>5 DEF Silent, Quiet
  <2> QED
    BY <1>1, <2>2, <2>6, <2>7 DEF ExitInv
<1> QED
  BY <1>4, <1>5, <1>6, <1>7, <1>8, <1>9, <1>10, <1>11, <1>12, <1>13, <1>14, <1>15,
     <1>16, <1>17, <1>18 DEF Next

(* A client that owns the server does not take it for running when it has  *)
(* exited and prOnServerProcessExit was called, for any number of remote   *)
(* clients beside it.  It holds while an exit takes longer to be noticed   *)
(* than a round trip: a later reply would set hasBooted again.             *)
THEOREM ExitKnown ==
  (\A s \in Sites : s.prompt) => (Spec => []ExitIsKnown)
<1> SUFFICES ASSUME \A s \in Sites : s.prompt
             PROVE  Spec => []ExitIsKnown
  OBVIOUS
<1>1. Init => ExitInv
  BY ExitInit
<1>2. ExitInv /\ [Next]_vars => ExitInv'
  BY ExitStep
<1>3. ExitInv => ExitIsKnown
  BY DEF ExitInv, Gone, Silent, ExitIsKnown, ServerRunning
<1> QED
  BY <1>1, <1>2, <1>3, PTL DEF Spec
=============================================================================
