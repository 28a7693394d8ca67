---------------------- MODULE SequencedCommandsProofs ----------------------
(* SequencedCommands for any number of packets and commands.  Whatever the *)
(* size of the fifos, no table refers to data that was freed.  As long as  *)
(* the fifos have room, /sync replies after all commands before it, and    *)
(* between commands the tables agree and no memory is lost; fifos of four  *)
(* times the packets the clients send have room.                           *)
EXTENDS SequencedCommands, FiniteSetTheorems, TLAPS

-----------------------------------------------------------------------------
(* Where the commands are.  What follows is said of any commands cs and    *)
(* fifos to and from, because a handler changes them several times.        *)

Buffers == [data : Nat, samples : Nat]

Commands == [kind : AllKinds, then : AllKinds \cup {"none"}, stage : 2..5,
             snd : Buffers, free : Nat, alive : BOOLEAN, ended : BOOLEAN]

CommandSeqs == Seq(Commands)

Packets == [kind : AllKinds, then : AllKinds \cup {"none"}]

Messages == [op : {"do", "free"}, cmd : Nat]

MessageSeqs == Seq(Messages)

\* How far a command is says where it can be.
FromPlaced(cs, from) ==
  \A i \in 1..Len(from) :
    /\ from[i].op = "do" /\ from[i].cmd \in 1..Len(cs)
    /\ cs[from[i].cmd].stage \in {2, 4}

ToPlaced(cs, to) ==
  \A i \in 1..Len(to) :
    /\ to[i].cmd \in 1..Len(cs)
    /\ to[i].op = "do" => cs[to[i].cmd].stage = 3 /\ ~cs[to[i].cmd].ended
    /\ to[i].op = "free" => cs[to[i].cmd].ended

\* It is in one place, and the commands for one stage are in the order in
\* which they were created.
FromInOrder(cs, from) ==
  \A i, j \in 1..Len(from) :
    i < j => /\ from[i].cmd # from[j].cmd
             /\ cs[from[i].cmd].stage = cs[from[j].cmd].stage => from[i].cmd < from[j].cmd

ToInOrder(to) ==
  \A i, j \in 1..Len(to) :
    i < j => /\ to[i].cmd # to[j].cmd
             /\ to[i].op = "do" /\ to[j].op = "do" => to[i].cmd < to[j].cmd

\* No command has passed a stage that an earlier one is still on its way to.
FromNotOvertaken(cs, from) ==
  \A d \in 1..Len(cs), i \in 1..Len(from) :
    cs[d].stage > cs[from[i].cmd].stage => d < from[i].cmd

ToNotOvertaken(cs, to) ==
  \A d \in 1..Len(cs), i \in 1..Len(to) :
    to[i].op = "do" /\ cs[d].stage > 3 => d < to[i].cmd

FromSound(cs, from) ==
  FromPlaced(cs, from) /\ FromInOrder(cs, from) /\ FromNotOvertaken(cs, from)

ToSound(cs, to) == ToPlaced(cs, to) /\ ToInOrder(to) /\ ToNotOvertaken(cs, to)

\* How a command ends: the end of a /sync is its fourth stage.
Ends(cs) ==
  \A c \in 1..Len(cs) :
    /\ cs[c].ended => cs[c].stage \in {3, 5}
    /\ cs[c].stage = 5 => cs[c].ended
    /\ ~cs[c].alive => cs[c].ended
    /\ cs[c].kind = "sync" /\ cs[c].ended => cs[c].stage = 5

Pipeline(cs, to, from) ==
  /\ cs \in CommandSeqs /\ to \in MessageSeqs /\ from \in MessageSeqs
  /\ FromSound(cs, from) /\ ToSound(cs, to) /\ Ends(cs)

\* The commands on their way to their third stage, and those that fromEngine
\* carries to their second or fourth.
ToThird(to) == {to[i].cmd : i \in {j \in 1..Len(to) : to[j].op = "do"}}

Carried(from) == {from[i].cmd : i \in 1..Len(from)}

Ids == 1..Len(cmds)

Second == {c \in Carried(fromEngine) : cmds[c].stage = 2}

Third == ToThird(toEngine)

Fourth == {c \in Carried(fromEngine) : cmds[c].stage = 4}

Types ==
  /\ sent \in Nat /\ unfreed \in Nat /\ blocks \in Nat
  /\ osc \in Seq(Packets)
  /\ rtBuf \in Buffers /\ nrtBuf \in Buffers
  /\ memory \subseteq 1..blocks

IndInv == Types /\ Pipeline(cmds, toEngine, fromEngine)

-----------------------------------------------------------------------------
(* What a command frees is not in use.                                     *)

Installing == {"alloc", "allocRead", "gen", "free"}

\* The command has this data to free.
Frees(c, data) == cmds[c].free # Null /\ cmds[c].free = data

\* Not what a table refers to, or a later command brings.
Apart ==
  /\ \A b \in Third :
       /\ ~Frees(b, nrtBuf.data)
       /\ \A c \in Third : b <= c => ~Frees(b, cmds[c].snd.data)
  /\ \A b \in Fourth :
       /\ ~Frees(b, nrtBuf.data) /\ ~Frees(b, rtBuf.data)
       /\ \A c \in Third : ~Frees(b, cmds[c].snd.data)

Allocated(data) == data \in memory \cup {Null}

\* The data of the tables, and what the callback will be told of, is allocated.
Held ==
  /\ Allocated(rtBuf.data) /\ Allocated(nrtBuf.data)
  /\ \A c \in Third : Allocated(cmds[c].snd.data)
  /\ \A c \in Third : cmds[c].kind \notin Installing => cmds[c].free = Null
  /\ \A c \in Ids : cmds[c].free <= blocks
  /\ ~MemoryFails /\ nrtBuf.samples > 0 => nrtBuf.data # Null

DataInv == Apart /\ Held

-----------------------------------------------------------------------------
(* Nothing is lost while the fifos have room: for a command, and for the   *)
(* completion message it performs.                                         *)

NotFull == Len(toEngine) < FifoSize /\ Len(fromEngine) + unfreed + 1 < FifoSize

OnTheWay ==
  \A c \in Ids :
    /\ cmds[c].stage \in {2, 4} => c \in Carried(fromEngine)
    /\ cmds[c].stage = 3 /\ ~cmds[c].ended => c \in Third

\* The commands that will change the callback's table, and what they bring.
Installers == {c \in Third : cmds[c].kind \in Installing}

\* The last of them brings it up to date.
Mirrored ==
  /\ \A c \in Installers : (\A d \in Installers : d <= c) => cmds[c].snd = nrtBuf
  /\ Installers = {} => rtBuf = nrtBuf
  /\ \A c \in Third : cmds[c].kind = "free" => cmds[c].snd = SndBuf(Null, 0)

\* The commands that have something to free yet.
Owing == Third \cup Fourth

\* What is allocated is in use or will be freed, by one command.
Accounted ==
  /\ \A x \in memory : x = nrtBuf.data \/ \E c \in Owing : cmds[c].free = x
  /\ \A c \in Owing : Allocated(cmds[c].free)
  /\ \A b, c \in Owing : b # c => ~Frees(b, cmds[c].free)

-----------------------------------------------------------------------------
(* The fifos and the commands.                                             *)

\* Taking the first message of a fifo.
LEMMA TailIs ==
  ASSUME NEW q \in MessageSeqs, q # << >>
  PROVE  /\ Tail(q) \in MessageSeqs /\ Len(Tail(q)) = Len(q) - 1 /\ Len(q) \in Nat \ {0}
         /\ \A i \in 1..(Len(q) - 1) : Tail(q)[i] = q[i + 1]
         /\ Head(q) = q[1]
  BY DEF MessageSeqs

\* Adding a message at the end.
LEMMA AppendIs ==
  ASSUME NEW q \in MessageSeqs, NEW m \in Messages
  PROVE  /\ Append(q, m) \in MessageSeqs /\ Len(Append(q, m)) = Len(q) + 1 /\ Len(q) \in Nat
         /\ \A i \in 1..Len(q) : Append(q, m)[i] = q[i]
         /\ Append(q, m)[Len(q) + 1] = m
  BY DEF MessageSeqs

\* A write adds a message, unless the fifo is full.
LEMMA WriteIs ==
  ASSUME NEW q \in MessageSeqs, NEW used \in Nat, NEW m \in Messages
  PROVE  /\ Write(q, used, m) \in MessageSeqs
         /\ Write(q, used, m) = q \/ Write(q, used, m) = Append(q, m)
         /\ Len(q) + used < FifoSize => Write(q, used, m) = Append(q, m)
  BY AppendIs DEF Write

\* What the types say of the fields.
LEMMA FieldTypes ==
  ASSUME NEW cs \in CommandSeqs, NEW q \in MessageSeqs
  PROVE  /\ Len(cs) \in Nat /\ Len(q) \in Nat
         /\ \A d \in 1..Len(cs) : cs[d].stage \in 2..5
         /\ \A i \in 1..Len(q) : q[i].cmd \in Nat /\ q[i].op \in {"do", "free"}
<1>1. \A d \in 1..Len(cs) : cs[d] \in Commands
  BY DEF CommandSeqs
<1>2. \A i \in 1..Len(q) : q[i] \in Messages
  BY DEF MessageSeqs
<1>3. Len(cs) \in Nat /\ Len(q) \in Nat
  BY DEF CommandSeqs, MessageSeqs
<1> QED
  BY <1>1, <1>2, <1>3 DEF Commands, Messages

\* Commands that differ in one, which is at stage st now.
Becomes(cs, ds, c, st) ==
  /\ ds \in CommandSeqs /\ Len(ds) = Len(cs)
  /\ \A d \in 1..Len(cs) : d # c => ds[d] = cs[d]
  /\ ds[c].stage = st
  /\ ds[c].kind = cs[c].kind /\ ds[c].then = cs[c].then

\* The commands on their way to a stage, by their messages.
LEMMA ThirdIs ==
  ASSUME NEW to, NEW d
  PROVE  d \in ToThird(to) <=> \E i \in 1..Len(to) : to[i].op = "do" /\ to[i].cmd = d
  BY DEF ToThird

\* The commands that fromEngine carries.
LEMMA CarriedIs ==
  ASSUME NEW from, NEW d
  PROVE  d \in Carried(from) <=> \E i \in 1..Len(from) : from[i].cmd = d
  BY DEF Carried

\* The commands on their way are commands.
LEMMA OnTheirWay ==
  ASSUME NEW cs, NEW to, NEW from, Pipeline(cs, to, from)
  PROVE  /\ Len(cs) \in Nat /\ Len(to) \in Nat /\ Len(from) \in Nat
         /\ \A d \in 1..Len(cs) : cs[d].stage \in 2..5
         /\ \A i \in 1..Len(to) : to[i].cmd \in 1..Len(cs) /\ to[i].op \in {"do", "free"}
         /\ \A i \in 1..Len(from) : from[i].cmd \in 1..Len(cs) /\ from[i].op = "do"
  BY FieldTypes DEF Pipeline, FromSound, FromPlaced, ToSound, ToPlaced

\* A command taken out of toEngine is the first one in it.
LEMMA TakeTo ==
  ASSUME NEW cs, NEW to, NEW from, Pipeline(cs, to, from), to # << >>, NEW c, c = Head(to).cmd
  PROVE  /\ Tail(to) \in MessageSeqs
         /\ ToSound(cs, Tail(to))
         /\ c \in 1..Len(cs)
         /\ \A i \in 1..Len(Tail(to)) : Tail(to)[i].cmd # c
         /\ Head(to).op = "do" =>
              /\ cs[c].stage = 3 /\ ~cs[c].ended /\ c \in ToThird(to)
              /\ \A d \in ToThird(to) : c <= d
              /\ ToThird(Tail(to)) = ToThird(to) \ {c}
              /\ \A d \in 1..Len(cs) : cs[d].stage > 3 => d < c
              /\ \A i \in 1..Len(Tail(to)) : Tail(to)[i].op = "do" => c < Tail(to)[i].cmd
         /\ Head(to).op # "do" => cs[c].ended /\ ToThird(Tail(to)) = ToThird(to)
<1> DEFINE t == Tail(to)
<1>1. /\ t \in MessageSeqs /\ Len(t) = Len(to) - 1 /\ Len(to) \in Nat \ {0}
      /\ \A i \in 1..(Len(to) - 1) : t[i] = to[i + 1]
      /\ Head(to) = to[1] /\ to[1].cmd = c
  BY TailIs DEF Pipeline
<1>2. \A i \in 1..Len(to) : to[i].cmd \in 1..Len(cs) /\ to[i].op \in {"do", "free"}
  BY OnTheirWay
<1>3. ToPlaced(cs, to) /\ ToInOrder(to) /\ ToNotOvertaken(cs, to)
  BY DEF Pipeline, ToSound
<1>4. 1 \in 1..Len(to) /\ Len(cs) \in Nat
  BY <1>1, OnTheirWay
<1>5. c \in 1..Len(cs) /\ c \in Nat /\ to[1].op \in {"do", "free"}
  BY <1>1, <1>2, <1>4
<1> HIDE DEF t
<1>6. ASSUME NEW i \in 1..Len(t)
      PROVE  /\ i \in Nat /\ i + 1 \in 1..Len(to) /\ t[i] = to[i + 1] /\ i < i + 1 /\ 1 < i + 1
             /\ t[i].cmd \in 1..Len(cs) /\ t[i].cmd \in Nat /\ t[i].cmd # c
             /\ to[1].op = "do" /\ t[i].op = "do" => c < t[i].cmd
  <2>1. i \in Nat /\ i + 1 \in 1..Len(to) /\ t[i] = to[i + 1] /\ i < i + 1 /\ 1 < i + 1
    BY <1>1
  <2>2. t[i].cmd \in 1..Len(cs) /\ t[i].cmd \in Nat
    BY <1>2, <2>1
  <2>3. /\ to[1].cmd # to[i + 1].cmd
        /\ to[1].op = "do" /\ to[i + 1].op = "do" => to[1].cmd < to[i + 1].cmd
    BY <1>3, <1>4, <2>1 DEF ToInOrder
  <2> QED
    BY <1>1, <2>1, <2>2, <2>3
<1>7. ToPlaced(cs, t)
  BY <1>3, <1>6 DEF ToPlaced
<1>8. ToInOrder(t)
  <2> SUFFICES ASSUME NEW i \in 1..Len(t), NEW j \in 1..Len(t), i < j
               PROVE  /\ t[i].cmd # t[j].cmd
                      /\ t[i].op = "do" /\ t[j].op = "do" => t[i].cmd < t[j].cmd
    BY DEF ToInOrder
  <2>1. i + 1 \in 1..Len(to) /\ j + 1 \in 1..Len(to) /\ i + 1 < j + 1
    BY <1>6
  <2> QED
    BY <1>3, <1>6, <2>1 DEF ToInOrder
<1>9. ToNotOvertaken(cs, t)
  BY <1>3, <1>6 DEF ToNotOvertaken
<1>10. ASSUME to[1].op = "do"
       PROVE  /\ cs[c].stage = 3 /\ ~cs[c].ended /\ c \in ToThird(to)
              /\ \A d \in ToThird(to) : c <= d
              /\ ToThird(t) = ToThird(to) \ {c}
              /\ \A d \in 1..Len(cs) : cs[d].stage > 3 => d < c
  <2>1. cs[c].stage = 3 /\ ~cs[c].ended
    BY <1>1, <1>3, <1>4, <1>10 DEF ToPlaced
  <2>2. \A d \in 1..Len(cs) : cs[d].stage > 3 => d < c
    BY <1>1, <1>3, <1>4, <1>10 DEF ToNotOvertaken
  <2>3. c \in ToThird(to)
    BY <1>1, <1>4, <1>10, ThirdIs
  <2>4. ASSUME NEW d \in ToThird(to), d # c
        PROVE  c <= d /\ d \in ToThird(t)
    <3>1. PICK k \in 1..Len(to) : to[k].op = "do" /\ to[k].cmd = d
      BY ThirdIs
    <3>2. k - 1 \in 1..Len(t) /\ (k - 1) + 1 = k
      BY <1>1, <2>4, <3>1
    <3>3. t[k - 1].op = "do" /\ t[k - 1].cmd = d /\ c < d /\ d \in Nat
      BY <1>6, <1>10, <3>1, <3>2
    <3>4. d \in ToThird(t)
      BY <3>2, <3>3, ThirdIs
    <3> QED
      BY <1>5, <3>3, <3>4
  <2>5. ASSUME NEW d \in ToThird(t)
        PROVE  d # c /\ d \in ToThird(to)
    <3>1. PICK k \in 1..Len(t) : t[k].op = "do" /\ t[k].cmd = d
      BY ThirdIs
    <3>2. k + 1 \in 1..Len(to) /\ to[k + 1].op = "do" /\ to[k + 1].cmd = d /\ d # c
      BY <1>6, <3>1
    <3> QED
      BY <3>2, ThirdIs
  <2>6. ToThird(t) = ToThird(to) \ {c}
    BY <2>4, <2>5
  <2>7. \A d \in ToThird(to) : c <= d
    BY <1>5, <2>4
  <2> QED
    BY <2>1, <2>2, <2>3, <2>6, <2>7
<1>11. ASSUME to[1].op # "do"
       PROVE  cs[c].ended /\ ToThird(t) = ToThird(to)
  <2>1. cs[c].ended
    BY <1>1, <1>3, <1>4, <1>5, <1>11 DEF ToPlaced
  <2>2. ASSUME NEW d \in ToThird(to)
        PROVE  d \in ToThird(t)
    <3>1. PICK k \in 1..Len(to) : to[k].op = "do" /\ to[k].cmd = d
      BY ThirdIs
    <3>2. k - 1 \in 1..Len(t) /\ (k - 1) + 1 = k
      BY <1>1, <1>11, <3>1
    <3>3. t[k - 1].op = "do" /\ t[k - 1].cmd = d
      BY <1>6, <3>1, <3>2
    <3> QED
      BY <3>2, <3>3, ThirdIs
  <2>3. ASSUME NEW d \in ToThird(t)
        PROVE  d \in ToThird(to)
    <3>1. PICK k \in 1..Len(t) : t[k].op = "do" /\ t[k].cmd = d
      BY ThirdIs
    <3>2. k + 1 \in 1..Len(to) /\ to[k + 1].op = "do" /\ to[k + 1].cmd = d /\ d # c
      BY <1>6, <3>1
    <3> QED
      BY <3>2, ThirdIs
  <2> QED
    BY <2>1, <2>2, <2>3
<1> QED
  BY <1>1, <1>5, <1>6, <1>7, <1>8, <1>9, <1>10, <1>11 DEF ToSound, t

\* A command taken out of fromEngine is the first one in it.
LEMMA TakeFrom ==
  ASSUME NEW cs, NEW to, NEW from, Pipeline(cs, to, from), from # << >>, NEW c, c = Head(from).cmd
  PROVE  /\ Tail(from) \in MessageSeqs
         /\ FromSound(cs, Tail(from))
         /\ c \in 1..Len(cs) /\ cs[c].stage \in {2, 4}
         /\ \A i \in 1..Len(Tail(from)) : Tail(from)[i].cmd # c
         /\ \A i \in 1..Len(Tail(from)) :
              cs[Tail(from)[i].cmd].stage <= cs[c].stage => c < Tail(from)[i].cmd
         /\ \A d \in 1..Len(cs) : cs[d].stage > cs[c].stage => d < c
         /\ c \in Carried(from)
         /\ Carried(Tail(from)) = Carried(from) \ {c}
<1> DEFINE f == Tail(from)
<1>1. /\ f \in MessageSeqs /\ Len(f) = Len(from) - 1 /\ Len(from) \in Nat \ {0}
      /\ \A i \in 1..(Len(from) - 1) : f[i] = from[i + 1]
      /\ Head(from) = from[1] /\ from[1].cmd = c
  BY TailIs DEF Pipeline
<1>2. \A i \in 1..Len(from) : from[i].cmd \in 1..Len(cs) /\ from[i].op = "do"
  BY OnTheirWay
<1>3. FromPlaced(cs, from) /\ FromInOrder(cs, from) /\ FromNotOvertaken(cs, from)
  BY DEF Pipeline, FromSound
<1>4. 1 \in 1..Len(from) /\ Len(cs) \in Nat
  BY <1>1, OnTheirWay
<1>5. c \in 1..Len(cs) /\ c \in Nat
  BY <1>1, <1>2, <1>4
<1>6. cs[c].stage \in {2, 4}
  BY <1>1, <1>3, <1>4 DEF FromPlaced
<1>7. \A d \in 1..Len(cs) : cs[d].stage > cs[c].stage => d < c
  BY <1>1, <1>3, <1>4 DEF FromNotOvertaken
<1> HIDE DEF f
<1>8. ASSUME NEW i \in 1..Len(f)
      PROVE  /\ i \in Nat /\ i + 1 \in 1..Len(from) /\ f[i] = from[i + 1]
             /\ f[i].cmd \in 1..Len(cs) /\ f[i].cmd \in Nat /\ f[i].cmd # c
             /\ cs[f[i].cmd].stage \in {2, 4}
             /\ cs[f[i].cmd].stage <= cs[c].stage => c < f[i].cmd
  <2>1. i \in Nat /\ i + 1 \in 1..Len(from) /\ f[i] = from[i + 1] /\ 1 < i + 1
    BY <1>1
  <2>2. f[i].cmd \in 1..Len(cs) /\ f[i].cmd \in Nat
    BY <1>2, <2>1
  <2>3. /\ from[1].cmd # from[i + 1].cmd
        /\ cs[from[1].cmd].stage = cs[from[i + 1].cmd].stage => from[1].cmd < from[i + 1].cmd
    BY <1>3, <1>4, <2>1 DEF FromInOrder
  <2>4. cs[from[i + 1].cmd].stage \in {2, 4}
    BY <1>3, <2>1 DEF FromPlaced
  <2>5. cs[c].stage > cs[from[i + 1].cmd].stage => c < from[i + 1].cmd
    BY <1>3, <1>5, <2>1 DEF FromNotOvertaken
  <2> QED
    BY <1>1, <1>6, <2>1, <2>2, <2>3, <2>4, <2>5
<1>9. FromPlaced(cs, f)
  BY <1>2, <1>8 DEF FromPlaced
<1>10. FromInOrder(cs, f)
  <2> SUFFICES ASSUME NEW i \in 1..Len(f), NEW j \in 1..Len(f), i < j
               PROVE  /\ f[i].cmd # f[j].cmd
                      /\ cs[f[i].cmd].stage = cs[f[j].cmd].stage => f[i].cmd < f[j].cmd
    BY DEF FromInOrder
  <2>1. i + 1 \in 1..Len(from) /\ j + 1 \in 1..Len(from) /\ i + 1 < j + 1
    BY <1>8
  <2>2. /\ from[i + 1].cmd # from[j + 1].cmd
        /\ cs[from[i + 1].cmd].stage = cs[from[j + 1].cmd].stage => from[i + 1].cmd < from[j + 1].cmd
    BY <1>3, <2>1 DEF FromInOrder
  <2>3. f[i] = from[i + 1] /\ f[j] = from[j + 1]
    BY <1>8
  <2> QED
    BY <2>2, <2>3
<1>11. FromNotOvertaken(cs, f)
  BY <1>3, <1>8 DEF FromNotOvertaken
<1>12. c \in Carried(from)
  BY <1>1, <1>4, CarriedIs
<1>13. Carried(f) = Carried(from) \ {c}
  <2>1. ASSUME NEW d \in Carried(from), d # c
        PROVE  d \in Carried(f)
    <3>1. PICK i \in 1..Len(from) : from[i].cmd = d
      BY CarriedIs
    <3>2. i - 1 \in 1..Len(f) /\ (i - 1) + 1 = i
      BY <1>1, <2>1, <3>1
    <3>3. f[i - 1] = from[i]
      BY <1>8, <3>2
    <3> QED
      BY <3>1, <3>2, <3>3, CarriedIs
  <2>2. ASSUME NEW d \in Carried(f)
        PROVE  d # c /\ d \in Carried(from)
    <3>1. PICK i \in 1..Len(f) : f[i].cmd = d
      BY CarriedIs
    <3>2. i + 1 \in 1..Len(from) /\ from[i + 1] = f[i] /\ d # c
      BY <1>8, <3>1
    <3> QED
      BY <3>1, <3>2, CarriedIs
  <2> QED
    BY <2>1, <2>2
<1> QED
  BY <1>1, <1>5, <1>6, <1>7, <1>8, <1>9, <1>10, <1>11, <1>12, <1>13 DEF FromSound, f

\* A command that is not in toEngine goes on to a later stage.
LEMMA UpdateTo ==
  ASSUME NEW cs \in CommandSeqs, NEW ds, NEW to \in MessageSeqs, NEW c \in 1..Len(cs), NEW st \in 2..5,
         ToSound(cs, to), Becomes(cs, ds, c, st),
         \A i \in 1..Len(to) : to[i].cmd # c,
         st > 3 => \A i \in 1..Len(to) : to[i].op = "do" => c < to[i].cmd
  PROVE  ToSound(ds, to)
<1>1. Len(ds) = Len(cs) /\ \A d \in 1..Len(cs) : d # c => ds[d] = cs[d]
  BY DEF Becomes
<1>2. ds[c].stage = st
  BY DEF Becomes
<1>3. ToPlaced(ds, to)
  BY <1>1 DEF ToSound, ToPlaced
<1>4. ToNotOvertaken(ds, to)
  <2> SUFFICES ASSUME NEW d \in 1..Len(cs), NEW i \in 1..Len(to), to[i].op = "do", ds[d].stage > 3
               PROVE  d < to[i].cmd
    BY <1>1 DEF ToNotOvertaken
  <2>1. CASE d = c
    BY <1>2, <2>1
  <2>2. CASE d # c
    BY <1>1, <2>2 DEF ToSound, ToNotOvertaken
  <2> QED
    BY <2>1, <2>2
<1> QED
  BY <1>3, <1>4 DEF ToSound

\* The same with fromEngine.
LEMMA UpdateFrom ==
  ASSUME NEW cs \in CommandSeqs, NEW ds, NEW from \in MessageSeqs, NEW c \in 1..Len(cs), NEW st \in 2..5,
         FromSound(cs, from), Becomes(cs, ds, c, st),
         \A i \in 1..Len(from) : from[i].cmd # c,
         \A i \in 1..Len(from) : st > cs[from[i].cmd].stage => c < from[i].cmd
  PROVE  FromSound(ds, from)
<1>1. Len(ds) = Len(cs) /\ \A d \in 1..Len(cs) : d # c => ds[d] = cs[d]
  BY DEF Becomes
<1>2. ds[c].stage = st
  BY DEF Becomes
<1>3. \A i \in 1..Len(from) : /\ from[i].cmd \in 1..Len(cs) /\ from[i].op = "do"
                              /\ cs[from[i].cmd].stage \in {2, 4}
  BY DEF FromSound, FromPlaced
<1>4. \A i \in 1..Len(from) : ds[from[i].cmd] = cs[from[i].cmd]
  BY <1>1, <1>3
<1>5. FromPlaced(ds, from)
  BY <1>1, <1>3, <1>4 DEF FromPlaced
<1>6. FromInOrder(ds, from)
  BY <1>4 DEF FromSound, FromInOrder
<1>7. FromNotOvertaken(ds, from)
  <2> SUFFICES ASSUME NEW d \in 1..Len(cs), NEW i \in 1..Len(from),
                      ds[d].stage > ds[from[i].cmd].stage
               PROVE  d < from[i].cmd
    BY <1>1 DEF FromNotOvertaken
  <2>1. CASE d = c
    BY <1>2, <1>4, <2>1
  <2>2. CASE d # c
    BY <1>1, <1>4, <2>2 DEF FromSound, FromNotOvertaken
  <2> QED
    BY <2>1, <2>2
<1> QED
  BY <1>5, <1>6, <1>7 DEF FromSound

\* A new command is on its way to its second stage.
LEMMA CreateIs ==
  ASSUME NEW cs \in CommandSeqs, NEW new \in Commands
  PROVE  /\ Append(cs, new) \in CommandSeqs /\ Len(Append(cs, new)) = Len(cs) + 1 /\ Len(cs) \in Nat
         /\ \A d \in 1..Len(cs) : Append(cs, new)[d] = cs[d]
         /\ Append(cs, new)[Len(cs) + 1] = new
  BY DEF CommandSeqs

\* Creating a command keeps the fifos sound.
LEMMA CreateKeeps ==
  ASSUME NEW cs \in CommandSeqs, NEW ds \in CommandSeqs, NEW to \in MessageSeqs, NEW from \in MessageSeqs,
         ToSound(cs, to), FromSound(cs, from), Len(ds) = Len(cs) + 1,
         \A d \in 1..Len(cs) : ds[d] = cs[d],
         ds[Len(cs) + 1].stage = 2
  PROVE  /\ ToSound(ds, to) /\ FromSound(ds, from)
         /\ \A d \in Carried(from) : d \in 1..Len(cs)
<1>1. \A i \in 1..Len(from) : /\ from[i].cmd \in 1..Len(cs) /\ from[i].op = "do"
                              /\ cs[from[i].cmd].stage \in {2, 4}
  BY DEF FromSound, FromPlaced
<1>2. \A i \in 1..Len(from) : ds[from[i].cmd] = cs[from[i].cmd]
  BY <1>1
<1>3. Len(cs) \in Nat /\ \A d \in 1..Len(ds) : d \in 1..Len(cs) \/ d = Len(cs) + 1
  BY DEF CommandSeqs
<1>4. ToPlaced(ds, to)
  <2>1. \A i \in 1..Len(to) : to[i].cmd \in 1..Len(cs) /\ ds[to[i].cmd] = cs[to[i].cmd]
    BY DEF ToSound, ToPlaced
  <2> QED
    BY <1>3, <2>1 DEF ToSound, ToPlaced
<1>5. ToNotOvertaken(ds, to)
  BY <1>3 DEF ToSound, ToNotOvertaken
<1>6. FromPlaced(ds, from)
  BY <1>1, <1>2, <1>3 DEF FromPlaced
<1>7. FromInOrder(ds, from)
  BY <1>2 DEF FromSound, FromInOrder
<1>8. FromNotOvertaken(ds, from)
  BY <1>1, <1>2, <1>3 DEF FromSound, FromNotOvertaken
<1>9. \A d \in Carried(from) : d \in 1..Len(cs)
  BY <1>1, CarriedIs
<1> QED
  BY <1>1, <1>3, <1>4, <1>5, <1>6, <1>7, <1>8, <1>9 DEF FromSound, ToSound

\* A command is passed on to the non-realtime thread.
LEMMA PutFrom ==
  ASSUME NEW cs \in CommandSeqs, NEW from \in MessageSeqs, FromSound(cs, from),
         NEW c \in 1..Len(cs), cs[c].stage \in {2, 4},
         \A i \in 1..Len(from) : from[i].cmd # c,
         \A i \in 1..Len(from) : cs[from[i].cmd].stage = cs[c].stage => from[i].cmd < c,
         \A d \in 1..Len(cs) : cs[d].stage > cs[c].stage => d < c
  PROVE  /\ FromSound(cs, Append(from, Do(c)))
         /\ Carried(Append(from, Do(c))) = Carried(from) \cup {c}
<1> DEFINE f == Append(from, Do(c))
<1>1. Do(c) \in Messages /\ Do(c).op = "do" /\ Do(c).cmd = c /\ Len(cs) \in Nat
  BY DEF Do, Messages, CommandSeqs
<1>2. /\ Len(f) = Len(from) + 1 /\ Len(from) \in Nat
      /\ \A i \in 1..Len(from) : f[i] = from[i]
      /\ f[Len(from) + 1] = Do(c)
  BY <1>1, AppendIs
<1> HIDE DEF f
<1>3. \A i \in 1..Len(f) : (i \in 1..Len(from) /\ f[i] = from[i]) \/ (i = Len(from) + 1 /\ f[i] = Do(c))
  BY <1>2
<1>4. FromPlaced(cs, f)
  BY <1>1, <1>3 DEF FromSound, FromPlaced
<1>5. FromInOrder(cs, f)
  <2> SUFFICES ASSUME NEW i \in 1..Len(f), NEW j \in 1..Len(f), i < j
               PROVE  /\ f[i].cmd # f[j].cmd
                      /\ cs[f[i].cmd].stage = cs[f[j].cmd].stage => f[i].cmd < f[j].cmd
    BY DEF FromInOrder
  <2>1. i \in 1..Len(from) /\ f[i] = from[i]
    BY <1>2
  <2>2. CASE j \in 1..Len(from)
    BY <1>2, <2>1, <2>2 DEF FromSound, FromInOrder
  <2>3. CASE j = Len(from) + 1
    BY <1>1, <1>2, <2>1, <2>3
  <2> QED
    BY <1>2, <2>2, <2>3
<1>6. FromNotOvertaken(cs, f)
  <2> SUFFICES ASSUME NEW d \in 1..Len(cs), NEW i \in 1..Len(f),
                      cs[d].stage > cs[f[i].cmd].stage
               PROVE  d < f[i].cmd
    BY DEF FromNotOvertaken
  <2>1. CASE i \in 1..Len(from)
    BY <1>2, <2>1 DEF FromSound, FromNotOvertaken
  <2>2. CASE i = Len(from) + 1
    BY <1>1, <1>2, <2>2
  <2> QED
    BY <1>2, <2>1, <2>2
<1>7. Carried(f) = Carried(from) \cup {c}
  <2>1. ASSUME NEW d \in Carried(f)
        PROVE  d \in Carried(from) \/ d = c
    <3>1. PICK i \in 1..Len(f) : f[i].cmd = d
      BY CarriedIs
    <3> QED
      BY <1>1, <1>3, <3>1, CarriedIs
  <2>2. ASSUME NEW d \in Carried(from)
        PROVE  d \in Carried(f)
    <3>1. PICK i \in 1..Len(from) : from[i].cmd = d
      BY CarriedIs
    <3>2. i \in 1..Len(f) /\ f[i] = from[i]
      BY <1>2
    <3> QED
      BY <3>1, <3>2, CarriedIs
  <2>3. c \in Carried(f)
    <3>1. Len(from) + 1 \in 1..Len(f) /\ f[Len(from) + 1].cmd = c
      BY <1>1, <1>2
    <3> QED
      BY <3>1, CarriedIs
  <2> QED
    BY <2>1, <2>2, <2>3
<1> QED
  BY <1>4, <1>5, <1>6, <1>7 DEF FromSound, f

\* A command is passed on to the callback, or sent there to be deleted.
LEMMA PutTo ==
  ASSUME NEW cs \in CommandSeqs, NEW to \in MessageSeqs, ToSound(cs, to),
         NEW c \in 1..Len(cs), NEW m \in Messages, m.cmd = c,
         m.op = "do" => cs[c].stage = 3 /\ ~cs[c].ended,
         m.op = "free" => cs[c].ended,
         \A i \in 1..Len(to) : to[i].cmd # c,
         m.op = "do" => \A i \in 1..Len(to) : to[i].op = "do" => to[i].cmd < c,
         m.op = "do" => \A d \in 1..Len(cs) : cs[d].stage > 3 => d < c
  PROVE  /\ ToSound(cs, Append(to, m))
         /\ m.op = "do" => ToThird(Append(to, m)) = ToThird(to) \cup {c}
         /\ m.op = "free" => ToThird(Append(to, m)) = ToThird(to)
<1> DEFINE t == Append(to, m)
<1>2. /\ Len(t) = Len(to) + 1 /\ Len(to) \in Nat
      /\ \A i \in 1..Len(to) : t[i] = to[i]
      /\ t[Len(to) + 1] = m
  BY AppendIs
<1> HIDE DEF t
<1>3. \A i \in 1..Len(t) : (i \in 1..Len(to) /\ t[i] = to[i]) \/ (i = Len(to) + 1 /\ t[i] = m)
  BY <1>2
<1>4. ToPlaced(cs, t)
  BY <1>3 DEF ToSound, ToPlaced
<1>5. ToInOrder(t)
  <2> SUFFICES ASSUME NEW i \in 1..Len(t), NEW j \in 1..Len(t), i < j
               PROVE  /\ t[i].cmd # t[j].cmd
                      /\ t[i].op = "do" /\ t[j].op = "do" => t[i].cmd < t[j].cmd
    BY DEF ToInOrder
  <2>1. i \in 1..Len(to) /\ t[i] = to[i]
    BY <1>2
  <2>2. CASE j \in 1..Len(to)
    BY <1>2, <2>1, <2>2 DEF ToSound, ToInOrder
  <2>3. CASE j = Len(to) + 1
    BY <1>2, <2>1, <2>3
  <2> QED
    BY <1>2, <2>2, <2>3
<1>6. ToNotOvertaken(cs, t)
  <2> SUFFICES ASSUME NEW d \in 1..Len(cs), NEW i \in 1..Len(t), t[i].op = "do", cs[d].stage > 3
               PROVE  d < t[i].cmd
    BY DEF ToNotOvertaken
  <2>1. CASE i \in 1..Len(to)
    BY <1>2, <2>1 DEF ToSound, ToNotOvertaken
  <2>2. CASE i = Len(to) + 1
    BY <1>2, <2>2
  <2> QED
    BY <1>2, <2>1, <2>2
<1>7. ASSUME NEW d
      PROVE  d \in ToThird(t) <=> d \in ToThird(to) \/ (m.op = "do" /\ d = c)
  <2>1. ASSUME d \in ToThird(t)
        PROVE  d \in ToThird(to) \/ (m.op = "do" /\ d = c)
    <3>1. PICK i \in 1..Len(t) : t[i].op = "do" /\ t[i].cmd = d
      BY <2>1, ThirdIs
    <3> QED
      BY <1>3, <3>1, ThirdIs
  <2>2. ASSUME d \in ToThird(to)
        PROVE  d \in ToThird(t)
    <3>1. PICK i \in 1..Len(to) : to[i].op = "do" /\ to[i].cmd = d
      BY <2>2, ThirdIs
    <3>2. i \in 1..Len(t) /\ t[i] = to[i]
      BY <1>2
    <3> QED
      BY <3>1, <3>2, ThirdIs
  <2>3. ASSUME m.op = "do", d = c
        PROVE  d \in ToThird(t)
    <3>1. Len(to) + 1 \in 1..Len(t) /\ t[Len(to) + 1] = m
      BY <1>2
    <3> QED
      BY <2>3, <3>1, ThirdIs
  <2> QED
    BY <2>1, <2>2, <2>3
<1>8. /\ m.op = "do" => ToThird(t) = ToThird(to) \cup {c}
      /\ m.op = "free" => ToThird(t) = ToThird(to)
  BY <1>7
<1> QED
  BY <1>4, <1>5, <1>6, <1>8 DEF ToSound, t

\* A stage that passes a command on to the non-realtime thread: the message
\* is added, or lost when the fifo is full.
LEMMA PassFrom ==
  ASSUME NEW cs, NEW to, NEW from, Pipeline(cs, to, from), NEW used \in Nat,
         NEW c \in 1..Len(cs), cs[c].stage \in {2, 4}, c \notin Carried(from),
         \A d \in Carried(from) : cs[d].stage = cs[c].stage => d < c,
         \A d \in 1..Len(cs) : cs[d].stage > cs[c].stage => d < c,
         NEW g, g = Write(from, used, Do(c))
  PROVE  /\ Pipeline(cs, to, g) /\ Len(g) <= Len(from) + 1
         /\ Carried(from) \subseteq Carried(g) /\ Carried(g) \subseteq Carried(from) \cup {c}
         /\ Len(from) + used < FifoSize => c \in Carried(g)
<1>1. cs \in CommandSeqs /\ from \in MessageSeqs /\ FromSound(cs, from) /\ c \in Nat /\ Len(from) \in Nat
  BY OnTheirWay DEF Pipeline
<1>2. \A i \in 1..Len(from) : from[i].cmd # c
  BY CarriedIs
<1>3. \A i \in 1..Len(from) : cs[from[i].cmd].stage = cs[c].stage => from[i].cmd < c
  BY CarriedIs
<1>4. Do(c) \in Messages
  BY <1>1 DEF Do, Messages
<1>5. /\ g \in MessageSeqs
      /\ g = from \/ g = Append(from, Do(c))
      /\ Len(from) + used < FifoSize => g = Append(from, Do(c))
      /\ Len(Append(from, Do(c))) = Len(from) + 1
  BY <1>1, <1>4, WriteIs, AppendIs
<1>6. CASE g = Append(from, Do(c))
  <2>1. FromSound(cs, g) /\ Carried(g) = Carried(from) \cup {c}
    BY <1>1, <1>2, <1>3, <1>6, PutFrom
  <2>2. Pipeline(cs, to, g)
    BY <1>5, <2>1 DEF Pipeline
  <2>3. Len(g) <= Len(from) + 1
    BY <1>1, <1>5, <1>6
  <2> QED
    BY <2>1, <2>2, <2>3
<1>7. CASE g = from
  BY <1>1, <1>5, <1>6, <1>7
<1> QED
  BY <1>5, <1>6, <1>7

\* A stage that passes a command on to the callback.
LEMMA PassTo ==
  ASSUME NEW cs, NEW to, NEW from, Pipeline(cs, to, from),
         NEW c \in 1..Len(cs), NEW m \in Messages, m.cmd = c,
         m.op = "do" => cs[c].stage = 3 /\ ~cs[c].ended,
         m.op = "free" => cs[c].ended,
         \A i \in 1..Len(to) : to[i].cmd # c,
         m.op = "do" => \A d \in ToThird(to) : d < c,
         m.op = "do" => \A d \in 1..Len(cs) : cs[d].stage > 3 => d < c,
         NEW t, t = Write(to, 0, m)
  PROVE  /\ Pipeline(cs, t, from) /\ Len(t) <= Len(to) + 1
         /\ ToThird(to) \subseteq ToThird(t)
         /\ m.op = "do" => ToThird(t) \subseteq ToThird(to) \cup {c}
         /\ m.op = "free" => ToThird(t) = ToThird(to)
         /\ m.op = "do" /\ Len(to) < FifoSize => c \in ToThird(t)
<1>1. cs \in CommandSeqs /\ to \in MessageSeqs /\ ToSound(cs, to) /\ Len(to) \in Nat
  BY OnTheirWay DEF Pipeline
<1>2. m.op = "do" => \A i \in 1..Len(to) : to[i].op = "do" => to[i].cmd < c
  BY ThirdIs
<1> DEFINE room == Len(to) + 0 < FifoSize
<1>7. room <=> Len(to) < FifoSize
  BY <1>1
<1> HIDE DEF room
<1>3. /\ t \in MessageSeqs
      /\ t = to \/ t = Append(to, m)
      /\ Len(to) < FifoSize => t = Append(to, m)
      /\ Len(Append(to, m)) = Len(to) + 1
  <2>1. /\ t \in MessageSeqs
        /\ t = to \/ t = Append(to, m)
        /\ room => t = Append(to, m)
    BY <1>1, WriteIs DEF room
  <2> QED
    BY <1>1, <1>7, <2>1, AppendIs
<1>4. m.op \in {"do", "free"}
  BY DEF Messages
<1>5. CASE t = Append(to, m)
  <2>1. /\ ToSound(cs, t)
        /\ m.op = "do" => ToThird(t) = ToThird(to) \cup {c}
        /\ m.op = "free" => ToThird(t) = ToThird(to)
    <3>1. /\ m.op = "do" => cs[c].stage = 3 /\ ~cs[c].ended
          /\ m.op = "free" => cs[c].ended
          /\ \A i \in 1..Len(to) : to[i].cmd # c
      OBVIOUS
    <3>2. m.op = "do" => \A d \in 1..Len(cs) : cs[d].stage > 3 => d < c
      OBVIOUS
    <3>3. /\ ToSound(cs, Append(to, m))
          /\ m.op = "do" => ToThird(Append(to, m)) = ToThird(to) \cup {c}
          /\ m.op = "free" => ToThird(Append(to, m)) = ToThird(to)
      BY ONLY <1>1, <1>2, <3>1, <3>2, c \in 1..Len(cs), m \in Messages, m.cmd = c, PutTo
    <3> QED
      BY ONLY <1>5, <3>3
  <2>2. Pipeline(cs, t, from)
    BY <1>3, <2>1 DEF Pipeline
  <2>3. Len(t) <= Len(to) + 1
    BY <1>1, <1>3, <1>5
  <2> QED
    BY <1>4, <2>1, <2>2, <2>3
<1>6. CASE t = to
  BY <1>1, <1>3, <1>5, <1>6
<1> QED
  BY <1>3, <1>5, <1>6

\* A new command is passed on by its first stage.
Created(cs, new) == Append(cs, new)

\* The commands after one more was created.
LEMMA CreatedIs ==
  ASSUME NEW cs, NEW to, NEW from, Pipeline(cs, to, from), NEW new \in Commands
  PROVE  /\ Len(Created(cs, new)) = Len(cs) + 1 /\ Created(cs, new)[Len(cs) + 1] = new
         /\ \A d \in 1..Len(cs) : Created(cs, new)[d] = cs[d]
<1>1. cs \in CommandSeqs
  BY DEF Pipeline
<1> QED
  BY <1>1, CreateIs DEF Created

\* A new command is passed on behind the others.
LEMMA CreatePass ==
  ASSUME NEW cs, NEW to, NEW from, Pipeline(cs, to, from), NEW used \in Nat,
         NEW new \in Commands, new.stage = 2, ~new.ended, new.alive,
         NEW ds, ds = Created(cs, new), NEW g, g = Write(from, used, Do(Len(cs) + 1))
  PROVE  /\ Pipeline(ds, to, g) /\ Len(g) <= Len(from) + 1
         /\ Carried(from) \subseteq Carried(g) /\ Carried(g) \subseteq Carried(from) \cup {Len(cs) + 1}
         /\ Len(from) + used < FifoSize => Len(cs) + 1 \in Carried(g)
<1> DEFINE N == Len(cs) + 1
<1>1. cs \in CommandSeqs /\ from \in MessageSeqs /\ to \in MessageSeqs
  BY DEF Pipeline
<1>2. /\ ds \in CommandSeqs /\ Len(ds) = Len(cs) + 1 /\ Len(cs) \in Nat
      /\ \A d \in 1..Len(cs) : ds[d] = cs[d]
      /\ ds[Len(cs) + 1] = new
  BY <1>1, CreateIs DEF Created
<1>3. ToSound(ds, to) /\ FromSound(ds, from) /\ \A d \in Carried(from) : d \in 1..Len(cs)
  <2>1. ToSound(cs, to) /\ FromSound(cs, from) /\ ds[Len(cs) + 1].stage = 2 /\ Len(ds) = Len(cs) + 1
    BY <1>2 DEF Pipeline
  <2> QED
    BY ONLY <1>1, <1>2, <2>1, CreateKeeps
<1>4. Ends(ds)
  <2>1. Ends(cs)
    BY DEF Pipeline
  <2> QED
    BY <1>2, <2>1 DEF Ends
<1>5. Pipeline(ds, to, from)
  BY <1>1, <1>2, <1>3, <1>4 DEF Pipeline
<1>6. N \in 1..Len(ds) /\ N \in Nat
  BY <1>2
<1>7. N \notin Carried(from) /\ \A d \in Carried(from) : d < N
  BY <1>2, <1>3
<1>8. \A d \in 1..Len(ds) : ds[d].stage > 2 => d < N
  BY <1>2
<1> HIDE DEF N
<1>9. ds[N].stage = 2 /\ g = Write(from, used, Do(N))
  BY <1>2 DEF N
<1>10. /\ Pipeline(ds, to, g) /\ Len(g) <= Len(from) + 1
       /\ Carried(from) \subseteq Carried(g) /\ Carried(g) \subseteq Carried(from) \cup {N}
       /\ Len(from) + used < FifoSize => N \in Carried(g)
  <2>1. ds[N].stage \in {2, 4} /\ used \in Nat
    BY <1>9
  <2>2. \A d \in Carried(from) : ds[d].stage = ds[N].stage => d < N
    BY <1>7
  <2>3. \A d \in 1..Len(ds) : ds[d].stage > ds[N].stage => d < N
    BY <1>8, <1>9
  <2>4. Pipeline(ds, to, g)
    BY ONLY <1>5, <1>6, <1>7, <1>9, <2>1, <2>2, <2>3, PassFrom
  <2>5. Len(g) <= Len(from) + 1
    BY ONLY <1>5, <1>6, <1>7, <1>9, <2>1, <2>2, <2>3, PassFrom
  <2>6. Carried(from) \subseteq Carried(g)
    BY ONLY <1>5, <1>6, <1>7, <1>9, <2>1, <2>2, <2>3, PassFrom
  <2>7. Carried(g) \subseteq Carried(from) \cup {N}
    BY ONLY <1>5, <1>6, <1>7, <1>9, <2>1, <2>2, <2>3, PassFrom
  <2>8. Len(from) + used < FifoSize => N \in Carried(g)
    BY ONLY <1>5, <1>6, <1>7, <1>9, <2>1, <2>2, <2>3, PassFrom
  <2> QED
    BY <2>4, <2>5, <2>6, <2>7, <2>8
<1> QED
  BY <1>10 DEF N

\* A command that is the last at its fourth stage is passed on.
LEMMA PassLast ==
  ASSUME NEW cs, NEW to, NEW from, Pipeline(cs, to, from), NEW used \in Nat,
         NEW c \in 1..Len(cs), cs[c].stage = 4, c \notin Carried(from),
         \A d \in 1..Len(cs) : d # c /\ cs[d].stage > 3 => d < c,
         NEW g, g = Write(from, used, Do(c))
  PROVE  /\ Pipeline(cs, to, g) /\ Len(g) <= Len(from) + 1
         /\ Carried(from) \subseteq Carried(g) /\ Carried(g) \subseteq Carried(from) \cup {c}
         /\ Len(from) + used < FifoSize => c \in Carried(g)
<1>1. \A d \in Carried(from) : d \in 1..Len(cs)
  <2>1. \A i \in 1..Len(from) : from[i].cmd \in 1..Len(cs)
    BY OnTheirWay
  <2> QED
    BY <2>1, CarriedIs
<1>2. \A d \in Carried(from) : cs[d].stage = cs[c].stage => d < c
  <2> SUFFICES ASSUME NEW d \in Carried(from), cs[d].stage = 4
               PROVE  d < c
    OBVIOUS
  <2>1. d # c /\ d \in 1..Len(cs) /\ cs[d].stage > 3
    BY <1>1
  <2> QED
    BY <2>1
<1>3. \A d \in 1..Len(cs) : cs[d].stage > cs[c].stage => d < c
  <2> SUFFICES ASSUME NEW d \in 1..Len(cs), cs[d].stage > 4
               PROVE  d < c
    OBVIOUS
  <2>1. cs[d].stage \in 2..5
    BY OnTheirWay
  <2>2. d # c /\ cs[d].stage > 3
    BY <2>1
  <2> QED
    BY <2>2
<1>4. /\ Pipeline(cs, to, from) /\ used \in Nat /\ c \in 1..Len(cs) /\ cs[c].stage \in {2, 4}
      /\ c \notin Carried(from) /\ g = Write(from, used, Do(c))
  OBVIOUS
<1>5. Pipeline(cs, to, g)
  BY ONLY <1>2, <1>3, <1>4, PassFrom
<1>6. Len(g) <= Len(from) + 1
  BY ONLY <1>2, <1>3, <1>4, PassFrom
<1>7. Carried(from) \subseteq Carried(g)
  BY ONLY <1>2, <1>3, <1>4, PassFrom
<1>8. Carried(g) \subseteq Carried(from) \cup {c}
  BY ONLY <1>2, <1>3, <1>4, PassFrom
<1>9. Len(from) + used < FifoSize => c \in Carried(g)
  BY ONLY <1>2, <1>3, <1>4, PassFrom
<1> QED
  BY <1>5, <1>6, <1>7, <1>8, <1>9

\* Before that its completion message creates a command.
LEMMA PassBehind ==
  ASSUME NEW cs, NEW to, NEW from, Pipeline(cs, to, from), NEW used \in Nat,
         NEW c \in 1..Len(cs), cs[c].stage = 4, c \notin Carried(from),
         \A d \in 1..Len(cs) : d # c /\ cs[d].stage > 3 => d < c,
         NEW new \in Commands, new.stage = 2, ~new.ended, new.alive,
         NEW ds, ds = Created(cs, new),
         NEW mid, mid = Write(from, used, Do(Len(cs) + 1)),
         NEW g, g = Write(mid, used, Do(c))
  PROVE  /\ Pipeline(ds, to, g) /\ Len(g) <= Len(from) + 2
         /\ Carried(from) \subseteq Carried(g) /\ Carried(g) \subseteq Carried(from) \cup {c, Len(cs) + 1}
         /\ Len(from) + used + 1 < FifoSize => c \in Carried(g) /\ Len(cs) + 1 \in Carried(g)
<1>1. /\ Pipeline(cs, to, from) /\ used \in Nat
      /\ new \in Commands /\ new.stage = 2 /\ ~new.ended /\ new.alive
      /\ ds = Created(cs, new) /\ mid = Write(from, used, Do(Len(cs) + 1))
  OBVIOUS
<1>2. Len(cs) \in Nat /\ Len(from) \in Nat /\ c \in Nat /\ c \in 1..Len(cs)
  BY OnTheirWay
<1>3. Pipeline(ds, to, mid)
  BY ONLY <1>1, CreatePass
<1>4. Len(mid) <= Len(from) + 1
  BY ONLY <1>1, CreatePass
<1>5. /\ Len(ds) = Len(cs) + 1 /\ ds[Len(cs) + 1] = new
      /\ \A d \in 1..Len(cs) : ds[d] = cs[d]
  BY ONLY <1>1, CreatedIs
<1>6. Carried(from) \subseteq Carried(mid)
  BY ONLY <1>1, CreatePass
<1>7. Carried(mid) \subseteq Carried(from) \cup {Len(cs) + 1}
  BY ONLY <1>1, CreatePass
<1>8. Len(from) + used < FifoSize => Len(cs) + 1 \in Carried(mid)
  BY ONLY <1>1, CreatePass
<1>9. ds[c] = cs[c] /\ ds[c].stage = 4 /\ c \in 1..Len(ds)
  BY <1>2, <1>5
<1>10. c \notin Carried(mid)
  <2>1. c # Len(cs) + 1
    BY <1>2
  <2> QED
    BY <1>7, <2>1
<1>11. \A d \in 1..Len(ds) : d # c /\ ds[d].stage > 3 => d < c
  <2> SUFFICES ASSUME NEW d \in 1..Len(ds), d # c, ds[d].stage > 3
               PROVE  d < c
    OBVIOUS
  <2>1. d # Len(cs) + 1
    BY <1>5
  <2>2. d \in 1..Len(cs) /\ ds[d] = cs[d]
    BY <1>2, <1>5, <2>1
  <2> QED
    BY <2>2
<1>12. Len(mid) \in Nat /\ Len(ds) \in Nat
  BY <1>3, OnTheirWay
<1>13. used \in Nat /\ g = Write(mid, used, Do(c))
  OBVIOUS
<1>14. Pipeline(ds, to, g)
  BY ONLY <1>3, <1>9, <1>10, <1>11, <1>13, PassLast
<1>15. Len(g) <= Len(mid) + 1
  BY ONLY <1>3, <1>9, <1>10, <1>11, <1>13, PassLast
<1>16. Carried(mid) \subseteq Carried(g)
  BY ONLY <1>3, <1>9, <1>10, <1>11, <1>13, PassLast
<1>17. Carried(g) \subseteq Carried(mid) \cup {c}
  BY ONLY <1>3, <1>9, <1>10, <1>11, <1>13, PassLast
<1>18. Len(mid) + used < FifoSize => c \in Carried(g)
  BY ONLY <1>3, <1>9, <1>10, <1>11, <1>13, PassLast
<1>19. Len(g) \in Nat /\ Len(g) <= Len(from) + 2
  <2>1. Len(g) \in Nat
    BY <1>14, OnTheirWay
  <2> QED
    BY <1>2, <1>4, <1>12, <1>15, <2>1
<1>20. Carried(from) \subseteq Carried(g) /\ Carried(g) \subseteq Carried(from) \cup {c, Len(cs) + 1}
  BY <1>6, <1>7, <1>16, <1>17
<1>21. ASSUME Len(from) + used + 1 < FifoSize
       PROVE  c \in Carried(g) /\ Len(cs) + 1 \in Carried(g)
  <2>1. FifoSize \in Nat
    BY SequencedCommandsAssumption
  <2>2. Len(from) + used < FifoSize /\ Len(mid) + used < FifoSize
    BY <1>2, <1>4, <1>12, <1>21, <2>1
  <2> QED
    BY <1>8, <1>16, <1>18, <2>2
<1> QED
  BY <1>14, <1>19, <1>20, <1>21

\* A command runs a stage, or is deleted.
Changed(cs, c, v) == [cs EXCEPT ![c] = v]

\* A command that changes as it may at one of its stages.
LEMMA BecomesIs ==
  ASSUME NEW cs \in CommandSeqs, NEW c \in 1..Len(cs), NEW v \in Commands,
         v.kind = cs[c].kind, v.then = cs[c].then
  PROVE  Becomes(cs, Changed(cs, c, v), c, v.stage) /\ Changed(cs, c, v)[c] = v
<1> DEFINE ds == Changed(cs, c, v)
<1>1. ds \in CommandSeqs /\ Len(ds) = Len(cs) /\ ds[c] = v /\ \A d \in 1..Len(cs) : d # c => ds[d] = cs[d]
  BY DEF CommandSeqs, Changed
<1> HIDE DEF ds
<1>2. Becomes(cs, ds, c, v.stage) /\ ds[c] = v
  BY <1>1 DEF Becomes
<1> QED
  BY <1>2 DEF ds

-----------------------------------------------------------------------------
(* What the handlers do to the commands and the fifos.                     *)

\* The new command of CallSequencedCommand.
LEMMA NewIs ==
  ASSUME NEW p \in Packets
  PROVE  /\ NewCommand(p.kind, p.then) \in Commands
         /\ NewCommand(p.kind, p.then).stage = 2 /\ ~NewCommand(p.kind, p.then).ended
         /\ NewCommand(p.kind, p.then).alive /\ NewCommand(p.kind, p.then).free = Null
         /\ NewCommand(p.kind, p.then).kind = p.kind /\ NewCommand(p.kind, p.then).then = p.then
<1>1. p.kind \in AllKinds /\ p.then \in AllKinds \cup {"none"}
  BY DEF Packets
<1>2. SndBuf(Null, 0) \in Buffers
  BY DEF SndBuf, Buffers, Null
<1> QED
  BY <1>1, <1>2 DEF NewCommand, Commands, Null

\* The third stage, up to the completion message: the command is taken out of
\* toEngine and is at its fourth stage.
LEMMA ThirdStage ==
  ASSUME NEW cs, NEW to, NEW from, Pipeline(cs, to, from), to # << >>, Head(to).op = "do",
         NEW c, c = Head(to).cmd, NEW ds, ds = [cs EXCEPT ![c].stage = 4]
  PROVE  /\ Pipeline(ds, Tail(to), from)
         /\ c \in 1..Len(cs) /\ Len(ds) = Len(cs) /\ ds[c] = [cs[c] EXCEPT !.stage = 4]
         /\ \A d \in 1..Len(cs) : d # c => ds[d] = cs[d]
         /\ cs[c].stage = 3 /\ ~cs[c].ended /\ c \in ToThird(to)
         /\ \A d \in ToThird(to) : c <= d
         /\ ToThird(Tail(to)) = ToThird(to) \ {c}
         /\ c \notin Carried(from) /\ \A d \in Carried(from) : d \in 1..Len(cs)
         /\ \A d \in 1..Len(cs) : d # c /\ cs[d].stage > 3 => d < c
<1>1. cs \in CommandSeqs /\ to \in MessageSeqs /\ from \in MessageSeqs /\ FromSound(cs, from) /\ Ends(cs)
  BY DEF Pipeline
<1>2. /\ Tail(to) \in MessageSeqs
      /\ ToSound(cs, Tail(to))
      /\ c \in 1..Len(cs)
      /\ \A i \in 1..Len(Tail(to)) : Tail(to)[i].cmd # c
      /\ cs[c].stage = 3 /\ ~cs[c].ended /\ c \in ToThird(to)
      /\ \A d \in 1..Len(cs) : cs[d].stage > 3 => d < c
      /\ \A i \in 1..Len(Tail(to)) : Tail(to)[i].op = "do" => c < Tail(to)[i].cmd
  BY TakeTo
<1>3. (\A d \in ToThird(to) : c <= d) /\ ToThird(Tail(to)) = ToThird(to) \ {c}
  BY TakeTo
<1>4. /\ Len(cs) \in Nat
      /\ \A i \in 1..Len(from) : from[i].cmd \in 1..Len(cs) /\ cs[from[i].cmd].stage \in {2, 4}
  BY <1>1, OnTheirWay DEF FromSound, FromPlaced
<1>5. /\ c \notin Carried(from)
      /\ \A d \in Carried(from) : d \in 1..Len(cs)
      /\ \A i \in 1..Len(from) : from[i].cmd # c
  <2>1. \A i \in 1..Len(from) : from[i].cmd # c
    BY <1>2, <1>4
  <2>2. \A d \in Carried(from) : d \in 1..Len(cs)
    BY <1>4, CarriedIs
  <2>3. c \notin Carried(from)
    BY <2>1, CarriedIs
  <2> QED
    BY <2>1, <2>2, <2>3
<1>6. \A i \in 1..Len(from) : 4 > cs[from[i].cmd].stage => c < from[i].cmd
  BY <1>1, <1>2, <1>4 DEF FromSound, FromNotOvertaken
<1> DEFINE v == [cs[c] EXCEPT !.stage = 4]
<1>7. cs[c] \in Commands
  BY <1>1, <1>2 DEF CommandSeqs
<1>8. v \in Commands /\ v.kind = cs[c].kind /\ v.then = cs[c].then /\ v.stage = 4
      /\ v.ended = cs[c].ended /\ v.alive = cs[c].alive
  BY <1>7 DEF Commands
<1>9. ds = Changed(cs, c, v)
  BY DEF Changed
<1> HIDE DEF v
<1>10. Becomes(cs, ds, c, 4) /\ ds[c] = v
  <2>1. Becomes(cs, ds, c, v.stage) /\ ds[c] = v
    BY ONLY <1>1, <1>2, <1>8, <1>9, BecomesIs
  <2> QED
    BY <1>8, <2>1
<1>11. ToSound(ds, Tail(to))
  <2>1. 4 \in 2..5 /\ (4 > 3 => \A i \in 1..Len(Tail(to)) : Tail(to)[i].op = "do" => c < Tail(to)[i].cmd)
    BY <1>2
  <2> QED
    BY ONLY <1>1, <1>2, <1>10, <2>1, UpdateTo
<1>12. FromSound(ds, from)
  <2>1. 4 \in 2..5
    OBVIOUS
  <2> QED
    BY ONLY <1>1, <1>2, <1>5, <1>6, <1>10, <2>1, UpdateFrom
<1>13. ds \in CommandSeqs /\ Len(ds) = Len(cs) /\ \A d \in 1..Len(cs) : d # c => ds[d] = cs[d]
  BY <1>10 DEF Becomes
<1>14. Ends(ds)
  BY <1>1, <1>2, <1>8, <1>10, <1>13 DEF Ends
<1>15. Pipeline(ds, Tail(to), from)
  BY <1>1, <1>2, <1>11, <1>12, <1>13, <1>14 DEF Pipeline
<1> QED
  BY <1>2, <1>3, <1>5, <1>10, <1>13, <1>15 DEF v

\* A command is deleted.
LEMMA Deleted ==
  ASSUME NEW cs, NEW to, NEW from, Pipeline(cs, to, from), to # << >>, Head(to).op # "do",
         NEW c, c = Head(to).cmd, NEW v \in Commands, v.kind = cs[c].kind, v.then = cs[c].then,
         v.stage = cs[c].stage, v.ended = cs[c].ended, NEW ds, ds = Changed(cs, c, v)
  PROVE  /\ Pipeline(ds, Tail(to), from)
         /\ c \in 1..Len(cs) /\ Len(ds) = Len(cs) /\ ds[c] = v
         /\ \A d \in 1..Len(cs) : d # c => ds[d] = cs[d]
         /\ cs[c].ended /\ cs[c].stage \in {3, 5}
         /\ ToThird(Tail(to)) = ToThird(to)
<1>1. cs \in CommandSeqs /\ to \in MessageSeqs /\ from \in MessageSeqs /\ FromSound(cs, from) /\ Ends(cs)
  BY DEF Pipeline
<1>2. /\ Tail(to) \in MessageSeqs
      /\ ToSound(cs, Tail(to))
      /\ c \in 1..Len(cs)
      /\ \A i \in 1..Len(Tail(to)) : Tail(to)[i].cmd # c
      /\ cs[c].ended
      /\ ToThird(Tail(to)) = ToThird(to)
  BY TakeTo
<1>3. cs[c].stage \in {3, 5}
  BY <1>1, <1>2 DEF Ends
<1>4. /\ Len(cs) \in Nat
      /\ \A i \in 1..Len(from) : from[i].cmd \in 1..Len(cs) /\ cs[from[i].cmd].stage \in {2, 4}
  BY <1>1, OnTheirWay DEF FromSound, FromPlaced
<1>5. \A i \in 1..Len(from) : from[i].cmd # c
  BY <1>2, <1>3, <1>4
<1>6. \A i \in 1..Len(from) : cs[c].stage > cs[from[i].cmd].stage => c < from[i].cmd
  BY <1>1, <1>2, <1>4 DEF FromSound, FromNotOvertaken
<1>61. cs[c].stage > 3 => \A i \in 1..Len(Tail(to)) : Tail(to)[i].op = "do" => c < Tail(to)[i].cmd
  BY <1>2 DEF ToSound, ToNotOvertaken
<1>9. v \in Commands /\ v.kind = cs[c].kind /\ v.then = cs[c].then /\ ds = Changed(cs, c, v)
  OBVIOUS
<1>10. Becomes(cs, ds, c, cs[c].stage) /\ ds[c] = v
  <2>1. Becomes(cs, ds, c, v.stage) /\ ds[c] = v
    BY ONLY <1>1, <1>2, <1>9, BecomesIs
  <2> QED
    BY <2>1
<1>101. cs[c].stage \in 2..5
  BY <1>3
<1>11. ToSound(ds, Tail(to))
  BY ONLY <1>1, <1>2, <1>61, <1>10, <1>101, UpdateTo
<1>12. FromSound(ds, from)
  BY ONLY <1>1, <1>2, <1>5, <1>6, <1>10, <1>101, UpdateFrom
<1>13. ds \in CommandSeqs /\ Len(ds) = Len(cs) /\ \A d \in 1..Len(cs) : d # c => ds[d] = cs[d]
  BY <1>10 DEF Becomes
<1>14. Ends(ds)
  <2>1. /\ v.ended /\ v.stage \in {3, 5}
        /\ v.kind = "sync" /\ v.ended => v.stage = 5
    BY <1>1, <1>2, <1>3 DEF Ends
  <2>2. \A d \in 1..Len(ds) : d # c => ds[d] = cs[d] /\ d \in 1..Len(cs)
    BY <1>13
  <2> QED
    BY <1>1, <1>10, <2>1, <2>2 DEF Ends
<1>15. Pipeline(ds, Tail(to), from)
  BY <1>1, <1>2, <1>11, <1>12, <1>13, <1>14 DEF Pipeline
<1> QED
  BY <1>2, <1>3, <1>10, <1>13, <1>15

\* A stage of the non-realtime thread leaves this of the command, v, and sends
\* it back.
LEMMA NrtStage ==
  ASSUME NEW cs, NEW to, NEW from, Pipeline(cs, to, from), from # << >>,
         NEW c, c = Head(from).cmd, NEW v \in Commands,
         v.kind = cs[c].kind, v.then = cs[c].then, v.alive = cs[c].alive,
         \/ cs[c].stage = 2 /\ v.stage = 3 /\ (v.kind = "sync" => ~v.ended)
         \/ cs[c].stage = 4 /\ v.stage = 5 /\ v.ended,
         NEW ds, ds = Changed(cs, c, v),
         NEW t, t = Write(to, 0, AfterNrtStage(c, ~v.ended))
  PROVE  /\ Pipeline(ds, t, Tail(from)) /\ Len(t) <= Len(to) + 1
         /\ c \in 1..Len(cs) /\ Len(ds) = Len(cs) /\ ds[c] = v
         /\ \A d \in 1..Len(cs) : d # c => ds[d] = cs[d]
         /\ \A d \in 1..Len(cs) : cs[d].stage > cs[c].stage => d < c
         /\ c \in Carried(from) /\ Carried(Tail(from)) = Carried(from) \ {c}
         /\ c \notin ToThird(to)
         /\ v.ended => ToThird(t) = ToThird(to)
         /\ ~v.ended => \A d \in ToThird(to) : d < c
         /\ ~v.ended => ToThird(to) \subseteq ToThird(t)
         /\ ~v.ended => ToThird(t) \subseteq ToThird(to) \cup {c}
         /\ ~v.ended /\ Len(to) < FifoSize => c \in ToThird(t)
<1>1. cs \in CommandSeqs /\ to \in MessageSeqs /\ from \in MessageSeqs /\ ToSound(cs, to) /\ Ends(cs)
  BY DEF Pipeline
<1>2. /\ Tail(from) \in MessageSeqs
      /\ FromSound(cs, Tail(from))
      /\ c \in 1..Len(cs) /\ cs[c].stage \in {2, 4}
      /\ \A i \in 1..Len(Tail(from)) : Tail(from)[i].cmd # c
      /\ \A i \in 1..Len(Tail(from)) :
           cs[Tail(from)[i].cmd].stage <= cs[c].stage => c < Tail(from)[i].cmd
      /\ \A d \in 1..Len(cs) : cs[d].stage > cs[c].stage => d < c
  BY TakeFrom
<1>3. c \in Carried(from) /\ Carried(Tail(from)) = Carried(from) \ {c}
  BY TakeFrom
<1>4. /\ Len(cs) \in Nat
      /\ \A i \in 1..Len(to) : /\ to[i].cmd \in 1..Len(cs)
                               /\ to[i].op = "do" => cs[to[i].cmd].stage = 3
                               /\ to[i].op = "free" => cs[to[i].cmd].ended
                               /\ to[i].op \in {"do", "free"}
  BY <1>1, OnTheirWay DEF ToSound, ToPlaced
<1>5. ~cs[c].ended /\ cs[c].alive
  BY <1>1, <1>2 DEF Ends
<1>6. \A i \in 1..Len(to) : to[i].cmd # c
  BY <1>2, <1>4, <1>5
<1>7. c \notin ToThird(to) /\ (cs[c].stage = 2 => \A d \in ToThird(to) : d < c)
  <2>1. ASSUME NEW d \in ToThird(to)
        PROVE  d # c /\ (cs[c].stage = 2 => d < c)
    <3>1. PICK i \in 1..Len(to) : to[i].op = "do" /\ to[i].cmd = d
      BY ThirdIs
    <3>2. d \in 1..Len(cs) /\ cs[d].stage = 3
      BY <1>4, <3>1
    <3> QED
      BY <1>2, <3>2
  <2> QED
    BY <2>1
<1>8. v.stage \in 2..5 /\ v.stage > cs[c].stage /\ v.stage <= cs[c].stage + 1
  BY <1>2
<1>9. \A i \in 1..Len(Tail(from)) : v.stage > cs[Tail(from)[i].cmd].stage => c < Tail(from)[i].cmd
  <2>1. \A i \in 1..Len(Tail(from)) : cs[Tail(from)[i].cmd].stage \in {2, 4}
    BY <1>2 DEF FromSound, FromPlaced
  <2> QED
    BY <1>2, <1>8, <2>1
<1>10. v.stage > 3 => \A i \in 1..Len(to) : to[i].op = "do" => c < to[i].cmd
  BY <1>1, <1>2, <1>8 DEF ToSound, ToNotOvertaken
<1>11. Becomes(cs, ds, c, v.stage) /\ ds[c] = v
  BY <1>1, <1>2, BecomesIs
<1>12. ToSound(ds, to)
  BY ONLY <1>1, <1>2, <1>6, <1>8, <1>10, <1>11, UpdateTo
<1>13. FromSound(ds, Tail(from))
  BY ONLY <1>1, <1>2, <1>8, <1>9, <1>11, UpdateFrom
<1>14. ds \in CommandSeqs /\ Len(ds) = Len(cs) /\ \A d \in 1..Len(cs) : d # c => ds[d] = cs[d]
  BY <1>11 DEF Becomes
<1>15. Ends(ds)
  <2>1. /\ v.ended => v.stage \in {3, 5}
        /\ v.stage = 5 => v.ended
        /\ ~v.alive => v.ended
        /\ v.kind = "sync" /\ v.ended => v.stage = 5
    BY <1>2, <1>5
  <2>2. \A d \in 1..Len(ds) : d # c => ds[d] = cs[d] /\ d \in 1..Len(cs)
    BY <1>14
  <2> QED
    BY <1>1, <1>11, <2>1, <2>2 DEF Ends
<1>16. Pipeline(ds, to, Tail(from))
  BY <1>1, <1>2, <1>12, <1>13, <1>14, <1>15 DEF Pipeline
<1> DEFINE m == AfterNrtStage(c, ~v.ended)
<1>17. v.ended \in BOOLEAN /\ c \in Nat
  BY <1>2, <1>4 DEF Commands
<1>18. m \in Messages /\ m.cmd = c /\ (m.op = "do" <=> ~v.ended) /\ (m.op = "free" <=> v.ended)
  BY <1>17 DEF AfterNrtStage, Do, Free, Messages
<1> HIDE DEF m
<1>19. m.op = "do" => ds[c].stage = 3 /\ ~ds[c].ended
  BY <1>11, <1>18
<1>20. m.op = "free" => ds[c].ended
  BY <1>11, <1>18
<1>21. m.op = "do" => \A d \in ToThird(to) : d < c
  BY <1>7, <1>18
<1>22. m.op = "do" => \A d \in 1..Len(ds) : ds[d].stage > 3 => d < c
  <2> SUFFICES ASSUME m.op = "do", NEW d \in 1..Len(ds), ds[d].stage > 3
               PROVE  d < c
    OBVIOUS
  <2>1. cs[c].stage = 2 /\ ds[c].stage = 3
    <3>1. ~v.ended /\ ds[c].stage = 3
      BY <1>18, <1>19
    <3> QED
      BY <1>2, <3>1
  <2>2. d # c /\ ds[d] = cs[d] /\ d \in 1..Len(cs)
    BY <1>14, <2>1
  <2>3. cs[d].stage \in 2..5 /\ cs[d].stage > 3
    BY <2>2, OnTheirWay
  <2>4. cs[d].stage > cs[c].stage
    BY <2>1, <2>3
  <2> QED
    BY <1>2, <2>2, <2>4
<1>23. c \in 1..Len(ds) /\ t = Write(to, 0, m)
  BY <1>2, <1>14 DEF m
<1>24. Pipeline(ds, t, Tail(from)) /\ Len(t) <= Len(to) + 1
  BY ONLY <1>6, <1>16, <1>18, <1>19, <1>20, <1>21, <1>22, <1>23, PassTo
<1>25. v.ended => ToThird(t) = ToThird(to)
  BY ONLY <1>6, <1>16, <1>18, <1>19, <1>20, <1>21, <1>22, <1>23, PassTo
<1>26. ~v.ended => ToThird(to) \subseteq ToThird(t)
  BY ONLY <1>6, <1>16, <1>18, <1>19, <1>20, <1>21, <1>22, <1>23, PassTo
<1>27. ~v.ended => ToThird(t) \subseteq ToThird(to) \cup {c}
  BY ONLY <1>6, <1>16, <1>18, <1>19, <1>20, <1>21, <1>22, <1>23, PassTo
<1>28. ~v.ended /\ Len(to) < FifoSize => c \in ToThird(t)
  BY ONLY <1>6, <1>16, <1>18, <1>19, <1>20, <1>21, <1>22, <1>23, PassTo
<1> QED
  BY <1>2, <1>3, <1>7, <1>11, <1>14, <1>18, <1>21, <1>24, <1>25, <1>26, <1>27, <1>28

\* What the second stage leaves: the buffer of the non-realtime thread is the
\* old one, the null one or has a new block, and what it is to free is the old
\* data.  Only a read of no frames, or a lack of memory, keeps the old data and
\* frees it, or forgets it.
Leaves2(cmd, r) ==
  /\ r.buf \in Buffers /\ r.snd \in Buffers /\ r.free \in {nrtBuf.data, Null} /\ r.more \in BOOLEAN
  /\ r.new = {} \/ r.new = {blocks + 1}
  /\ r.buf.data \in {nrtBuf.data, Null} \cup r.new
  /\ r.snd.data \in {r.buf.data, Null}
  /\ cmd.kind = "sync" => r.more

Installs2(cmd, r) ==
  /\ r.more /\ cmd.kind \in Installing => r.snd = r.buf
  /\ cmd.kind \notin Installing => r.buf = nrtBuf /\ r.new = {} /\ r.free = Null
  /\ ~EmptyReads /\ r.more => r.free = Null \/ r.buf.data \in {Null} \cup r.new

Keeps2(r) ==
  /\ r.new \subseteq {r.buf.data}
  /\ r.more => nrtBuf.data \in {r.buf.data, r.free}
  /\ ~MemoryFails /\ ~r.more => r.buf = nrtBuf /\ r.free \in {nrtBuf.data, Null}
  /\ ~MemoryFails => r.buf = nrtBuf \/ r.buf = SndBuf(Null, 0) \/ r.buf.data \in r.new

\* The results of bufAlloc.
Fresh == SndBuf(blocks + 1, 1)

Lost == [nrtBuf EXCEPT !.data = Null]

\* The buffers a second stage can leave.
LEMMA BuffersAre ==
  ASSUME Types
  PROVE  /\ Fresh \in Buffers /\ Fresh.data = blocks + 1
         /\ Lost \in Buffers /\ Lost.data = Null
         /\ SndBuf(Null, 0) \in Buffers /\ SndBuf(Null, 0).data = Null
         /\ nrtBuf \in Buffers /\ rtBuf \in Buffers /\ blocks \in Nat /\ nrtBuf.data \in Nat /\ rtBuf.data \in Nat
  BY DEF Types, Fresh, Lost, SndBuf, Buffers, Null

\* The results of the second stage, each with the condition it is possible on.
Results2(cmd, r) ==
  \/ cmd.kind = "alloc" /\ r = Stage2Result(Fresh, {blocks + 1}, Fresh, nrtBuf.data, TRUE)
  \/ cmd.kind = "alloc" /\ r = Stage2Result(nrtBuf, {}, SndBuf(Null, 0), nrtBuf.data, FALSE)
  \/ cmd.kind = "alloc" /\ MemoryFails /\ r = Stage2Result(Lost, {}, SndBuf(Null, 0), nrtBuf.data, FALSE)
  \/ cmd.kind = "allocRead" /\ r = Stage2Result(nrtBuf, {}, SndBuf(Null, 0), Null, FALSE)
  \/ cmd.kind = "allocRead" /\ r = Stage2Result(Fresh, {blocks + 1}, Fresh, nrtBuf.data, TRUE)
  \/ cmd.kind = "allocRead" /\ EmptyReads /\ r = Stage2Result(nrtBuf, {}, nrtBuf, nrtBuf.data, TRUE)
  \/ cmd.kind = "allocRead" /\ MemoryFails /\ r = Stage2Result(Lost, {}, Lost, nrtBuf.data, TRUE)
  \/ cmd.kind = "gen" /\ r = Stage2Result(nrtBuf, {}, nrtBuf, Null, TRUE)
  \/ cmd.kind = "gen" /\ r = Stage2Result(Fresh, {blocks + 1}, Fresh, nrtBuf.data, TRUE)
  \/ cmd.kind = "free" /\ r = Stage2Result(SndBuf(Null, 0), {}, SndBuf(Null, 0), nrtBuf.data, TRUE)
  \/ cmd.kind \in {"zero", "sync"} /\ r = Stage2Result(nrtBuf, {}, SndBuf(Null, 0), Null, TRUE)
  \/ cmd.kind = "query" /\ r = Stage2Result(nrtBuf, {}, SndBuf(Null, 0), Null, FALSE)

\* The results of the second stage are these.
LEMMA Stage2Of ==
  ASSUME NEW cmd \in Commands, NEW r \in Stage2(cmd)
  PROVE  Results2(cmd, r)
<1>1. cmd.kind \in AllKinds
  BY DEF Commands
<1>2. CASE cmd.kind = "alloc"
  <2>1. r \in Stage2Alloc(nrtBuf)
    BY <1>2 DEF Stage2
  <2>2. PICK a \in BufAllocResults(nrtBuf, TRUE) :
          r = Stage2Result(a.buf, a.new, IF a.err THEN SndBuf(Null, 0) ELSE a.buf, nrtBuf.data, ~a.err)
    BY <2>1 DEF Stage2Alloc
  <2>3. \/ a = [buf |-> Fresh, new |-> {blocks + 1}, err |-> FALSE]
        \/ a = [buf |-> nrtBuf, new |-> {}, err |-> TRUE]
        \/ MemoryFails /\ a = [buf |-> Lost, new |-> {}, err |-> TRUE]
    BY Zenon DEF BufAllocResults, Fresh, Lost
  <2>4. CASE a = [buf |-> Fresh, new |-> {blocks + 1}, err |-> FALSE]
    <3>1. a.buf = Fresh /\ a.new = {blocks + 1} /\ ~a.err /\ (~a.err) = TRUE
      BY <2>4
    <3>2. r = Stage2Result(Fresh, {blocks + 1}, Fresh, nrtBuf.data, TRUE)
      BY <2>2, <3>1, Zenon
    <3> QED
      BY <1>2, <3>2 DEF Results2
  <2>5. CASE a = [buf |-> nrtBuf, new |-> {}, err |-> TRUE]
    <3>1. a.buf = nrtBuf /\ a.new = {} /\ a.err /\ (~a.err) = FALSE
      BY <2>5
    <3>2. r = Stage2Result(nrtBuf, {}, SndBuf(Null, 0), nrtBuf.data, FALSE)
      BY <2>2, <3>1, Zenon
    <3> QED
      BY <1>2, <3>2 DEF Results2
  <2>6. CASE MemoryFails /\ a = [buf |-> Lost, new |-> {}, err |-> TRUE]
    <3>1. a.buf = Lost /\ a.new = {} /\ a.err /\ (~a.err) = FALSE
      BY <2>6
    <3>2. r = Stage2Result(Lost, {}, SndBuf(Null, 0), nrtBuf.data, FALSE)
      BY <2>2, <3>1, Zenon
    <3> QED
      BY <1>2, <2>6, <3>2 DEF Results2
  <2> QED
    BY <2>3, <2>4, <2>5, <2>6
<1>3. CASE cmd.kind = "allocRead"
  <2>1. r \in Stage2AllocRead(nrtBuf)
    BY <1>3 DEF Stage2
  <2>2. CASE r = Stage2Result(nrtBuf, {}, SndBuf(Null, 0), Null, FALSE)
    BY <1>3, <2>2 DEF Results2
  <2>3. CASE r # Stage2Result(nrtBuf, {}, SndBuf(Null, 0), Null, FALSE)
    <3>1. PICK a \in BufAllocResults(nrtBuf, EmptyReads) :
            r = Stage2Result(a.buf, a.new, a.buf, nrtBuf.data, TRUE)
      BY <2>1, <2>3 DEF Stage2AllocRead
    <3>2. \/ a = [buf |-> Fresh, new |-> {blocks + 1}, err |-> FALSE]
          \/ EmptyReads /\ a = [buf |-> nrtBuf, new |-> {}, err |-> TRUE]
          \/ MemoryFails /\ a = [buf |-> Lost, new |-> {}, err |-> TRUE]
      BY Zenon DEF BufAllocResults, Fresh, Lost
    <3>3. CASE a = [buf |-> Fresh, new |-> {blocks + 1}, err |-> FALSE]
      <4>1. a.buf = Fresh /\ a.new = {blocks + 1}
        BY <3>3
      <4> QED
        BY <1>3, <3>1, <4>1 DEF Results2
    <3>4. CASE EmptyReads /\ a = [buf |-> nrtBuf, new |-> {}, err |-> TRUE]
      <4>1. a.buf = nrtBuf /\ a.new = {}
        BY <3>4
      <4> QED
        BY <1>3, <3>1, <3>4, <4>1 DEF Results2
    <3>5. CASE MemoryFails /\ a = [buf |-> Lost, new |-> {}, err |-> TRUE]
      <4>1. a.buf = Lost /\ a.new = {}
        BY <3>5
      <4> QED
        BY <1>3, <3>1, <3>5, <4>1 DEF Results2
    <3> QED
      BY <3>2, <3>3, <3>4, <3>5
  <2> QED
    BY <2>2, <2>3
<1>4. CASE cmd.kind = "gen"
  BY <1>4 DEF Stage2, Stage2Gen, Results2, Fresh
<1>5. CASE cmd.kind = "free"
  BY <1>5 DEF Stage2, Stage2Free, Results2
<1>6. CASE cmd.kind \in {"zero", "sync"}
  BY <1>6 DEF Stage2, Results2
<1>7. CASE cmd.kind = "query"
  BY <1>7 DEF Stage2, Results2
<1> QED
  BY <1>1, <1>2, <1>3, <1>4, <1>5, <1>6, <1>7 DEF AllKinds

\* What the results have in common.
LEMMA Stage2Is ==
  ASSUME Types, NEW cmd \in Commands, NEW r \in Stage2(cmd)
  PROVE  Leaves2(cmd, r) /\ Installs2(cmd, r) /\ Keeps2(r)
<1>1. Results2(cmd, r)
  BY Stage2Of
<1>2. /\ Fresh \in Buffers /\ Fresh.data = blocks + 1
      /\ Lost \in Buffers /\ Lost.data = Null
      /\ SndBuf(Null, 0) \in Buffers /\ SndBuf(Null, 0).data = Null
      /\ nrtBuf \in Buffers
  BY BuffersAre
<1>3. Leaves2(cmd, r)
  <2>1. r.more \in BOOLEAN
    <3>1. \A b, n, s, f : Stage2Result(b, n, s, f, TRUE).more \in BOOLEAN
      BY DEF Stage2Result
    <3>2. \A b, n, s, f : Stage2Result(b, n, s, f, FALSE).more \in BOOLEAN
      BY DEF Stage2Result
    <3> QED
      BY <1>1, <3>1, <3>2, Zenon DEF Results2
  <2>2. r.buf \in Buffers /\ r.snd \in Buffers /\ r.free \in {nrtBuf.data, Null}
    BY <1>1, <1>2 DEF Results2, Stage2Result
  <2>3. (r.new = {} \/ r.new = {blocks + 1}) /\ (cmd.kind = "sync" => r.more)
    BY <1>1 DEF Results2, Stage2Result
  <2>4. r.buf.data \in {nrtBuf.data, Null} \cup r.new /\ r.snd.data \in {r.buf.data, Null}
    BY <1>1, <1>2 DEF Results2, Stage2Result
  <2> QED
    BY <2>1, <2>2, <2>3, <2>4 DEF Leaves2
<1>4. Installs2(cmd, r)
  BY <1>1, <1>2 DEF Results2, Stage2Result, Installs2, Installing
<1>5. Keeps2(r)
  BY <1>1, <1>2 DEF Results2, Stage2Result, Keeps2
<1> QED
  BY <1>3, <1>4, <1>5

-----------------------------------------------------------------------------
(* What the actions do.                                                    *)

\* What no handler changes in a command.
Kept(v, w) == v.kind = w.kind /\ v.then = w.then

\* What the first two stages gave it.
Carries(v, snd, free) == v.snd = snd /\ v.free = free

\* What is known of a command that exists.
LEMMA CommandIs ==
  ASSUME IndInv, NEW c \in Ids
  PROVE  /\ cmds[c] \in Commands /\ c \in Nat /\ Len(cmds) \in Nat
         /\ cmds[c].kind \in AllKinds /\ cmds[c].then \in AllKinds \cup {"none"}
         /\ cmds[c].snd \in Buffers /\ cmds[c].snd.data \in Nat /\ cmds[c].free \in Nat
         /\ cmds[c].stage \in 2..5
<1>1. cmds \in CommandSeqs
  BY DEF IndInv, Pipeline
<1>2. cmds[c] \in Commands /\ c \in Nat /\ Len(cmds) \in Nat
  BY <1>1 DEF CommandSeqs, Ids
<1>3. cmds[c].snd \in Buffers
  BY <1>2 DEF Commands
<1> QED
  BY <1>2, <1>3 DEF Commands, Buffers

\* Where the commands on their way are.
LEMMA PlacesAre ==
  ASSUME IndInv
  PROVE  /\ \A c \in Third : c \in Ids /\ cmds[c].stage = 3 /\ ~cmds[c].ended
         /\ \A c \in Carried(fromEngine) : c \in Ids /\ cmds[c].stage \in {2, 4} /\ ~cmds[c].ended
<1>1. FromPlaced(cmds, fromEngine) /\ ToPlaced(cmds, toEngine) /\ Ends(cmds)
  BY DEF IndInv, Pipeline, FromSound, ToSound
<1>2. ASSUME NEW c \in Third
      PROVE  c \in Ids /\ cmds[c].stage = 3 /\ ~cmds[c].ended
  <2>1. PICK i \in 1..Len(toEngine) : toEngine[i].op = "do" /\ toEngine[i].cmd = c
    BY ThirdIs DEF Third
  <2> QED
    BY <1>1, <2>1 DEF ToPlaced, Ids
<1>3. ASSUME NEW c \in Carried(fromEngine)
      PROVE  c \in Ids /\ cmds[c].stage \in {2, 4} /\ ~cmds[c].ended
  <2>1. PICK i \in 1..Len(fromEngine) : fromEngine[i].cmd = c
    BY CarriedIs
  <2>2. c \in Ids /\ cmds[c].stage \in {2, 4}
    BY <1>1, <2>1 DEF FromPlaced, Ids
  <2> QED
    BY <1>1, <2>2 DEF Ends, Ids
<1> QED
  BY <1>2, <1>3

\* PerformPacket: a command is created.
LEMMA PerformPacketIs ==
  ASSUME IndInv, PerformPacket
  PROVE  /\ IndInv' /\ Third' = Third
         /\ Len(cmds') = Len(cmds) + 1 /\ \A d \in Ids : cmds'[d] = cmds[d]
         /\ cmds'[Len(cmds) + 1].stage = 2 /\ cmds'[Len(cmds) + 1].free = Null
         /\ ~cmds'[Len(cmds) + 1].ended /\ cmds'[Len(cmds) + 1].alive
         /\ Carried(fromEngine) \subseteq Carried(fromEngine')
         /\ Carried(fromEngine') \subseteq Carried(fromEngine) \cup {Len(cmds) + 1}
         /\ Len(fromEngine) + unfreed < FifoSize => Len(cmds) + 1 \in Carried(fromEngine')
         /\ Len(fromEngine') <= Len(fromEngine) + 1
         /\ UNCHANGED <<sent, toEngine, unfreed, rtBuf, nrtBuf, memory, blocks>>
         /\ Len(osc') = Len(osc) - 1 /\ Len(osc) \in Nat \ {0}
<1> DEFINE p == Head(osc)
           new == NewCommand(p.kind, p.then)
<1>1. /\ cmds' = Created(cmds, new)
      /\ fromEngine' = Write(fromEngine, unfreed, Do(Len(cmds) + 1))
      /\ osc # << >> /\ osc' = Tail(osc)
      /\ UNCHANGED <<sent, toEngine, unfreed, rtBuf, nrtBuf, memory, blocks>>
  BY DEF PerformPacket, Start, Created
<1>2. p \in Packets /\ osc' \in Seq(Packets) /\ Len(osc') = Len(osc) - 1 /\ Len(osc) \in Nat \ {0}
  BY <1>1 DEF IndInv, Types
<1>3. /\ new \in Commands /\ new.stage = 2 /\ ~new.ended /\ new.alive /\ new.free = Null
  BY <1>2, NewIs
<1>4. Pipeline(cmds, toEngine, fromEngine) /\ unfreed \in Nat
  BY DEF IndInv, Types
<1> HIDE DEF new, p
<1>5. Pipeline(cmds', toEngine, fromEngine')
  BY ONLY <1>1, <1>3, <1>4, CreatePass
<1>51. Len(fromEngine') <= Len(fromEngine) + 1
  BY ONLY <1>1, <1>3, <1>4, CreatePass
<1>6. /\ Len(cmds') = Len(cmds) + 1 /\ cmds'[Len(cmds) + 1] = new
      /\ \A d \in 1..Len(cmds) : cmds'[d] = cmds[d]
  BY ONLY <1>1, <1>3, <1>4, CreatedIs
<1>7. Carried(fromEngine) \subseteq Carried(fromEngine')
  BY ONLY <1>1, <1>3, <1>4, CreatePass
<1>8. Carried(fromEngine') \subseteq Carried(fromEngine) \cup {Len(cmds) + 1}
  BY ONLY <1>1, <1>3, <1>4, CreatePass
<1>9. Len(fromEngine) + unfreed < FifoSize => Len(cmds) + 1 \in Carried(fromEngine')
  BY ONLY <1>1, <1>3, <1>4, CreatePass
<1>10. IndInv'
  <2>1. Types'
    BY <1>1, <1>2 DEF IndInv, Types
  <2>2. Pipeline(cmds', toEngine', fromEngine')
    BY <1>1, <1>5
  <2> QED
    BY <2>1, <2>2 DEF IndInv
<1>11. Third' = Third
  BY <1>1 DEF Third
<1> QED
  BY <1>1, <1>2, <1>3, <1>51, <1>6, <1>7, <1>8, <1>9, <1>10, <1>11 DEF Ids

\* The third stage: the command goes on, and its completion message may create
\* another.
LEMMA CallStage3Is ==
  ASSUME IndInv, PerformToEngine, Head(toEngine).op = "do", NEW c, c = Head(toEngine).cmd
  PROVE  /\ IndInv' /\ Third' = Third \ {c}
         /\ c \in Third /\ c \in Ids /\ cmds[c].stage = 3 /\ ~cmds[c].ended
         /\ c \notin Carried(fromEngine)
         /\ \A d \in Third : c <= d
         /\ Kept(cmds'[c], cmds[c]) /\ Carries(cmds'[c], cmds[c].snd, cmds[c].free)
         /\ cmds'[c].stage = 4 /\ ~cmds'[c].ended /\ cmds'[c].alive = cmds[c].alive
         /\ \A d \in Ids : d # c => cmds'[d] = cmds[d]
         /\ cmds[c].then = "none" => Len(cmds') = Len(cmds)
         /\ cmds[c].then # "none" =>
              /\ Len(cmds') = Len(cmds) + 1
              /\ cmds'[Len(cmds) + 1].stage = 2 /\ cmds'[Len(cmds) + 1].free = Null
              /\ ~cmds'[Len(cmds) + 1].ended /\ cmds'[Len(cmds) + 1].alive
              /\ cmds'[Len(cmds) + 1].then = "none"
         /\ Carried(fromEngine) \subseteq Carried(fromEngine')
         /\ Carried(fromEngine') \subseteq Carried(fromEngine) \cup {c, Len(cmds) + 1}
         /\ cmds[c].then = "none" => Carried(fromEngine') \subseteq Carried(fromEngine) \cup {c}
         /\ Len(fromEngine) + unfreed + 1 < FifoSize
              => /\ c \in Carried(fromEngine')
                 /\ cmds[c].then # "none" => Len(cmds) + 1 \in Carried(fromEngine')
         /\ Len(fromEngine') + Len(cmds) <= Len(fromEngine) + 1 + Len(cmds')
         /\ rtBuf' = Stage3Buf(cmds[c])
         /\ UNCHANGED <<sent, osc, unfreed, nrtBuf, memory, blocks>>
         /\ Len(toEngine') = Len(toEngine) - 1 /\ Len(toEngine) \in Nat /\ Len(fromEngine) \in Nat
<1> DEFINE next == [cmds EXCEPT ![c].stage = 4]
           new == NewCommand(cmds[c].then, "none")
           N == Len(cmds) + 1
           from1 == Write(fromEngine, unfreed, Do(N))
<1>1. /\ toEngine # << >> /\ toEngine' = Tail(toEngine)
      /\ rtBuf' = Stage3Buf(cmds[c])
      /\ UNCHANGED <<sent, osc, unfreed, nrtBuf, memory, blocks>>
  BY DEF PerformToEngine, CallStage3
<1>2. cmds[c].then = "none" => cmds' = next /\ fromEngine' = Write(fromEngine, unfreed, Do(c))
  BY DEF PerformToEngine, CallStage3
<1>3. cmds[c].then # "none" =>
        /\ cmds' = Append(next, NewCommand(cmds[c].then, "none"))
        /\ fromEngine' = Write(Write(fromEngine, unfreed, Do(Len(next) + 1)), unfreed, Do(c))
  <2> DEFINE s == Start([kind |-> cmds[c].then, then |-> "none"], next, fromEngine)
  <2>1. cmds[c].then # "none" => cmds' = s.cmds /\ fromEngine' = Write(s.from, unfreed, Do(c))
    <3> SUFFICES ASSUME cmds[c].then # "none"
                 PROVE  cmds' = s.cmds /\ fromEngine' = Write(s.from, unfreed, Do(c))
      OBVIOUS
    <3>1. CallStage3(c)
      BY DEF PerformToEngine
    <3>2. cmds' = (IF cmds[c].then = "none" THEN [cmds |-> next, from |-> fromEngine] ELSE s).cmds
      BY <3>1 DEF CallStage3
    <3>3. fromEngine' = Write((IF cmds[c].then = "none" THEN [cmds |-> next, from |-> fromEngine]
                              ELSE s).from, unfreed, Do(c))
      BY <3>1 DEF CallStage3
    <3> HIDE DEF s, next
    <3>4. (IF cmds[c].then = "none" THEN [cmds |-> next, from |-> fromEngine] ELSE s) = s
      OBVIOUS
    <3> QED
      BY <3>2, <3>3, <3>4
  <2>2. /\ s.cmds = Append(next, NewCommand(cmds[c].then, "none"))
        /\ s.from = Write(fromEngine, unfreed, Do(Len(next) + 1))
    BY DEF Start
  <2> QED
    BY ONLY <2>1, <2>2
<1>4. Pipeline(cmds, toEngine, fromEngine) /\ unfreed \in Nat
  BY DEF IndInv, Types
<1>5. Len(cmds) \in Nat /\ Len(fromEngine) \in Nat /\ Len(toEngine) \in Nat
  BY <1>4, OnTheirWay
<1>6. /\ Pipeline(next, toEngine', fromEngine)
      /\ c \in 1..Len(cmds) /\ Len(next) = Len(cmds) /\ next[c] = [cmds[c] EXCEPT !.stage = 4]
      /\ \A d \in 1..Len(cmds) : d # c => next[d] = cmds[d]
      /\ cmds[c].stage = 3 /\ ~cmds[c].ended /\ c \in Third
      /\ \A d \in Third : c <= d
      /\ ToThird(toEngine') = Third \ {c}
      /\ c \notin Carried(fromEngine) /\ \A d \in Carried(fromEngine) : d \in 1..Len(cmds)
      /\ \A d \in 1..Len(cmds) : d # c /\ cmds[d].stage > 3 => d < c
  <2>1. /\ Pipeline(next, Tail(toEngine), fromEngine)
        /\ c \in 1..Len(cmds) /\ Len(next) = Len(cmds) /\ next[c] = [cmds[c] EXCEPT !.stage = 4]
        /\ \A d \in 1..Len(cmds) : d # c => next[d] = cmds[d]
        /\ cmds[c].stage = 3 /\ ~cmds[c].ended /\ c \in ToThird(toEngine)
        /\ \A d \in ToThird(toEngine) : c <= d
        /\ ToThird(Tail(toEngine)) = ToThird(toEngine) \ {c}
        /\ c \notin Carried(fromEngine) /\ \A d \in Carried(fromEngine) : d \in 1..Len(cmds)
        /\ \A d \in 1..Len(cmds) : d # c /\ cmds[d].stage > 3 => d < c
    BY <1>1, <1>4, ThirdStage
  <2> QED
    BY <1>1, <2>1 DEF Third
<1>7. Len(toEngine') = Len(toEngine) - 1
  BY <1>1, <1>4, TailIs DEF Pipeline
<1>8. /\ cmds[c] \in Commands /\ next[c].stage = 4 /\ cmds[c].then \in AllKinds \cup {"none"}
  <2>1. cmds[c] \in Commands
    BY <1>4, <1>6 DEF Pipeline, CommandSeqs
  <2> QED
    BY <1>6, <2>1 DEF Commands
<1>80. /\ Kept(next[c], cmds[c]) /\ Carries(next[c], cmds[c].snd, cmds[c].free)
       /\ next[c].stage = 4 /\ ~next[c].ended /\ next[c].alive = cmds[c].alive
  <2>1. next[c] = [cmds[c] EXCEPT !.stage = 4] /\ ~cmds[c].ended
    BY <1>6
  <2> HIDE DEF next
  <2> QED
    BY <1>8, <2>1 DEF Commands, Kept, Carries
<1>81. /\ unfreed \in Nat /\ c \in 1..Len(next) /\ next[c].stage = 4 /\ c \notin Carried(fromEngine)
       /\ Pipeline(next, toEngine', fromEngine)
  BY <1>4, <1>6, <1>8
<1> HIDE DEF next
<1>11. rtBuf' \in Buffers /\ Types
  <2>1. cmds[c].snd \in Buffers /\ SndBuf(Null, 0) \in Buffers
    BY <1>8 DEF Commands, SndBuf, Buffers, Null
  <2> QED
    BY <1>1, <2>1 DEF Stage3Buf, IndInv, Types
<1>82. \A d \in 1..Len(next) : d # c /\ next[d].stage > 3 => d < c
  BY <1>6
<1>9. CASE cmds[c].then = "none"
  <2>1. fromEngine' = Write(fromEngine, unfreed, Do(c)) /\ cmds' = next
    BY <1>2, <1>9
  <2>2. Pipeline(next, toEngine', fromEngine')
    BY ONLY <1>81, <1>82, <2>1, PassLast
  <2>3. Len(fromEngine') <= Len(fromEngine) + 1
    BY ONLY <1>81, <1>82, <2>1, PassLast
  <2>4. Carried(fromEngine) \subseteq Carried(fromEngine')
    BY ONLY <1>81, <1>82, <2>1, PassLast
  <2>5. Carried(fromEngine') \subseteq Carried(fromEngine) \cup {c}
    BY ONLY <1>81, <1>82, <2>1, PassLast
  <2>6. Len(fromEngine) + unfreed < FifoSize => c \in Carried(fromEngine')
    BY ONLY <1>81, <1>82, <2>1, PassLast
  <2>7. cmds'[c] = next[c] /\ Len(cmds') = Len(cmds)
        /\ \A d \in 1..Len(cmds) : d # c => cmds'[d] = cmds[d]
    BY <1>6, <2>1
  <2>8. IndInv'
    <3>1. Types'
      BY <1>1, <1>11 DEF IndInv, Types
    <3> QED
      BY <2>1, <2>2, <3>1 DEF IndInv
  <2>9. Len(fromEngine') + Len(cmds) <= Len(fromEngine) + 1 + Len(cmds')
    BY <1>5, <2>3, <2>7
  <2>10. Third' = Third \ {c}
    BY <1>6 DEF Third
  <2>11. Carried(fromEngine') \subseteq Carried(fromEngine) \cup {c, Len(cmds) + 1}
    BY <2>5
  <2>12. Len(fromEngine) + unfreed + 1 < FifoSize => c \in Carried(fromEngine')
    BY <1>4, <1>5, <2>6, SequencedCommandsAssumption
  <2> HIDE DEF N
  <2>13. /\ IndInv' /\ Third' = Third \ {c}
         /\ c \in Third /\ c \in Ids /\ cmds[c].stage = 3 /\ ~cmds[c].ended
         /\ c \notin Carried(fromEngine)
         /\ \A d \in Third : c <= d
         /\ \A d \in Ids : d # c => cmds'[d] = cmds[d]
    BY <1>6, <2>7, <2>8, <2>10 DEF Ids
  <2> QED
    BY ONLY <1>1, <1>5, <1>7, <1>80, <1>9, <2>4, <2>5, <2>7, <2>9, <2>11, <2>12, <2>13
<1>10. CASE cmds[c].then # "none"
  <2>1. new \in Commands /\ new.stage = 2 /\ ~new.ended /\ new.alive /\ new.free = Null /\ new.then = "none"
    <3> DEFINE p == [kind |-> cmds[c].then, then |-> "none"]
    <3>1. p \in Packets /\ p.kind = cmds[c].then /\ p.then = "none"
      BY <1>8, <1>10 DEF Packets
    <3> QED
      BY <3>1, NewIs
  <2>2. /\ cmds' = Created(next, new)
        /\ from1 = Write(fromEngine, unfreed, Do(Len(next) + 1))
        /\ fromEngine' = Write(from1, unfreed, Do(c))
    BY <1>3, <1>6, <1>10 DEF Created
  <2> HIDE DEF new, from1
  <2>3. Pipeline(cmds', toEngine', fromEngine')
    BY ONLY <1>81, <1>82, <2>1, <2>2, PassBehind
  <2>4. Len(fromEngine') <= Len(fromEngine) + 2
    BY ONLY <1>81, <1>82, <2>1, <2>2, PassBehind
  <2>5. /\ Len(cmds') = Len(next) + 1 /\ cmds'[Len(next) + 1] = new
        /\ \A d \in 1..Len(next) : cmds'[d] = next[d]
    BY ONLY <1>81, <2>1, <2>2, CreatedIs
  <2>6. Carried(fromEngine) \subseteq Carried(fromEngine')
    BY ONLY <1>81, <1>82, <2>1, <2>2, PassBehind
  <2>7. Carried(fromEngine') \subseteq Carried(fromEngine) \cup {c, Len(next) + 1}
    BY ONLY <1>81, <1>82, <2>1, <2>2, PassBehind
  <2>8. Len(fromEngine) + unfreed + 1 < FifoSize =>
          c \in Carried(fromEngine') /\ Len(next) + 1 \in Carried(fromEngine')
    BY ONLY <1>81, <1>82, <2>1, <2>2, PassBehind
  <2>9. /\ Len(cmds') = Len(cmds) + 1 /\ cmds'[Len(cmds) + 1] = new
        /\ cmds'[c] = next[c]
        /\ \A d \in Ids : d # c => cmds'[d] = cmds[d]
    BY <1>6, <2>5 DEF Ids
  <2>10. IndInv'
    <3>1. Types'
      BY <1>1, <1>11 DEF IndInv, Types
    <3> QED
      BY <2>3, <3>1 DEF IndInv
  <2>11. Len(fromEngine') + Len(cmds) <= Len(fromEngine) + 1 + Len(cmds')
    BY <1>5, <2>4, <2>9
  <2>12. Third' = Third \ {c}
    BY <1>6 DEF Third
  <2>13. Carried(fromEngine') \subseteq Carried(fromEngine) \cup {c, Len(cmds) + 1}
    BY <1>6, <2>7
  <2>14. Len(fromEngine) + unfreed + 1 < FifoSize =>
           c \in Carried(fromEngine') /\ Len(cmds) + 1 \in Carried(fromEngine')
    BY <1>6, <2>8
  <2>15. /\ Len(cmds') = Len(cmds) + 1
         /\ cmds'[Len(cmds) + 1].stage = 2 /\ cmds'[Len(cmds) + 1].free = Null
         /\ ~cmds'[Len(cmds) + 1].ended /\ cmds'[Len(cmds) + 1].alive
         /\ cmds'[Len(cmds) + 1].then = "none"
    BY <2>1, <2>9
  <2> HIDE DEF N
  <2>16. /\ IndInv' /\ Third' = Third \ {c}
         /\ c \in Third /\ c \in Ids /\ cmds[c].stage = 3 /\ ~cmds[c].ended
         /\ c \notin Carried(fromEngine)
         /\ \A d \in Third : c <= d
    BY <1>6, <2>10, <2>12 DEF Ids
  <2> QED
    BY ONLY <1>1, <1>5, <1>7, <1>80, <1>10, <2>6, <2>9, <2>11, <2>13, <2>14, <2>15, <2>16
<1> QED
  BY ONLY <1>9, <1>10

\* A command is deleted.
LEMMA DeleteIs ==
  ASSUME IndInv, PerformToEngine, Head(toEngine).op # "do", NEW c, c = Head(toEngine).cmd
  PROVE  /\ IndInv' /\ Third' = Third /\ c \in Ids /\ cmds[c].ended /\ cmds[c].stage \in {3, 5}
         /\ Len(cmds') = Len(cmds)
         /\ Kept(cmds'[c], cmds[c]) /\ Carries(cmds'[c], cmds[c].snd, cmds[c].free)
         /\ cmds'[c].stage = cmds[c].stage /\ cmds'[c].ended
         /\ \A d \in Ids : d # c => cmds'[d] = cmds[d]
         /\ UNCHANGED <<sent, osc, fromEngine, unfreed, rtBuf, nrtBuf, memory, blocks>>
         /\ Len(toEngine') = Len(toEngine) - 1 /\ Len(toEngine) \in Nat
<1>1. /\ toEngine # << >> /\ toEngine' = Tail(toEngine)
      /\ cmds' = [cmds EXCEPT ![c].alive = FALSE]
      /\ UNCHANGED <<sent, osc, fromEngine, unfreed, rtBuf, nrtBuf, memory, blocks>>
  BY DEF PerformToEngine, Delete
<1>2. Pipeline(cmds, toEngine, fromEngine)
  BY DEF IndInv
<1>3. Len(cmds) \in Nat /\ Len(toEngine) \in Nat
  BY <1>2, OnTheirWay
<1> DEFINE v == [cmds[c] EXCEPT !.alive = FALSE]
<1>31. c \in Ids
  BY <1>1, <1>2, TakeTo DEF Ids
<1>32. cmds[c] \in Commands
  BY <1>31, CommandIs
<1>33. /\ v \in Commands /\ v.kind = cmds[c].kind /\ v.then = cmds[c].then
       /\ v.stage = cmds[c].stage /\ v.ended = cmds[c].ended
       /\ Kept(v, cmds[c]) /\ Carries(v, cmds[c].snd, cmds[c].free)
  BY <1>32 DEF Commands, Kept, Carries
<1>34. cmds' = Changed(cmds, c, v)
  BY <1>1 DEF Changed
<1> HIDE DEF v
<1>4. /\ Pipeline(cmds', Tail(toEngine), fromEngine)
      /\ c \in 1..Len(cmds) /\ Len(cmds') = Len(cmds) /\ cmds'[c] = v
      /\ \A d \in 1..Len(cmds) : d # c => cmds'[d] = cmds[d]
      /\ cmds[c].ended /\ cmds[c].stage \in {3, 5}
      /\ ToThird(Tail(toEngine)) = ToThird(toEngine)
  <2>1. toEngine # << >> /\ Head(toEngine).op # "do" /\ c = Head(toEngine).cmd
    BY <1>1
  <2> QED
    BY ONLY <1>2, <1>33, <1>34, <2>1, Deleted
<1>5. Len(toEngine') = Len(toEngine) - 1
  BY <1>1, <1>2, TailIs DEF Pipeline
<1>6. IndInv'
  <2>1. Types'
    BY <1>1 DEF IndInv, Types
  <2>2. Pipeline(cmds', toEngine', fromEngine')
    BY <1>1, <1>4
  <2> QED
    BY <2>1, <2>2 DEF IndInv
<1>7. Third' = Third
  BY <1>1, <1>4 DEF Third
<1> QED
  BY <1>1, <1>3, <1>33, <1>4, <1>5, <1>6, <1>7 DEF Ids

\* The second stage.
LEMMA CallStage2Is ==
  ASSUME IndInv, PerformFromEngine, NEW c, c = Head(fromEngine).cmd, cmds[c].stage = 2
  PROVE  \E r \in Stage2(cmds[c]) :
         /\ IndInv' /\ c \in Second /\ c \in Ids /\ c \notin Third
         /\ Len(cmds') = Len(cmds) /\ \A d \in Ids : d # c => cmds'[d] = cmds[d]
         /\ Kept(cmds'[c], cmds[c]) /\ Carries(cmds'[c], r.snd, r.free)
         /\ cmds'[c].stage = 3 /\ (cmds'[c].ended <=> ~r.more)
         /\ nrtBuf' = r.buf /\ memory' = memory \cup r.new
         /\ blocks' \in Nat /\ blocks <= blocks' /\ r.new \subseteq 1..blocks'
         /\ \A d \in Ids : cmds[d].stage > 2 => d < c
         /\ Carried(fromEngine') = Carried(fromEngine) \ {c}
         /\ ~r.more => Third' = Third
         /\ r.more => \A d \in Third : d < c
         /\ r.more => Third \subseteq Third'
         /\ r.more => Third' \subseteq Third \cup {c}
         /\ r.more /\ Len(toEngine) < FifoSize => c \in Third'
         /\ UNCHANGED <<sent, osc, rtBuf>> /\ unfreed' = unfreed + 1
         /\ Len(toEngine') <= Len(toEngine) + 1
         /\ Len(fromEngine') = Len(fromEngine) - 1 /\ Len(fromEngine) \in Nat
<1>1. /\ fromEngine # << >> /\ fromEngine' = Tail(fromEngine) /\ unfreed' = unfreed + 1
      /\ CallStage2(c) /\ UNCHANGED <<sent, osc, rtBuf>>
  BY DEF PerformFromEngine
<1>2. Pipeline(cmds, toEngine, fromEngine)
  BY DEF IndInv
<1>3. c \in Ids /\ cmds[c].stage = 2
  BY <1>1, <1>2, TakeFrom DEF Ids
<1>4. cmds[c] \in Commands
  BY <1>3, CommandIs
<1>5. PICK r \in Stage2(cmds[c]) :
        /\ nrtBuf' = r.buf
        /\ memory' = memory \cup r.new
        /\ blocks' = blocks + Cardinality(r.new)
        /\ cmds' = [cmds EXCEPT ![c].stage = 3, ![c].snd = r.snd,
                                ![c].free = r.free, ![c].ended = ~r.more]
        /\ toEngine' = Write(toEngine, 0, AfterNrtStage(c, r.more))
  BY <1>1 DEF CallStage2
<1>6. Leaves2(cmds[c], r)
  BY <1>4, Stage2Is DEF IndInv
<1> DEFINE v == [cmds[c] EXCEPT !.stage = 3, !.snd = r.snd, !.free = r.free, !.ended = ~r.more]
<1>7. r.more \in BOOLEAN /\ r.snd \in Buffers /\ r.free \in Nat /\ r.buf \in Buffers
  <2>1. nrtBuf.data \in Nat /\ Null \in Nat
    BY BuffersAre DEF IndInv, Null
  <2> QED
    BY <1>6, <2>1 DEF Leaves2
<1>8. /\ v \in Commands /\ v.kind = cmds[c].kind /\ v.then = cmds[c].then /\ v.alive = cmds[c].alive
      /\ v.stage = 3 /\ (v.ended <=> ~r.more) /\ (v.kind = "sync" => ~v.ended)
  <2> DEFINE e == ~r.more
  <2>1. e \in BOOLEAN /\ (e <=> ~r.more)
    OBVIOUS
  <2> HIDE DEF e
  <2> DEFINE w == [cmds[c] EXCEPT !.stage = 3, !.snd = r.snd, !.free = r.free]
  <2>2. v = [w EXCEPT !.ended = e]
    BY <1>4 DEF e, Commands
  <2>4. w \in Commands /\ w.kind = cmds[c].kind /\ w.then = cmds[c].then /\ w.alive = cmds[c].alive /\ w.stage = 3
    <3> DEFINE w1 == [cmds[c] EXCEPT !.stage = 3]
               w2 == [w1 EXCEPT !.snd = r.snd]
    <3>1. w1 \in Commands /\ w1.kind = cmds[c].kind /\ w1.then = cmds[c].then /\ w1.alive = cmds[c].alive /\ w1.stage = 3
      BY <1>4 DEF Commands
    <3>2. w = [w2 EXCEPT !.free = r.free]
      OBVIOUS
    <3> HIDE DEF w1, w
    <3>3. w2 \in Commands /\ w2.kind = w1.kind /\ w2.then = w1.then /\ w2.alive = w1.alive /\ w2.stage = 3
      BY <1>7, <3>1 DEF Commands
    <3> HIDE DEF w2
    <3>4. w \in Commands /\ w.kind = w2.kind /\ w.then = w2.then /\ w.alive = w2.alive /\ w.stage = 3
      BY <1>7, <3>2, <3>3 DEF Commands
    <3> QED
      BY <3>1, <3>3, <3>4
  <2> HIDE DEF w
  <2>3. cmds[c].kind = "sync" => r.more
    BY <1>6 DEF Leaves2
  <2> HIDE DEF v
  <2> QED
    BY <2>1, <2>2, <2>3, <2>4 DEF Commands
<1>9. cmds' = Changed(cmds, c, v)
  BY <1>5 DEF Changed
<1>10. toEngine' = Write(toEngine, 0, AfterNrtStage(c, ~v.ended))
  BY <1>5, <1>7, <1>8
<1> HIDE DEF v
<1>11. /\ fromEngine # << >> /\ c = Head(fromEngine).cmd
       /\ \/ cmds[c].stage = 2 /\ v.stage = 3 /\ (v.kind = "sync" => ~v.ended)
          \/ cmds[c].stage = 4 /\ v.stage = 5 /\ v.ended
  BY <1>1, <1>3, <1>8
<1>12. Pipeline(cmds', toEngine', Tail(fromEngine)) /\ Len(toEngine') <= Len(toEngine) + 1
  BY ONLY <1>2, <1>8, <1>9, <1>10, <1>11, NrtStage
<1>13. /\ Len(cmds') = Len(cmds) /\ cmds'[c] = v
       /\ \A d \in 1..Len(cmds) : d # c => cmds'[d] = cmds[d]
       /\ \A d \in 1..Len(cmds) : cmds[d].stage > cmds[c].stage => d < c
  BY ONLY <1>2, <1>8, <1>9, <1>10, <1>11, NrtStage
<1>14. /\ c \in Carried(fromEngine) /\ c \notin Third
       /\ Carried(Tail(fromEngine)) = Carried(fromEngine) \ {c}
  BY ONLY <1>2, <1>8, <1>9, <1>10, <1>11, NrtStage DEF Third
<1>15. v.ended => Third' = Third
  BY ONLY <1>2, <1>8, <1>9, <1>10, <1>11, NrtStage DEF Third
<1>16. ~v.ended => \A d \in Third : d < c
  BY ONLY <1>2, <1>8, <1>9, <1>10, <1>11, NrtStage DEF Third
<1>17. ~v.ended => Third \subseteq Third'
  BY ONLY <1>2, <1>8, <1>9, <1>10, <1>11, NrtStage DEF Third
<1>18. ~v.ended => Third' \subseteq Third \cup {c}
  BY ONLY <1>2, <1>8, <1>9, <1>10, <1>11, NrtStage DEF Third
<1>19. ~v.ended /\ Len(toEngine) < FifoSize => c \in Third'
  BY ONLY <1>2, <1>8, <1>9, <1>10, <1>11, NrtStage DEF Third
<1>20. Len(fromEngine') = Len(fromEngine) - 1 /\ Len(fromEngine) \in Nat
  BY <1>1, <1>2, TailIs DEF Pipeline
<1>21. /\ blocks' \in Nat /\ blocks <= blocks' /\ r.new \subseteq 1..blocks' /\ memory' \subseteq 1..blocks'
  <2>1. blocks \in Nat /\ memory \subseteq 1..blocks
    BY DEF IndInv, Types
  <2>2. CASE r.new = {}
    <3>1. Cardinality(r.new) = 0
      BY <2>2, FS_EmptySet
    <3> QED
      BY <1>5, <2>1, <2>2, <3>1
  <2>3. CASE r.new = {blocks + 1}
    <3>1. Cardinality(r.new) = 1
      BY <2>3, FS_Singleton
    <3>2. blocks' = blocks + 1
      BY <1>5, <3>1
    <3>3. 1..blocks \subseteq 1..(blocks + 1) /\ blocks + 1 \in 1..(blocks + 1)
      BY <2>1
    <3>4. memory' = memory \cup {blocks + 1}
      BY <1>5, <2>3
    <3> HIDE DEF v
    <3>5. r.new \subseteq 1..(blocks + 1) /\ memory' \subseteq 1..(blocks + 1)
      BY <2>1, <2>3, <3>3, <3>4
    <3> QED
      BY <2>1, <3>2, <3>5
  <2> QED
    BY <1>6, <2>2, <2>3 DEF Leaves2
<1>22. IndInv'
  <2>1. Types'
    BY <1>1, <1>5, <1>7, <1>21 DEF IndInv, Types
  <2>2. Pipeline(cmds', toEngine', fromEngine')
    BY <1>1, <1>12
  <2> QED
    BY <2>1, <2>2 DEF IndInv
<1>23. c \in Second /\ \A d \in Ids : cmds[d].stage > 2 => d < c
  BY <1>3, <1>13, <1>14 DEF Second, Ids
<1>24. /\ Kept(cmds'[c], cmds[c]) /\ Carries(cmds'[c], r.snd, r.free)
       /\ cmds'[c].stage = 3 /\ (cmds'[c].ended <=> ~r.more)
  <2>1. v.snd = r.snd /\ v.free = r.free
    BY <1>4 DEF v, Commands
  <2> QED
    BY <1>8, <1>13, <2>1 DEF Kept, Carries
<1>25. v.ended <=> ~r.more
  BY <1>8
<1>26. /\ Len(cmds') = Len(cmds) /\ \A d \in Ids : d # c => cmds'[d] = cmds[d]
       /\ Carried(fromEngine') = Carried(fromEngine) \ {c}
       /\ nrtBuf' = r.buf /\ memory' = memory \cup r.new
       /\ c \in Ids /\ c \notin Third
  BY <1>1, <1>3, <1>5, <1>13, <1>14 DEF Ids
<1> WITNESS r \in Stage2(cmds[c])
<1> QED
  BY ONLY <1>1, <1>12, <1>15, <1>16, <1>17, <1>18, <1>19, <1>20, <1>21, <1>22, <1>23, <1>24, <1>25, <1>26

\* The fourth stage.
LEMMA CallStage4Is ==
  ASSUME IndInv, PerformFromEngine, NEW c, c = Head(fromEngine).cmd, cmds[c].stage # 2
  PROVE  /\ IndInv' /\ c \in Fourth /\ c \in Ids /\ cmds[c].stage = 4 /\ Third' = Third
         /\ Len(cmds') = Len(cmds) /\ \A d \in Ids : d # c => cmds'[d] = cmds[d]
         /\ Kept(cmds'[c], cmds[c]) /\ Carries(cmds'[c], cmds[c].snd, cmds[c].free)
         /\ cmds'[c].stage = 5 /\ cmds'[c].ended
         /\ memory' = memory \ {cmds[c].free}
         /\ Carried(fromEngine') = Carried(fromEngine) \ {c}
         /\ UNCHANGED <<sent, osc, rtBuf, nrtBuf, blocks>> /\ unfreed' = unfreed + 1
         /\ Len(toEngine') <= Len(toEngine) + 1
         /\ Len(fromEngine') = Len(fromEngine) - 1 /\ Len(fromEngine) \in Nat
<1>1. /\ fromEngine # << >> /\ fromEngine' = Tail(fromEngine) /\ unfreed' = unfreed + 1
      /\ memory' = memory \ {cmds[c].free}
      /\ cmds' = [cmds EXCEPT ![c].stage = 5, ![c].ended = TRUE]
      /\ toEngine' = Write(toEngine, 0, AfterNrtStage(c, FALSE))
      /\ UNCHANGED <<sent, osc, rtBuf, nrtBuf, blocks>>
  BY DEF PerformFromEngine, CallStage4
<1>2. Pipeline(cmds, toEngine, fromEngine)
  BY DEF IndInv
<1>3. c \in Ids /\ cmds[c].stage = 4
  BY <1>1, <1>2, TakeFrom DEF Ids
<1>4. cmds[c] \in Commands
  BY <1>3, CommandIs
<1> DEFINE v == [cmds[c] EXCEPT !.stage = 5, !.ended = TRUE]
<1>8. /\ v \in Commands /\ v.kind = cmds[c].kind /\ v.then = cmds[c].then /\ v.alive = cmds[c].alive
      /\ v.stage = 5 /\ v.ended /\ (~v.ended) = FALSE
  <2> DEFINE w == [cmds[c] EXCEPT !.stage = 5]
  <2>1. w \in Commands /\ w.kind = cmds[c].kind /\ w.then = cmds[c].then /\ w.alive = cmds[c].alive /\ w.stage = 5
    BY <1>4 DEF Commands
  <2>2. v = [w EXCEPT !.ended = TRUE]
    OBVIOUS
  <2> HIDE DEF v, w
  <2> QED
    BY <2>1, <2>2 DEF Commands
<1>9. cmds' = Changed(cmds, c, v)
  BY <1>1 DEF Changed
<1> HIDE DEF v
<1>10. toEngine' = Write(toEngine, 0, AfterNrtStage(c, ~v.ended))
  BY <1>1, <1>8
<1>11. /\ fromEngine # << >> /\ c = Head(fromEngine).cmd
       /\ \/ cmds[c].stage = 2 /\ v.stage = 3 /\ (v.kind = "sync" => ~v.ended)
          \/ cmds[c].stage = 4 /\ v.stage = 5 /\ v.ended
  BY <1>1, <1>3, <1>8
<1>12. Pipeline(cmds', toEngine', Tail(fromEngine)) /\ Len(toEngine') <= Len(toEngine) + 1
  BY ONLY <1>2, <1>8, <1>9, <1>10, <1>11, NrtStage
<1>13. /\ Len(cmds') = Len(cmds) /\ cmds'[c] = v
       /\ \A d \in 1..Len(cmds) : d # c => cmds'[d] = cmds[d]
  BY ONLY <1>2, <1>8, <1>9, <1>10, <1>11, NrtStage
<1>14. /\ c \in Carried(fromEngine)
       /\ Carried(Tail(fromEngine)) = Carried(fromEngine) \ {c}
  BY ONLY <1>2, <1>8, <1>9, <1>10, <1>11, NrtStage
<1>15. v.ended => Third' = Third
  BY ONLY <1>2, <1>8, <1>9, <1>10, <1>11, NrtStage DEF Third
<1>20. Len(fromEngine') = Len(fromEngine) - 1 /\ Len(fromEngine) \in Nat
  BY <1>1, <1>2, TailIs DEF Pipeline
<1>22. IndInv'
  <2>1. Types'
    BY <1>1 DEF IndInv, Types
  <2>2. Pipeline(cmds', toEngine', fromEngine')
    BY <1>1, <1>12
  <2> QED
    BY <2>1, <2>2 DEF IndInv
<1>23. /\ Kept(cmds'[c], cmds[c]) /\ Carries(cmds'[c], cmds[c].snd, cmds[c].free)
       /\ cmds'[c].stage = 5 /\ cmds'[c].ended
  <2>1. v.snd = cmds[c].snd /\ v.free = cmds[c].free
    BY <1>4 DEF v, Commands
  <2> QED
    BY <1>8, <1>13, <2>1 DEF Kept, Carries
<1> QED
  BY <1>1, <1>3, <1>8, <1>12, <1>13, <1>14, <1>15, <1>20, <1>22, <1>23 DEF Fourth, Ids

-----------------------------------------------------------------------------
(* The steps, and the invariant of the fifos.                              *)

\* The steps that move no command.
Moves ==
  /\ UNCHANGED <<toEngine, fromEngine, cmds, rtBuf, nrtBuf, memory, blocks>>
  /\ \/ sent < MaxPackets /\ sent' = sent + 1 /\ osc' \in Seq(Packets) /\ Len(osc') <= Len(osc) + 1
        /\ unfreed' = unfreed
     \/ UNCHANGED <<sent, osc>> /\ unfreed' \in {0, unfreed}

Performs(op) == PerformToEngine /\ Head(toEngine).op = op

Runs2 == PerformFromEngine /\ cmds[Head(fromEngine).cmd].stage = 2

Runs4 == PerformFromEngine /\ cmds[Head(fromEngine).cmd].stage # 2

Steps ==
  Moves \/ PerformPacket \/ Performs("do") \/ (PerformToEngine /\ Head(toEngine).op # "do") \/ Runs2 \/ Runs4

\* The steps of the program, each with what it does to the commands.
LEMMA NextIs ==
  ASSUME Types, [Next]_vars
  PROVE  Steps
<1>1. ASSUME NEW k \in Kinds, NEW t \in CompletionKinds \cup {"none"}, ProcessOSCPacket(k, t)
      PROVE  Moves
  <2>1. osc \in Seq(Packets)
    BY DEF Types
  <2> DEFINE p == [kind |-> k, then |-> t]
  <2>2. p \in Packets
    BY SequencedCommandsAssumption DEF Packets
  <2>3. Write(osc, 0, p) \in Seq(Packets) /\ Len(Write(osc, 0, p)) <= Len(osc) + 1
    <3> HIDE DEF p
    <3> QED
      BY <2>1, <2>2 DEF Write
  <2> QED
    BY <1>1, <2>3 DEF ProcessOSCPacket, Moves
<1>2. CASE RunBegin
  BY <1>2 DEF RunBegin, Moves, Steps
<1>3. CASE ToEngineEmpty
  BY <1>3 DEF ToEngineEmpty, Moves, Steps
<1>4. CASE RunEnd
  BY <1>4 DEF RunEnd, Moves, Steps
<1>5. CASE WaitNext
  BY <1>5 DEF WaitNext, Moves, Steps
<1>6. CASE FromEngineEmpty
  BY <1>6 DEF FromEngineEmpty, Moves, Steps
<1>7. CASE UNCHANGED vars
  BY <1>7 DEF vars, Moves, Steps
<1>8. CASE PerformPacket \/ PerformToEngine \/ PerformFromEngine
  BY <1>8 DEF Steps, Performs, Runs2, Runs4
<1> QED
  BY <1>1, <1>2, <1>3, <1>4, <1>5, <1>6, <1>7, <1>8 DEF Next, Steps

\* The steps that move no command keep everything in its place.
LEMMA MovesIs ==
  ASSUME IndInv, Moves
  PROVE  IndInv' /\ Third' = Third /\ Second' = Second /\ Fourth' = Fourth /\ Ids' = Ids
<1>1. UNCHANGED <<toEngine, fromEngine, cmds, rtBuf, nrtBuf, memory, blocks>>
  BY DEF Moves
<1>2. Types'
  <2>1. Types
    BY DEF IndInv
  <2>2. sent' \in Nat /\ unfreed' \in Nat /\ osc' \in Seq(Packets)
    BY <2>1 DEF Moves, Types
  <2> QED
    BY <1>1, <2>1, <2>2 DEF Types
<1>3. Pipeline(cmds', toEngine', fromEngine')
  BY <1>1 DEF IndInv
<1> QED
  BY <1>1, <1>2, <1>3 DEF IndInv, Third, Second, Fourth, Ids

\* Every step keeps the commands in their places and their order.
LEMMA Invariance ==
  ASSUME IndInv, [Next]_vars
  PROVE  IndInv'
<1>1. Steps
  BY NextIs DEF IndInv
<1>2. CASE Moves
  BY <1>2, MovesIs
<1>3. CASE PerformPacket
  BY <1>3, PerformPacketIs
<1>4. CASE Performs("do")
  BY <1>4, CallStage3Is DEF Performs
<1>5. CASE PerformToEngine /\ Head(toEngine).op # "do"
  BY <1>5, DeleteIs
<1>6. CASE Runs2
  BY <1>6, CallStage2Is DEF Runs2
<1>7. CASE Runs4
  BY <1>7, CallStage4Is DEF Runs4
<1> QED
  BY <1>1, <1>2, <1>3, <1>4, <1>5, <1>6, <1>7 DEF Steps

\* The program starts with no command.
LEMMA Initially ==
  ASSUME Init
  PROVE  IndInv
<1>1. cmds = << >> /\ toEngine = << >> /\ fromEngine = << >>
  BY DEF Init
<1>2. << >> \in CommandSeqs /\ << >> \in MessageSeqs /\ << >> \in Seq(Packets) /\ Len(<< >>) = 0
  BY DEF CommandSeqs, MessageSeqs
<1>3. SndBuf(Null, 0) \in Buffers
  BY DEF SndBuf, Buffers, Null
<1>4. Types
  BY <1>2, <1>3 DEF Init, Types
<1>5. FromSound(cmds, fromEngine) /\ ToSound(cmds, toEngine) /\ Ends(cmds)
  BY <1>1, <1>2 DEF FromSound, FromPlaced, FromInOrder, FromNotOvertaken, ToSound, ToPlaced, ToInOrder,
                    ToNotOvertaken, Ends
<1> QED
  BY <1>1, <1>2, <1>4, <1>5 DEF IndInv, Pipeline

\* How far the commands are says where they are, and no command overtakes
\* another.
THEOREM Inductive == Spec => []IndInv
<1>1. IndInv /\ [Next]_vars => IndInv'
  BY Invariance
<1> QED
  BY <1>1, Initially, PTL DEF Spec

\* The commands on their way to their fourth stage after a step.
LEMMA FourthIs ==
  ASSUME IndInv
  PROVE  /\ PerformPacket => Fourth' = Fourth
         /\ Performs("do") => Fourth \subseteq Fourth' /\ Fourth' \subseteq Fourth \cup {Head(toEngine).cmd}
         /\ PerformToEngine /\ Head(toEngine).op # "do" => Fourth' = Fourth
         /\ Runs2 => Fourth' = Fourth
         /\ Runs4 => Fourth' = Fourth \ {Head(fromEngine).cmd}
<1>1. \A d \in Carried(fromEngine) : d \in Ids /\ cmds[d].stage \in {2, 4}
  BY PlacesAre
<1>2. Len(cmds) \in Nat /\ \A d \in Ids : d # Len(cmds) + 1
  <2>1. cmds \in CommandSeqs
    BY DEF IndInv, Pipeline
  <2> QED
    BY <2>1 DEF CommandSeqs, Ids
<1>3. ASSUME PerformPacket
      PROVE  Fourth' = Fourth
  <2>1. \A d \in Ids : cmds'[d] = cmds[d]
    BY <1>3, PerformPacketIs
  <2>2. cmds'[Len(cmds) + 1].stage = 2
    BY <1>3, PerformPacketIs
  <2>3. Carried(fromEngine) \subseteq Carried(fromEngine')
    BY <1>3, PerformPacketIs
  <2>4. Carried(fromEngine') \subseteq Carried(fromEngine) \cup {Len(cmds) + 1}
    BY <1>3, PerformPacketIs
  <2> QED
    BY <1>1, <2>1, <2>2, <2>3, <2>4 DEF Fourth
<1>4. ASSUME Performs("do")
      PROVE  Fourth \subseteq Fourth' /\ Fourth' \subseteq Fourth \cup {Head(toEngine).cmd}
  <2> DEFINE c == Head(toEngine).cmd
  <2>0. PerformToEngine /\ Head(toEngine).op = "do"
    BY <1>4 DEF Performs
  <2>1. (\A d \in Ids : d # c => cmds'[d] = cmds[d]) /\ c \notin Carried(fromEngine)
    BY <2>0, CallStage3Is
  <2>2. cmds[c].then # "none" => cmds'[Len(cmds) + 1].stage = 2
    BY <2>0, CallStage3Is
  <2>3. Carried(fromEngine) \subseteq Carried(fromEngine')
    BY <2>0, CallStage3Is
  <2>4. Carried(fromEngine') \subseteq Carried(fromEngine) \cup {c, Len(cmds) + 1}
    BY <2>0, CallStage3Is
  <2>5. cmds[c].then = "none" => Carried(fromEngine') \subseteq Carried(fromEngine) \cup {c}
    BY <2>0, CallStage3Is
  <2> HIDE DEF c
  <2>6. Fourth \subseteq Fourth'
    BY <1>1, <2>1, <2>3 DEF Fourth
  <2>7. Fourth' \subseteq Fourth \cup {c}
    BY <1>1, <2>1, <2>2, <2>4, <2>5 DEF Fourth
  <2> QED
    BY <2>6, <2>7 DEF c
<1>5. ASSUME PerformToEngine, Head(toEngine).op # "do"
      PROVE  Fourth' = Fourth
  <2> DEFINE c == Head(toEngine).cmd
  <2>1. /\ \A d \in Ids : d # c => cmds'[d] = cmds[d]
        /\ c \in Ids /\ cmds[c].stage \in {3, 5} /\ fromEngine' = fromEngine
    <3>1. PerformToEngine /\ Head(toEngine).op # "do" /\ c = Head(toEngine).cmd
      BY <1>5
    <3> HIDE DEF c
    <3> QED
      BY <3>1, DeleteIs
  <2>2. c \notin Carried(fromEngine)
    BY <1>1, <2>1
  <2> QED
    BY <1>1, <2>1, <2>2 DEF Fourth
<1>6. ASSUME Runs2
      PROVE  Fourth' = Fourth
  <2> DEFINE c == Head(fromEngine).cmd
  <2>1. /\ \A d \in Ids : d # c => cmds'[d] = cmds[d]
        /\ cmds[c].stage = 2 /\ Carried(fromEngine') = Carried(fromEngine) \ {c}
    BY <1>6, CallStage2Is DEF Runs2
  <2> QED
    BY <1>1, <2>1 DEF Fourth
<1>7. ASSUME Runs4
      PROVE  Fourth' = Fourth \ {Head(fromEngine).cmd}
  <2> DEFINE c == Head(fromEngine).cmd
  <2>1. /\ \A d \in Ids : d # c => cmds'[d] = cmds[d]
        /\ Carried(fromEngine') = Carried(fromEngine) \ {c}
    <3>1. PerformFromEngine /\ cmds[c].stage # 2 /\ c = Head(fromEngine).cmd
      BY <1>7 DEF Runs4
    <3> HIDE DEF c
    <3> QED
      BY <3>1, CallStage4Is
  <2> QED
    BY <1>1, <2>1 DEF Fourth
<1> QED
  BY <1>3, <1>4, <1>5, <1>6, <1>7

-----------------------------------------------------------------------------
(* No table refers to freed data.                                          *)

\* The steps that change neither the tables nor what the commands bring.
LEMMA DataSame ==
  ASSUME IndInv, DataInv, Third' = Third, Fourth' = Fourth, UNCHANGED <<rtBuf, nrtBuf, memory, blocks>>,
         \A d \in Ids : Kept(cmds'[d], cmds[d]) /\ Carries(cmds'[d], cmds[d].snd, cmds[d].free),
         \A d \in Ids' : d \in Ids \/ cmds'[d].free = Null
  PROVE  DataInv'
<1>1. \A c \in Third : c \in Ids /\ cmds'[c].snd = cmds[c].snd /\ cmds'[c].free = cmds[c].free
                       /\ cmds'[c].kind = cmds[c].kind
  BY PlacesAre DEF Kept, Carries
<1>2. \A c \in Fourth : c \in Ids /\ cmds'[c].free = cmds[c].free
  BY PlacesAre DEF Carries, Fourth
<1>3. Apart'
  <2>1. \A b \in Third : /\ ~(cmds'[b].free # Null /\ cmds'[b].free = nrtBuf.data)
                         /\ \A c \in Third : b <= c => ~(cmds'[b].free # Null /\ cmds'[b].free = cmds'[c].snd.data)
    BY <1>1 DEF DataInv, Apart, Frees
  <2>2. \A b \in Fourth : /\ ~(cmds'[b].free # Null /\ cmds'[b].free = nrtBuf.data)
                          /\ ~(cmds'[b].free # Null /\ cmds'[b].free = rtBuf.data)
                          /\ \A c \in Third : ~(cmds'[b].free # Null /\ cmds'[b].free = cmds'[c].snd.data)
    BY <1>1, <1>2 DEF DataInv, Apart, Frees
  <2> QED
    BY <2>1, <2>2 DEF Apart, Frees
<1>4. Held'
  <2>1. \A c \in Ids' : cmds'[c].free <= blocks
    <3>1. blocks \in Nat
      BY DEF IndInv, Types
    <3>2. \A c \in Ids : cmds'[c].free <= blocks
      BY DEF DataInv, Held, Carries
    <3> QED
      BY <3>1, <3>2 DEF Null
  <2>2. \A c \in Third : Allocated(cmds'[c].snd.data)
    BY <1>1 DEF DataInv, Held
  <2>3. \A c \in Third : cmds'[c].kind \notin Installing => cmds'[c].free = Null
    BY <1>1 DEF DataInv, Held
  <2>4. /\ Allocated(rtBuf.data) /\ Allocated(nrtBuf.data)
        /\ ~MemoryFails /\ nrtBuf.samples > 0 => nrtBuf.data # Null
    BY DEF DataInv, Held
  <2> QED
    BY <2>1, <2>2, <2>3, <2>4 DEF Held, Allocated
<1> QED
  BY <1>3, <1>4 DEF DataInv

\* A value to free is an old block, or none.
LEMMA OldBlocks ==
  ASSUME IndInv, DataInv
  PROVE  /\ blocks \in Nat /\ nrtBuf.data \in 0..blocks /\ rtBuf.data \in 0..blocks
         /\ memory \subseteq 1..blocks
         /\ \A c \in Ids : cmds[c].free \in 0..blocks
         /\ \A c \in Third : cmds[c].snd.data \in 0..blocks
<1>1. blocks \in Nat /\ memory \subseteq 1..blocks
  BY DEF IndInv, Types
<1>2. \A x : Allocated(x) => x \in 0..blocks
  BY <1>1 DEF Allocated, Null
<1>3. \A c \in Ids : cmds[c].free \in Nat
  BY CommandIs
<1> QED
  BY <1>1, <1>2, <1>3 DEF DataInv, Held

\* The second stage frees only what it replaced.
LEMMA DataStage2 ==
  ASSUME IndInv, DataInv, ~EmptyReads, Runs2
  PROVE  DataInv'
<1> DEFINE c == Head(fromEngine).cmd
<1>1. PICK r \in Stage2(cmds[c]) :
         /\ c \in Ids /\ c \notin Third
         /\ Len(cmds') = Len(cmds) /\ \A d \in Ids : d # c => cmds'[d] = cmds[d]
         /\ Kept(cmds'[c], cmds[c]) /\ Carries(cmds'[c], r.snd, r.free)
         /\ nrtBuf' = r.buf /\ memory' = memory \cup r.new
         /\ blocks' \in Nat /\ blocks <= blocks'
         /\ ~r.more => Third' = Third
         /\ r.more => \A d \in Third : d < c
         /\ r.more => Third' \subseteq Third \cup {c}
         /\ rtBuf' = rtBuf
         /\ c \in Second
  BY CallStage2Is DEF Runs2
<1>2. Fourth' = Fourth
  BY FourthIs
<1>3. Leaves2(cmds[c], r) /\ Installs2(cmds[c], r) /\ Keeps2(r)
  <2>1. cmds[c] \in Commands
    BY <1>1, CommandIs
  <2> QED
    BY <2>1, Stage2Is DEF IndInv
<1> HIDE DEF c
<1>4. /\ blocks \in Nat /\ nrtBuf.data \in 0..blocks /\ rtBuf.data \in 0..blocks
      /\ memory \subseteq 1..blocks
      /\ \A d \in Ids : cmds[d].free \in 0..blocks
      /\ \A d \in Third : cmds[d].snd.data \in 0..blocks
  BY OldBlocks
\* The new data of the non-realtime thread is its old data, none or a new block.
<1>5. nrtBuf'.data \in {nrtBuf.data, Null, blocks + 1} /\ (nrtBuf'.data = blocks + 1 => blocks + 1 \in r.new)
  BY <1>1, <1>3, <1>4 DEF Leaves2, Null
<1>6. \A d \in Third : d \in Ids /\ d # c /\ cmds'[d] = cmds[d]
  BY <1>1, PlacesAre
<1>7. \A d \in Fourth : d \in Ids /\ d # c /\ cmds'[d] = cmds[d]
  BY <1>1, PlacesAre DEF Fourth, Second
<1>8. cmds'[c].snd = r.snd /\ cmds'[c].free = r.free /\ cmds'[c].kind = cmds[c].kind
      /\ r.snd.data \in {nrtBuf'.data, Null}
  BY <1>1, <1>3 DEF Carries, Kept, Leaves2
<1>9. \A d \in Third' : d \in Third \/ (d = c /\ r.more)
  BY <1>1
<1>10. Apart'
  <2>1. ASSUME NEW b \in Third'
        PROVE  /\ ~(cmds'[b].free # Null /\ cmds'[b].free = nrtBuf'.data)
               /\ \A d \in Third' : b <= d => ~(cmds'[b].free # Null /\ cmds'[b].free = cmds'[d].snd.data)
    <3>1. CASE b \in Third
      <4>1. /\ cmds'[b].free = cmds[b].free /\ cmds[b].free \in 0..blocks
            /\ ~(cmds[b].free # Null /\ cmds[b].free = nrtBuf.data)
        BY <1>4, <1>6, <3>1 DEF DataInv, Apart, Frees
      <4>2. ~(cmds'[b].free # Null /\ cmds'[b].free = nrtBuf'.data)
        BY <1>4, <1>5, <4>1
      <4>3. ASSUME NEW d \in Third', b <= d
            PROVE  ~(cmds'[b].free # Null /\ cmds'[b].free = cmds'[d].snd.data)
        <5>1. CASE d \in Third
          BY <1>6, <3>1, <4>1, <4>3, <5>1 DEF DataInv, Apart, Frees
        <5>2. CASE d = c
          BY <1>8, <4>2, <5>2
        <5> QED
          BY <1>9, <5>1, <5>2
      <4> QED
        BY <4>2, <4>3
    <3>2. CASE b = c /\ r.more
      <4>1. r.free = Null \/ (r.free \in 0..blocks /\ nrtBuf'.data \in {Null, blocks + 1})
        BY <1>1, <1>3, <1>4, <3>2 DEF Installs2, Leaves2, Null
      <4>2. ~(cmds'[b].free # Null /\ cmds'[b].free = nrtBuf'.data)
        BY <1>4, <1>8, <3>2, <4>1
      <4>3. ASSUME NEW d \in Third', b <= d
            PROVE  d = c
        <5>1. c \in Nat /\ \A x \in Third : x \in Nat /\ x < c
          BY <1>1, <1>6, <3>2, CommandIs
        <5> QED
          BY <1>9, <3>2, <4>3, <5>1
      <4> QED
        BY <1>8, <3>2, <4>2, <4>3
    <3> QED
      BY <1>9, <3>1, <3>2
  <2>2. ASSUME NEW b \in Fourth
        PROVE  /\ ~(cmds'[b].free # Null /\ cmds'[b].free = nrtBuf'.data)
               /\ ~(cmds'[b].free # Null /\ cmds'[b].free = rtBuf'.data)
               /\ \A d \in Third' : ~(cmds'[b].free # Null /\ cmds'[b].free = cmds'[d].snd.data)
    <3>1. /\ cmds'[b].free = cmds[b].free /\ cmds[b].free \in 0..blocks
          /\ ~(cmds[b].free # Null /\ cmds[b].free = nrtBuf.data)
          /\ ~(cmds[b].free # Null /\ cmds[b].free = rtBuf.data)
          /\ \A d \in Third : ~(cmds[b].free # Null /\ cmds[b].free = cmds[d].snd.data)
      BY <1>4, <1>7 DEF DataInv, Apart, Frees
    <3>2. ~(cmds'[b].free # Null /\ cmds'[b].free = nrtBuf'.data)
      BY <1>4, <1>5, <3>1
    <3>3. ASSUME NEW d \in Third'
          PROVE  ~(cmds'[b].free # Null /\ cmds'[b].free = cmds'[d].snd.data)
      <4>1. CASE d \in Third
        BY <1>6, <3>1, <4>1
      <4>2. CASE d = c
        BY <1>8, <3>2, <4>2
      <4> QED
        BY <1>9, <4>1, <4>2
    <3> QED
      BY <1>1, <3>1, <3>2, <3>3
  <2> QED
    BY <1>2, <2>1, <2>2 DEF Apart, Frees
<1>11. Held'
  <2>1. \A x : Allocated(x) => x \in memory' \cup {Null}
    BY <1>1 DEF Allocated
  <2>2. rtBuf'.data \in memory' \cup {Null}
    BY <1>1, <2>1 DEF DataInv, Held
  <2>3. nrtBuf'.data \in memory' \cup {Null}
    BY <1>1, <1>5, <2>1 DEF DataInv, Held
  <2>4. \A d \in Third' : cmds'[d].snd.data \in memory' \cup {Null}
    BY <1>6, <1>8, <1>9, <2>1, <2>3 DEF DataInv, Held
  <2>5. \A d \in Third' : cmds'[d].kind \notin Installing => cmds'[d].free = Null
    <3>1. cmds'[c].kind \notin Installing => cmds'[c].free = Null
      BY <1>3, <1>8 DEF Installs2
    <3> QED
      BY <1>6, <1>9, <3>1 DEF DataInv, Held
  <2>6. \A d \in Ids' : cmds'[d].free <= blocks'
    <3>1. r.free \in 0..blocks
      BY <1>3, <1>4 DEF Leaves2, Null
    <3>2. \A d \in Ids : cmds'[d].free \in 0..blocks
      BY <1>1, <1>4, <1>8, <3>1
    <3> QED
      BY <1>1, <1>4, <3>2 DEF Ids
  <2>7. ~MemoryFails /\ nrtBuf'.samples > 0 => nrtBuf'.data # Null
    <3>1. ASSUME ~MemoryFails
          PROVE  nrtBuf' = nrtBuf \/ nrtBuf' = SndBuf(Null, 0) \/ nrtBuf'.data = blocks + 1
      BY <1>1, <1>3, <3>1 DEF Keeps2, Leaves2
    <3> QED
      BY <1>4, <3>1 DEF DataInv, Held, SndBuf, Null
  <2> QED
    BY <2>2, <2>3, <2>4, <2>5, <2>6, <2>7 DEF Held, Allocated
<1> QED
  BY <1>10, <1>11 DEF DataInv

\* The third stage puts into the callback's table what the command brought, so
\* nothing that is still to be freed is there.
LEMMA DataStage3 ==
  ASSUME IndInv, DataInv, Performs("do")
  PROVE  DataInv'
<1> DEFINE c == Head(toEngine).cmd
<1>0. PerformToEngine /\ Head(toEngine).op = "do" /\ c = Head(toEngine).cmd
  BY DEF Performs
<1>1. Fourth' \subseteq Fourth \cup {c}
  BY FourthIs
<1> HIDE DEF c
<1>2. /\ Third' = Third \ {c} /\ c \in Third /\ c \in Ids
      /\ c \notin Carried(fromEngine)
      /\ Kept(cmds'[c], cmds[c]) /\ Carries(cmds'[c], cmds[c].snd, cmds[c].free)
      /\ rtBuf' = Stage3Buf(cmds[c])
      /\ UNCHANGED <<nrtBuf, memory, blocks>>
  BY <1>0, CallStage3Is
<1>3. \A d \in Third : c <= d
  BY <1>0, CallStage3Is
<1>4. \A d \in Ids : d # c => cmds'[d] = cmds[d]
  BY <1>0, CallStage3Is
<1>5. \A d \in Third : d \in Ids
  BY PlacesAre
<1>6. \A d \in Fourth : d \in Ids /\ d # c
  BY <1>2, PlacesAre DEF Fourth
<1>7. \A d \in Ids : cmds'[d].snd = cmds[d].snd /\ cmds'[d].free = cmds[d].free /\ cmds'[d].kind = cmds[d].kind
  BY <1>2, <1>4 DEF Kept, Carries
<1>8. \A d \in Ids' : d \in Ids \/ cmds'[d].free = Null
  <2>1. cmds[c].then = "none" => Len(cmds') = Len(cmds)
    BY <1>0, CallStage3Is
  <2>2. cmds[c].then # "none" => Len(cmds') = Len(cmds) + 1 /\ cmds'[Len(cmds) + 1].free = Null
    BY <1>0, CallStage3Is
  <2>3. Len(cmds) \in Nat
    BY <1>2, CommandIs
  <2> QED
    BY <2>1, <2>2, <2>3 DEF Ids
\* What the command does not install it does not free.
<1>9. /\ rtBuf'.data \in {rtBuf.data, cmds[c].snd.data, Null}
      /\ rtBuf'.data \in {cmds[c].snd.data, Null} \/ cmds[c].free = Null
  <2>1. cmds[c].kind \notin Installing => cmds[c].free = Null
    BY <1>2 DEF DataInv, Held
  <2>2. cmds[c].kind \in {"alloc", "allocRead", "gen"} => rtBuf' = cmds[c].snd
    BY <1>2 DEF Stage3Buf
  <2>3. cmds[c].kind = "free" => rtBuf'.data = Null
    BY <1>2 DEF Stage3Buf, SndBuf
  <2>4. cmds[c].kind \notin Installing => rtBuf' = rtBuf
    BY <1>2 DEF Stage3Buf, Installing
  <2> QED
    BY <2>1, <2>2, <2>3, <2>4 DEF Installing
<1>10. Apart'
  <2>1. ASSUME NEW b \in Third'
        PROVE  /\ ~(cmds'[b].free # Null /\ cmds'[b].free = nrtBuf'.data)
               /\ \A d \in Third' : b <= d => ~(cmds'[b].free # Null /\ cmds'[b].free = cmds'[d].snd.data)
    BY <1>2, <1>5, <1>7 DEF DataInv, Apart, Frees
  <2>2. ASSUME NEW b \in Fourth, b # c
        PROVE  /\ ~(cmds'[b].free # Null /\ cmds'[b].free = nrtBuf'.data)
               /\ ~(cmds'[b].free # Null /\ cmds'[b].free = rtBuf'.data)
               /\ \A d \in Third' : ~(cmds'[b].free # Null /\ cmds'[b].free = cmds'[d].snd.data)
    <3>1. /\ cmds'[b].free = cmds[b].free
          /\ ~(cmds[b].free # Null /\ cmds[b].free = nrtBuf.data)
          /\ ~(cmds[b].free # Null /\ cmds[b].free = rtBuf.data)
          /\ \A d \in Third : ~(cmds[b].free # Null /\ cmds[b].free = cmds[d].snd.data)
      BY <1>6, <1>7, <2>2 DEF DataInv, Apart, Frees
    <3> QED
      BY <1>2, <1>5, <1>7, <1>9, <3>1
  <2>3. /\ ~(cmds'[c].free # Null /\ cmds'[c].free = nrtBuf'.data)
        /\ ~(cmds'[c].free # Null /\ cmds'[c].free = rtBuf'.data)
        /\ \A d \in Third' : ~(cmds'[c].free # Null /\ cmds'[c].free = cmds'[d].snd.data)
    <3>1. /\ cmds'[c].free = cmds[c].free
          /\ ~(cmds[c].free # Null /\ cmds[c].free = nrtBuf.data)
          /\ \A d \in Third : c <= d => ~(cmds[c].free # Null /\ cmds[c].free = cmds[d].snd.data)
      BY <1>2, <1>7 DEF DataInv, Apart, Frees
    <3>2. \A d \in Third : ~(cmds[c].free # Null /\ cmds[c].free = cmds[d].snd.data)
      BY <1>3, <3>1
    <3> QED
      BY <1>2, <1>5, <1>7, <1>9, <3>1, <3>2
  <2>4. \A b \in Fourth' : b = c \/ (b \in Fourth /\ b # c)
    BY <1>1
  <2> QED
    BY <2>1, <2>2, <2>3, <2>4 DEF Apart, Frees
<1>11. Held'
  <2>1. rtBuf'.data \in memory \cup {Null} /\ nrtBuf'.data \in memory \cup {Null}
    BY <1>2, <1>9 DEF DataInv, Held, Allocated
  <2>2. \A d \in Third' : cmds'[d].snd.data \in memory \cup {Null}
    BY <1>2, <1>5, <1>7 DEF DataInv, Held, Allocated
  <2>3. \A d \in Third' : cmds'[d].kind \notin Installing => cmds'[d].free = Null
    BY <1>2, <1>5, <1>7 DEF DataInv, Held
  <2>4. \A d \in Ids' : cmds'[d].free <= blocks
    <3>1. blocks \in Nat
      BY DEF IndInv, Types
    <3>2. \A d \in Ids : cmds'[d].free <= blocks
      BY <1>7 DEF DataInv, Held
    <3> QED
      BY <1>8, <3>1, <3>2 DEF Null
  <2>5. ~MemoryFails /\ nrtBuf'.samples > 0 => nrtBuf'.data # Null
    BY <1>2 DEF DataInv, Held
  <2> QED
    BY <1>2, <2>1, <2>2, <2>3, <2>4, <2>5 DEF Held, Allocated
<1> QED
  BY <1>10, <1>11 DEF DataInv

\* The fourth stage frees what nothing refers to.
LEMMA DataStage4 ==
  ASSUME IndInv, DataInv, Runs4
  PROVE  DataInv'
<1> DEFINE c == Head(fromEngine).cmd
<1>0. PerformFromEngine /\ cmds[c].stage # 2 /\ c = Head(fromEngine).cmd
  BY DEF Runs4
<1>1. Fourth' = Fourth \ {c}
  BY FourthIs
<1> HIDE DEF c
<1>2. /\ c \in Fourth /\ c \in Ids /\ cmds[c].stage = 4 /\ Third' = Third
      /\ Len(cmds') = Len(cmds) /\ \A d \in Ids : d # c => cmds'[d] = cmds[d]
      /\ Kept(cmds'[c], cmds[c]) /\ Carries(cmds'[c], cmds[c].snd, cmds[c].free)
      /\ memory' = memory \ {cmds[c].free}
      /\ UNCHANGED <<rtBuf, nrtBuf, blocks>>
  BY <1>0, CallStage4Is
<1>3. \A d \in Ids : cmds'[d].snd = cmds[d].snd /\ cmds'[d].free = cmds[d].free /\ cmds'[d].kind = cmds[d].kind
  BY <1>2 DEF Kept, Carries
<1>4. (\A d \in Third : d \in Ids) /\ (\A d \in Fourth : d \in Ids)
  BY PlacesAre DEF Fourth
<1>5. Ids' = Ids
  BY <1>2 DEF Ids
<1>6. Apart'
  <2>1. \A b \in Third' : /\ ~(cmds'[b].free # Null /\ cmds'[b].free = nrtBuf'.data)
                          /\ \A d \in Third' : b <= d => ~(cmds'[b].free # Null /\ cmds'[b].free = cmds'[d].snd.data)
    BY <1>2, <1>3, <1>4 DEF DataInv, Apart, Frees
  <2>2. \A b \in Fourth' : /\ ~(cmds'[b].free # Null /\ cmds'[b].free = nrtBuf'.data)
                           /\ ~(cmds'[b].free # Null /\ cmds'[b].free = rtBuf'.data)
                           /\ \A d \in Third' : ~(cmds'[b].free # Null /\ cmds'[b].free = cmds'[d].snd.data)
    BY <1>1, <1>2, <1>3, <1>4 DEF DataInv, Apart, Frees
  <2> QED
    BY <2>1, <2>2 DEF Apart, Frees
<1>7. Held'
  <2>1. /\ rtBuf.data = Null \/ rtBuf.data # cmds[c].free
        /\ nrtBuf.data = Null \/ nrtBuf.data # cmds[c].free
        /\ \A d \in Third : cmds[d].snd.data = Null \/ cmds[d].snd.data # cmds[c].free
    BY <1>2 DEF DataInv, Apart, Frees
  <2>2. rtBuf'.data \in memory' \cup {Null} /\ nrtBuf'.data \in memory' \cup {Null}
    BY <1>2, <2>1 DEF DataInv, Held, Allocated
  <2>3. \A d \in Third' : cmds'[d].snd.data \in memory' \cup {Null}
    BY <1>2, <1>3, <1>4, <2>1 DEF DataInv, Held, Allocated
  <2>4. \A d \in Third' : cmds'[d].kind \notin Installing => cmds'[d].free = Null
    BY <1>2, <1>3, <1>4 DEF DataInv, Held
  <2>5. \A d \in Ids' : cmds'[d].free <= blocks'
    BY <1>2, <1>3, <1>5 DEF DataInv, Held
  <2>6. ~MemoryFails /\ nrtBuf'.samples > 0 => nrtBuf'.data # Null
    BY <1>2 DEF DataInv, Held
  <2> QED
    BY <2>2, <2>3, <2>4, <2>5, <2>6 DEF Held, Allocated
<1> QED
  BY <1>6, <1>7 DEF DataInv

\* The steps that change neither the tables nor what the commands bring.
LEMMA QuietIs ==
  ASSUME IndInv, Moves \/ PerformPacket \/ (PerformToEngine /\ Head(toEngine).op # "do")
  PROVE  /\ Third' = Third /\ Fourth' = Fourth
         /\ UNCHANGED <<rtBuf, nrtBuf, memory, blocks>>
         /\ \A d \in Ids : Kept(cmds'[d], cmds[d]) /\ Carries(cmds'[d], cmds[d].snd, cmds[d].free)
         /\ \A d \in Ids' : d \in Ids \/ cmds'[d].free = Null
<1>1. CASE Moves
  <2>1. /\ Third' = Third /\ Fourth' = Fourth /\ Ids' = Ids /\ cmds' = cmds
        /\ UNCHANGED <<rtBuf, nrtBuf, memory, blocks>>
    BY <1>1, MovesIs DEF Moves
  <2>2. \A d \in Ids : Kept(cmds[d], cmds[d]) /\ Carries(cmds[d], cmds[d].snd, cmds[d].free)
    BY DEF Kept, Carries
  <2> QED
    BY <2>1, <2>2
<1>2. CASE PerformPacket
  <2>1. Fourth' = Fourth
    BY <1>2, FourthIs
  <2>2. /\ Third' = Third /\ Len(cmds') = Len(cmds) + 1 /\ \A d \in Ids : cmds'[d] = cmds[d]
        /\ cmds'[Len(cmds) + 1].free = Null
        /\ UNCHANGED <<rtBuf, nrtBuf, memory, blocks>>
    BY <1>2, PerformPacketIs
  <2>3. \A d \in Ids : Kept(cmds'[d], cmds[d]) /\ Carries(cmds'[d], cmds[d].snd, cmds[d].free)
    BY <2>2 DEF Kept, Carries
  <2>4. \A d \in Ids' : d \in Ids \/ cmds'[d].free = Null
    <3>1. cmds \in CommandSeqs
      BY DEF IndInv, Pipeline
    <3>2. Len(cmds) \in Nat
      BY <3>1 DEF CommandSeqs
    <3> QED
      BY <2>2, <3>2 DEF Ids
  <2> QED
    BY <2>1, <2>2, <2>3, <2>4
<1>3. CASE PerformToEngine /\ Head(toEngine).op # "do"
  <2> DEFINE c == Head(toEngine).cmd
  <2>0. PerformToEngine /\ Head(toEngine).op # "do" /\ c = Head(toEngine).cmd
    BY <1>3
  <2>1. Fourth' = Fourth
    BY <1>3, FourthIs
  <2> HIDE DEF c
  <2>2. /\ Third' = Third /\ c \in Ids /\ Len(cmds') = Len(cmds)
        /\ Kept(cmds'[c], cmds[c]) /\ Carries(cmds'[c], cmds[c].snd, cmds[c].free)
        /\ \A d \in Ids : d # c => cmds'[d] = cmds[d]
        /\ UNCHANGED <<rtBuf, nrtBuf, memory, blocks>>
    BY <2>0, DeleteIs
  <2>3. \A d \in Ids : Kept(cmds'[d], cmds[d]) /\ Carries(cmds'[d], cmds[d].snd, cmds[d].free)
    BY <2>2 DEF Kept, Carries
  <2>4. Ids' = Ids
    BY <2>2 DEF Ids
  <2> QED
    BY <2>1, <2>2, <2>3, <2>4
<1> QED
  BY <1>1, <1>2, <1>3

\* What the tables refer to is kept by every step.
LEMMA DataKept ==
  ASSUME IndInv, DataInv, ~EmptyReads, [Next]_vars
  PROVE  DataInv'
<1>1. Steps
  BY NextIs DEF IndInv
<1>2. CASE Moves \/ PerformPacket \/ (PerformToEngine /\ Head(toEngine).op # "do")
  BY <1>2, QuietIs, DataSame
<1> QED
  BY <1>1, <1>2, DataStage2, DataStage3, DataStage4 DEF Steps

\* No command, so nothing is on its way.
LEMMA NothingYet ==
  ASSUME Init
  PROVE  Ids = {} /\ Third = {} /\ Second = {} /\ Fourth = {}
<1>1. cmds = << >> /\ toEngine = << >> /\ fromEngine = << >> /\ Len(<< >>) = 0
  BY DEF Init
<1>2. Carried(fromEngine) = {}
  BY <1>1 DEF Carried
<1>3. ToThird(toEngine) = {}
  BY <1>1 DEF ToThird
<1> QED
  BY <1>1, <1>2, <1>3 DEF Ids, Third, Second, Fourth

\* The program starts with no data.
LEMMA DataInitially ==
  ASSUME Init
  PROVE  DataInv
<1>1. Ids = {} /\ Third = {} /\ Fourth = {}
  BY NothingYet
<1>2. rtBuf.data = Null /\ nrtBuf.data = Null /\ nrtBuf.samples = 0
  BY DEF Init, SndBuf
<1> QED
  BY <1>1, <1>2 DEF DataInv, Apart, Held, Allocated

\* The tables, and the commands on their way, refer to allocated data only,
\* unless a read of no frames keeps the data it frees.
THEOREM DataIsHeld ==
  ASSUME ~EmptyReads
  PROVE  Spec => [](IndInv /\ DataInv)
<1>1. Init => IndInv /\ DataInv
  BY Initially, DataInitially
<1>2. IndInv /\ DataInv /\ [Next]_vars => IndInv' /\ DataInv'
  BY Invariance, DataKept
<1> QED
  BY <1>1, <1>2, PTL DEF Spec

\* Neither table of buffers refers to data that a fourth stage has freed, however
\* many commands for the buffer are on their way and whichever of their messages
\* a full fifo drops; and as long as there is memory, a buffer that has samples
\* has data.
THEOREM NothingDangles ==
  ASSUME ~EmptyReads, ~MemoryFails
  PROVE  Spec => []NoDanglingBuffer
<1>1. IndInv /\ DataInv => NoDanglingBuffer
  BY DEF DataInv, Held, Allocated, NoDanglingBuffer
<1> QED
  BY <1>1, DataIsHeld, PTL

-----------------------------------------------------------------------------
(* What has room is not lost.                                              *)

\* Every command that has not ended is in a fifo.
LEMMA OnTheWayKept ==
  ASSUME IndInv, OnTheWay, NotFull, [Next]_vars
  PROVE  OnTheWay'
<1> DEFINE There(d) == /\ cmds'[d].stage \in {2, 4} => d \in Carried(fromEngine')
                       /\ cmds'[d].stage = 3 /\ ~cmds'[d].ended => d \in Third'
<1>0. /\ Len(cmds) \in Nat /\ Len(toEngine) < FifoSize
      /\ Len(fromEngine) + unfreed + 1 < FifoSize
      /\ Len(fromEngine) + unfreed < FifoSize
  <2>1. cmds \in CommandSeqs /\ fromEngine \in MessageSeqs /\ unfreed \in Nat
    BY DEF IndInv, Pipeline, Types
  <2>2. Len(cmds) \in Nat /\ Len(fromEngine) \in Nat
    BY <2>1 DEF CommandSeqs, MessageSeqs
  <2> QED
    BY <2>1, <2>2, SequencedCommandsAssumption DEF NotFull
<1>1. SUFFICES \A d \in Ids' : There(d)
  BY DEF OnTheWay
<1>2. CASE Moves
  <2>1. Ids' = Ids /\ Third' = Third /\ cmds' = cmds /\ fromEngine' = fromEngine
    BY <1>2, MovesIs DEF Moves
  <2> QED
    BY <2>1 DEF OnTheWay
<1>3. CASE PerformPacket
  <2>1. /\ Third' = Third /\ Len(cmds') = Len(cmds) + 1
        /\ cmds'[Len(cmds) + 1].stage = 2 /\ Len(cmds) + 1 \in Carried(fromEngine')
    BY <1>0, <1>3, PerformPacketIs
  <2>2. \A d \in Ids : cmds'[d] = cmds[d]
    BY <1>3, PerformPacketIs
  <2>3. Carried(fromEngine) \subseteq Carried(fromEngine')
    BY <1>3, PerformPacketIs
  <2>4. \A d \in Ids : There(d)
    BY <2>1, <2>2, <2>3 DEF OnTheWay
  <2>5. \A d \in Ids' : d \in Ids \/ d = Len(cmds) + 1
    BY <1>0, <2>1 DEF Ids
  <2> QED
    BY <2>1, <2>4, <2>5
<1>4. CASE Performs("do")
  <2> DEFINE c == Head(toEngine).cmd
  <2>0. PerformToEngine /\ Head(toEngine).op = "do" /\ c = Head(toEngine).cmd
    BY <1>4 DEF Performs
  <2> HIDE DEF c
  <2>1. /\ Third' = Third \ {c} /\ cmds'[c].stage = 4 /\ c \in Carried(fromEngine')
    BY <1>0, <2>0, CallStage3Is
  <2>2. \A d \in Ids : d # c => cmds'[d] = cmds[d]
    BY <2>0, CallStage3Is
  <2>3. Carried(fromEngine) \subseteq Carried(fromEngine')
    BY <2>0, CallStage3Is
  <2>4. \A d \in Ids : d # c => There(d)
    BY <2>1, <2>2, <2>3 DEF OnTheWay
  <2>5. There(c)
    BY <2>1
  <2>6. CASE cmds[c].then = "none"
    <3>1. Len(cmds') = Len(cmds)
      BY <2>0, <2>6, CallStage3Is
    <3> QED
      BY <2>4, <2>5, <3>1 DEF Ids
  <2>7. CASE cmds[c].then # "none"
    <3>1. Len(cmds') = Len(cmds) + 1 /\ cmds'[Len(cmds) + 1].stage = 2
      BY <2>0, <2>7, CallStage3Is
    <3>2. Len(cmds) + 1 \in Carried(fromEngine')
      BY <1>0, <2>0, <2>7, CallStage3Is
    <3>3. \A d \in Ids' : d \in Ids \/ d = Len(cmds) + 1
      BY <1>0, <3>1 DEF Ids
    <3> QED
      BY <2>4, <2>5, <3>1, <3>2, <3>3
  <2> QED
    BY <2>6, <2>7
<1>5. CASE PerformToEngine /\ Head(toEngine).op # "do"
  <2> DEFINE c == Head(toEngine).cmd
  <2>0. PerformToEngine /\ Head(toEngine).op # "do" /\ c = Head(toEngine).cmd
    BY <1>5
  <2> HIDE DEF c
  <2>1. /\ Third' = Third /\ cmds[c].stage \in {3, 5} /\ cmds'[c].stage = cmds[c].stage
        /\ cmds'[c].ended /\ Len(cmds') = Len(cmds) /\ fromEngine' = fromEngine
    BY <2>0, DeleteIs
  <2>2. \A d \in Ids : d # c => cmds'[d] = cmds[d]
    BY <2>0, DeleteIs
  <2>3. \A d \in Ids : There(d)
    BY <2>1, <2>2 DEF OnTheWay
  <2> QED
    BY <2>1, <2>3 DEF Ids
<1>6. CASE Runs2
  <2> DEFINE c == Head(fromEngine).cmd
  <2>1. PICK r \in Stage2(cmds[c]) :
          /\ Len(cmds') = Len(cmds) /\ \A d \in Ids : d # c => cmds'[d] = cmds[d]
          /\ cmds'[c].stage = 3 /\ (cmds'[c].ended <=> ~r.more)
          /\ Carried(fromEngine') = Carried(fromEngine) \ {c}
          /\ ~r.more => Third' = Third
          /\ r.more => Third \subseteq Third'
          /\ r.more /\ Len(toEngine) < FifoSize => c \in Third'
    BY <1>6, CallStage2Is DEF Runs2
  <2> HIDE DEF c
  <2>2. Third \subseteq Third'
    BY <2>1
  <2>3. \A d \in Ids : d # c => There(d)
    BY <2>1, <2>2 DEF OnTheWay
  <2>4. There(c)
    BY <1>0, <2>1
  <2> QED
    BY <2>1, <2>3, <2>4 DEF Ids
<1>7. CASE Runs4
  <2> DEFINE c == Head(fromEngine).cmd
  <2>0. PerformFromEngine /\ cmds[c].stage # 2 /\ c = Head(fromEngine).cmd
    BY <1>7 DEF Runs4
  <2> HIDE DEF c
  <2>1. /\ Third' = Third /\ cmds'[c].stage = 5 /\ Len(cmds') = Len(cmds)
        /\ \A d \in Ids : d # c => cmds'[d] = cmds[d]
        /\ Carried(fromEngine') = Carried(fromEngine) \ {c}
    BY <2>0, CallStage4Is
  <2>2. \A d \in Ids : There(d)
    BY <2>1 DEF OnTheWay
  <2> QED
    BY <2>1, <2>2 DEF Ids
<1>8. Steps
  BY NextIs DEF IndInv
<1> QED
  BY <1>2, <1>3, <1>4, <1>5, <1>6, <1>7, <1>8 DEF Steps

\* An ended /sync has been through its fourth stage, and no command overtakes
\* one that is in a fifo.
LEMMA SyncIsLast ==
  ASSUME IndInv, OnTheWay
  PROVE  SyncedAfterAll
<1>1. FromNotOvertaken(cmds, fromEngine) /\ ToNotOvertaken(cmds, toEngine) /\ Ends(cmds)
  BY DEF IndInv, Pipeline, FromSound, ToSound
<1>2. ASSUME NEW c \in Ids, cmds[c].kind = "sync", cmds[c].ended, NEW b \in 1..(c - 1), ~cmds[b].ended
      PROVE  FALSE
  <2>1. b \in Ids /\ b < c /\ c \in Nat /\ cmds[b].stage \in 2..5
    <3>1. b \in Ids /\ b < c /\ c \in Nat
      BY CommandIs DEF Ids
    <3> QED
      BY <3>1, CommandIs
  <2>2. cmds[c].stage = 5 /\ cmds[b].stage # 5
    BY <1>1, <1>2, <2>1 DEF Ends, Ids
  <2>3. CASE cmds[b].stage \in {2, 4}
    <3>1. b \in Carried(fromEngine)
      BY <2>1, <2>3 DEF OnTheWay
    <3>2. PICK i \in 1..Len(fromEngine) : fromEngine[i].cmd = b
      BY <3>1, CarriedIs
    <3>3. c < b
      BY <1>1, <2>1, <2>2, <2>3, <3>2 DEF FromNotOvertaken, Ids
    <3> QED
      BY <2>1, <3>3 DEF Ids
  <2>4. CASE cmds[b].stage = 3
    <3>1. b \in Third
      BY <1>2, <2>1, <2>4 DEF OnTheWay
    <3>2. PICK i \in 1..Len(toEngine) : toEngine[i].op = "do" /\ toEngine[i].cmd = b
      BY <3>1, ThirdIs DEF Third
    <3>3. c < b
      BY <1>1, <2>1, <2>2, <3>2 DEF ToNotOvertaken, Ids
    <3> QED
      BY <2>1, <3>3 DEF Ids
  <2> QED
    BY <2>1, <2>2, <2>3, <2>4
<1> QED
  BY <1>2 DEF SyncedAfterAll, Ids

\* /sync replies after all commands before it have ended: as long as the fifos
\* have room, and whatever the number of the commands.
THEOREM SyncIsHonest == Spec /\ []NotFull => []SyncedAfterAll
<1>1. Init => IndInv /\ OnTheWay
  BY Initially, NothingYet DEF OnTheWay
<1>2. IndInv /\ OnTheWay /\ NotFull /\ [Next]_vars => IndInv' /\ OnTheWay'
  BY Invariance, OnTheWayKept
<1>3. IndInv /\ OnTheWay => SyncedAfterAll
  BY SyncIsLast
<1> QED
  BY <1>1, <1>2, <1>3, PTL DEF Spec

-----------------------------------------------------------------------------
(* Between commands the tables agree and no memory is lost.                *)

\* What a free brings.
Frees2(cmd, r) == cmd.kind = "free" => r.snd = SndBuf(Null, 0)

\* A free brings the null buffer.
LEMMA FreesNothing ==
  ASSUME NEW cmd \in Commands, NEW r \in Stage2(cmd)
  PROVE  Frees2(cmd, r)
<1>1. Results2(cmd, r)
  BY Stage2Of
<1> QED
  BY <1>1 DEF Results2, Stage2Result, Frees2

\* The steps that change neither the tables nor what the commands bring.
LEMMA TablesSame ==
  ASSUME IndInv, Mirrored, Accounted, Third' = Third, Fourth' = Fourth, UNCHANGED <<rtBuf, nrtBuf, memory>>,
         \A d \in Ids : Kept(cmds'[d], cmds[d]) /\ Carries(cmds'[d], cmds[d].snd, cmds[d].free)
  PROVE  Mirrored' /\ Accounted'
<1>1. (\A d \in Third : d \in Ids) /\ (\A d \in Fourth : d \in Ids)
  BY PlacesAre DEF Fourth
<1>2. \A d \in Ids : cmds'[d].snd = cmds[d].snd /\ cmds'[d].free = cmds[d].free /\ cmds'[d].kind = cmds[d].kind
  BY DEF Kept, Carries
<1>3. Installers' = Installers /\ \A d \in Installers : d \in Ids
  BY <1>1, <1>2 DEF Installers
<1>4. Mirrored'
  <2>1. \A c \in Installers' : (\A d \in Installers' : d <= c) => cmds'[c].snd = nrtBuf'
    BY <1>2, <1>3 DEF Mirrored
  <2>2. Installers' = {} => rtBuf' = nrtBuf'
    BY <1>3 DEF Mirrored
  <2>3. \A c \in Third' : cmds'[c].kind = "free" => cmds'[c].snd = SndBuf(Null, 0)
    BY <1>1, <1>2 DEF Mirrored
  <2> QED
    BY <2>1, <2>2, <2>3 DEF Mirrored
<1>5. Accounted'
  <2>1. Owing' = Owing /\ \A d \in Owing : cmds'[d].free = cmds[d].free
    BY <1>1, <1>2 DEF Owing
  <2> QED
    BY <2>1 DEF Accounted, Allocated, Frees
<1> QED
  BY <1>4, <1>5

\* After its second stage the command is the last of those that will change the
\* callback's table, and what it replaced is what it frees.
LEMMA TablesStage2 ==
  ASSUME IndInv, DataInv, Mirrored, Accounted, ~MemoryFails, NotFull, Runs2
  PROVE  Mirrored' /\ Accounted'
<1> DEFINE c == Head(fromEngine).cmd
<1>1. PICK r \in Stage2(cmds[c]) :
         /\ c \in Second /\ c \in Ids /\ c \notin Third
         /\ \A d \in Ids : d # c => cmds'[d] = cmds[d]
         /\ Kept(cmds'[c], cmds[c]) /\ Carries(cmds'[c], r.snd, r.free)
         /\ nrtBuf' = r.buf /\ memory' = memory \cup r.new
         /\ ~r.more => Third' = Third
         /\ r.more => \A d \in Third : d < c
         /\ r.more => Third \subseteq Third'
         /\ r.more => Third' \subseteq Third \cup {c}
         /\ r.more /\ Len(toEngine) < FifoSize => c \in Third'
         /\ rtBuf' = rtBuf
  BY CallStage2Is DEF Runs2
<1>2. Fourth' = Fourth
  BY FourthIs
<1>3. /\ Leaves2(cmds[c], r) /\ Installs2(cmds[c], r) /\ Keeps2(r) /\ Frees2(cmds[c], r)
      /\ cmds[c].kind \in AllKinds /\ c \in Nat
  <2>1. cmds[c] \in Commands /\ cmds[c].kind \in AllKinds /\ c \in Nat
    BY <1>1, CommandIs
  <2> QED
    BY <2>1, Stage2Is, FreesNothing DEF IndInv
<1> HIDE DEF c
<1>4. /\ \A d \in Third : d \in Ids /\ d # c /\ cmds'[d] = cmds[d] /\ d \in Nat
      /\ \A d \in Fourth : d \in Ids /\ d # c /\ cmds'[d] = cmds[d]
  <2>1. \A d \in Third : d \in Ids
    BY PlacesAre
  <2>2. \A d \in Fourth : d \in Ids /\ d # c
    BY <1>1, PlacesAre DEF Fourth, Second
  <2> QED
    BY <1>1, <2>1, <2>2, CommandIs
<1>5. cmds'[c].snd = r.snd /\ cmds'[c].free = r.free /\ cmds'[c].kind = cmds[c].kind
  BY <1>1 DEF Carries, Kept
<1>6. CASE r.more
  <2>1. Third' = Third \cup {c}
    BY <1>1, <1>6 DEF NotFull
  <2>2. Mirrored'
    <3>1. CASE cmds[c].kind \in Installing
      <4>1. Installers' = Installers \cup {c}
        BY <1>4, <1>5, <2>1, <3>1 DEF Installers
      <4>2. cmds'[c].snd = nrtBuf'
        BY <1>1, <1>3, <1>5, <1>6, <3>1 DEF Installs2
      <4>3. ASSUME NEW d \in Installers', \A e \in Installers' : e <= d
            PROVE  d = c
        <5>1. c <= d
          BY <4>1, <4>3
        <5>2. CASE d \in Installers
          BY <1>1, <1>3, <1>4, <1>6, <5>1, <5>2 DEF Installers
        <5> QED
          BY <4>1, <5>2
      <4> QED
        <5>1. \A d \in Third' : cmds'[d].kind = "free" => cmds'[d].snd = SndBuf(Null, 0)
          BY <1>3, <1>4, <1>5, <2>1 DEF Mirrored, Frees2
        <5> QED
          BY <4>1, <4>2, <4>3, <5>1 DEF Mirrored
    <3>2. CASE cmds[c].kind \notin Installing
      <4>1. Installers' = Installers /\ \A d \in Installers : cmds'[d] = cmds[d]
        BY <1>4, <1>5, <2>1, <3>2 DEF Installers
      <4>2. nrtBuf' = nrtBuf /\ rtBuf' = rtBuf
        BY <1>1, <1>3, <3>2 DEF Installs2
      <4>3. \A d \in Third' : cmds'[d].kind = "free" => cmds'[d].snd = SndBuf(Null, 0)
        BY <1>4, <1>5, <2>1, <3>2 DEF Mirrored, Installing
      <4> QED
        BY <4>1, <4>2, <4>3 DEF Mirrored
    <3> QED
      BY <3>1, <3>2
  <2>3. Accounted'
    <3>1. Owing' = Owing \cup {c} /\ \A d \in Owing : d # c /\ cmds'[d] = cmds[d]
      BY <1>2, <1>4, <2>1 DEF Owing
    <3>2. r.free \in {nrtBuf.data, Null} /\ nrtBuf.data \in {r.buf.data, r.free}
          /\ r.new \subseteq {r.buf.data}
      BY <1>3, <1>6 DEF Leaves2, Keeps2
    <3>3. ASSUME NEW x \in memory'
          PROVE  x = nrtBuf'.data \/ \E d \in Owing' : cmds'[d].free = x
      <4>1. CASE x \in memory /\ x # nrtBuf.data
        BY <3>1, <4>1 DEF Accounted
      <4>2. CASE x = nrtBuf.data
        BY <1>1, <1>5, <3>1, <3>2, <4>2
      <4>3. CASE x \in r.new
        BY <1>1, <3>2, <4>3
      <4> QED
        BY <1>1, <3>3, <4>1, <4>2, <4>3
    <3>4. \A d \in Owing' : cmds'[d].free \in memory' \cup {Null}
      <4>1. r.free \in memory' \cup {Null}
        BY <1>1, <3>2 DEF DataInv, Held, Allocated
      <4> QED
        BY <1>1, <1>5, <3>1, <4>1 DEF Accounted, Allocated
    <3>5. \A d \in Owing : ~(cmds[d].free # Null /\ cmds[d].free = nrtBuf.data)
      BY DEF DataInv, Apart, Frees, Owing
    <3>6. \A b, d \in Owing' : b # d => ~(cmds'[b].free # Null /\ cmds'[b].free = cmds'[d].free)
      BY <1>5, <3>1, <3>2, <3>5 DEF Accounted, Frees
    <3> QED
      BY <3>3, <3>4, <3>6 DEF Accounted, Allocated, Frees
  <2> QED
    BY <2>2, <2>3
<1>7. CASE ~r.more
  <2>1. /\ Third' = Third /\ nrtBuf' = nrtBuf /\ rtBuf' = rtBuf
    BY <1>1, <1>3, <1>7 DEF Keeps2
  <2>2. Installers' = Installers /\ \A d \in Installers : cmds'[d] = cmds[d]
    BY <1>4, <2>1 DEF Installers
  <2>3. Mirrored'
    <3>1. \A d \in Third' : cmds'[d].kind = "free" => cmds'[d].snd = SndBuf(Null, 0)
      BY <1>4, <2>1 DEF Mirrored
    <3> QED
      BY <2>1, <2>2, <3>1 DEF Mirrored
  <2>4. Accounted'
    <3>1. Owing' = Owing /\ \A d \in Owing : cmds'[d] = cmds[d]
      BY <1>2, <1>4, <2>1 DEF Owing
    <3>2. r.new \subseteq {nrtBuf'.data}
      BY <1>1, <1>3 DEF Keeps2
    <3>3. \A x \in memory' : x = nrtBuf'.data \/ \E d \in Owing' : cmds'[d].free = x
      BY <1>1, <2>1, <3>1, <3>2 DEF Accounted
    <3>4. \A d \in Owing' : cmds'[d].free \in memory' \cup {Null}
      BY <1>1, <3>1 DEF Accounted, Allocated
    <3>5. \A b, d \in Owing' : b # d => ~(cmds'[b].free # Null /\ cmds'[b].free = cmds'[d].free)
      BY <3>1 DEF Accounted, Frees
    <3> QED
      BY <3>3, <3>4, <3>5 DEF Accounted, Allocated, Frees
  <2> QED
    BY <2>3, <2>4
<1> QED
  BY <1>6, <1>7

\* The third stage of the last of them makes the tables agree.
LEMMA TablesStage3 ==
  ASSUME IndInv, Mirrored, Accounted, NotFull, Performs("do")
  PROVE  Mirrored' /\ Accounted'
<1> DEFINE c == Head(toEngine).cmd
<1>0. PerformToEngine /\ Head(toEngine).op = "do" /\ c = Head(toEngine).cmd
  BY DEF Performs
<1>1. Fourth \subseteq Fourth' /\ Fourth' \subseteq Fourth \cup {c}
  BY FourthIs
<1> HIDE DEF c
<1>2. /\ Third' = Third \ {c} /\ c \in Third /\ c \in Ids
      /\ Kept(cmds'[c], cmds[c]) /\ Carries(cmds'[c], cmds[c].snd, cmds[c].free)
      /\ rtBuf' = Stage3Buf(cmds[c]) /\ cmds'[c].stage = 4
      /\ UNCHANGED <<nrtBuf, memory, blocks>>
  BY <1>0, CallStage3Is
<1>3. \A d \in Third : c <= d
  BY <1>0, CallStage3Is
<1>4. \A d \in Ids : d # c => cmds'[d] = cmds[d]
  BY <1>0, CallStage3Is
<1>5. (\A d \in Third : d \in Ids) /\ (\A d \in Fourth : d \in Ids)
  BY PlacesAre DEF Fourth
<1>6. \A d \in Ids : cmds'[d].snd = cmds[d].snd /\ cmds'[d].free = cmds[d].free /\ cmds'[d].kind = cmds[d].kind
  BY <1>2, <1>4 DEF Kept, Carries
<1>7. c \in Fourth'
  <2>1. c \in Carried(fromEngine')
    BY <1>0, CallStage3Is DEF NotFull
  <2> QED
    BY <1>2, <2>1 DEF Fourth
<1>8. Installers' = Installers \ {c} /\ \A d \in Installers : d \in Ids
  BY <1>2, <1>5, <1>6 DEF Installers
<1>9. Mirrored'
  <2>1. ASSUME NEW d \in Installers', \A e \in Installers' : e <= d
        PROVE  cmds'[d].snd = nrtBuf'
    <3>1. \A e \in Installers : e <= d
      BY <1>3, <1>8, <2>1 DEF Installers
    <3> QED
      BY <1>2, <1>6, <1>8, <2>1, <3>1 DEF Mirrored
  <2>2. Installers' = {} => rtBuf' = nrtBuf'
    <3>1. CASE cmds[c].kind \in Installing
      <4>1. ASSUME Installers' = {}
            PROVE  cmds[c].snd = nrtBuf
        <5>1. Installers = {c} /\ c <= c
          BY <1>2, <1>3, <1>8, <3>1, <4>1 DEF Installers
        <5> QED
          BY <5>1 DEF Mirrored
      <4>2. rtBuf' = cmds[c].snd
        BY <1>2, <3>1 DEF Stage3Buf, Installing, Mirrored
      <4> QED
        BY <1>2, <4>1, <4>2
    <3>2. CASE cmds[c].kind \notin Installing
      <4>1. Installers' = Installers
        BY <1>8, <3>2 DEF Installers
      <4>2. rtBuf' = rtBuf
        BY <1>2, <3>2 DEF Stage3Buf, Installing
      <4> QED
        BY <1>2, <4>1, <4>2 DEF Mirrored
    <3> QED
      BY <3>1, <3>2
  <2>3. \A d \in Third' : cmds'[d].kind = "free" => cmds'[d].snd = SndBuf(Null, 0)
    BY <1>2, <1>5, <1>6 DEF Mirrored
  <2> QED
    BY <2>1, <2>2, <2>3 DEF Mirrored
<1>10. Accounted'
  <2>1. Owing' = Owing
    BY <1>1, <1>2, <1>7 DEF Owing
  <2>2. \A d \in Owing : cmds'[d].free = cmds[d].free
    BY <1>5, <1>6 DEF Owing
  <2> QED
    BY <1>2, <2>1, <2>2 DEF Accounted, Allocated, Frees
<1> QED
  BY <1>9, <1>10

\* The fourth stage pays what the command owes.
LEMMA TablesStage4 ==
  ASSUME IndInv, Mirrored, Accounted, Runs4
  PROVE  Mirrored' /\ Accounted'
<1> DEFINE c == Head(fromEngine).cmd
<1>0. PerformFromEngine /\ cmds[c].stage # 2 /\ c = Head(fromEngine).cmd
  BY DEF Runs4
<1>1. Fourth' = Fourth \ {c}
  BY FourthIs
<1> HIDE DEF c
<1>2. /\ c \in Fourth /\ c \in Ids /\ cmds[c].stage = 4 /\ Third' = Third
      /\ \A d \in Ids : d # c => cmds'[d] = cmds[d]
      /\ Kept(cmds'[c], cmds[c]) /\ Carries(cmds'[c], cmds[c].snd, cmds[c].free)
      /\ memory' = memory \ {cmds[c].free}
      /\ UNCHANGED <<rtBuf, nrtBuf, blocks>>
  BY <1>0, CallStage4Is
<1>3. (\A d \in Third : d \in Ids /\ cmds[d].stage = 3) /\ (\A d \in Fourth : d \in Ids)
  BY PlacesAre DEF Fourth
<1>4. \A d \in Ids : cmds'[d].snd = cmds[d].snd /\ cmds'[d].free = cmds[d].free /\ cmds'[d].kind = cmds[d].kind
  BY <1>2 DEF Kept, Carries
<1>5. Installers' = Installers /\ \A d \in Installers : d \in Ids
  BY <1>2, <1>3, <1>4 DEF Installers
<1>6. Mirrored'
  <2>1. \A d \in Installers' : (\A e \in Installers' : e <= d) => cmds'[d].snd = nrtBuf'
    BY <1>2, <1>4, <1>5 DEF Mirrored
  <2>2. Installers' = {} => rtBuf' = nrtBuf'
    BY <1>2, <1>5 DEF Mirrored
  <2>3. \A d \in Third' : cmds'[d].kind = "free" => cmds'[d].snd = SndBuf(Null, 0)
    BY <1>2, <1>3, <1>4 DEF Mirrored
  <2> QED
    BY <2>1, <2>2, <2>3 DEF Mirrored
<1>7. Accounted'
  <2>1. Owing' = Owing \ {c} /\ c \in Owing
    BY <1>1, <1>2, <1>3 DEF Owing
  <2>2. \A d \in Owing : cmds'[d].free = cmds[d].free
    BY <1>3, <1>4 DEF Owing
  <2>3. \A x \in memory' : x = nrtBuf'.data \/ \E d \in Owing' : cmds'[d].free = x
    BY <1>2, <2>1, <2>2 DEF Accounted
  <2>4. \A d \in Owing' : cmds'[d].free \in memory' \cup {Null}
    <3>1. \A d \in Owing : d # c => ~(cmds[d].free # Null /\ cmds[d].free = cmds[c].free)
      BY <2>1 DEF Accounted, Frees
    <3> QED
      BY <1>2, <2>1, <2>2, <3>1 DEF Accounted, Allocated
  <2>5. \A b, d \in Owing' : b # d => ~(cmds'[b].free # Null /\ cmds'[b].free = cmds'[d].free)
    BY <2>1, <2>2 DEF Accounted, Frees
  <2> QED
    BY <2>3, <2>4, <2>5 DEF Accounted, Allocated, Frees
<1> QED
  BY <1>6, <1>7

\* The tables are kept by every step.
LEMMA TablesKept ==
  ASSUME IndInv, DataInv, Mirrored, Accounted, ~MemoryFails, NotFull, [Next]_vars
  PROVE  Mirrored' /\ Accounted'
<1>1. Steps
  BY NextIs DEF IndInv
<1>2. CASE Moves \/ PerformPacket \/ (PerformToEngine /\ Head(toEngine).op # "do")
  BY <1>2, QuietIs, TablesSame
<1> QED
  BY <1>1, <1>2, TablesStage2, TablesStage3, TablesStage4 DEF Steps

\* When every command was deleted, none is to change a table or to free anything.
LEMMA QuiescentAgree ==
  ASSUME IndInv, DataInv, Mirrored, Accounted
  PROVE  TablesAgree
<1> SUFFICES ASSUME Quiescent
             PROVE  rtBuf = nrtBuf /\ memory = {rtBuf.data} \ {Null}
  BY DEF TablesAgree
<1>1. \A c \in Ids : cmds[c].ended
  BY DEF Quiescent, IndInv, Pipeline, Ends, Ids
<1>2. Third = {} /\ Fourth = {}
  BY <1>1, PlacesAre DEF Fourth
<1>3. rtBuf = nrtBuf
  BY <1>2 DEF Mirrored, Installers
<1>4. \A x \in memory : x = nrtBuf.data
  BY <1>2 DEF Accounted, Owing
<1>5. nrtBuf.data \in memory \/ nrtBuf.data = Null
  BY DEF DataInv, Held, Allocated
<1>6. Null \notin memory
  BY DEF IndInv, Types, Null
<1> QED
  BY <1>3, <1>4, <1>5, <1>6

\* Between commands the tables agree, and the only block of memory left is the
\* one they refer to: as long as the fifos have room, and there is memory.
THEOREM TablesMeet ==
  ASSUME ~EmptyReads, ~MemoryFails
  PROVE  Spec /\ []NotFull => []TablesAgree
<1>1. Init => Mirrored /\ Accounted
  <2>1. ASSUME Init
        PROVE  Mirrored /\ Accounted
    <3>1. Third = {} /\ Fourth = {} /\ rtBuf = nrtBuf /\ memory = {}
      BY <2>1, NothingYet DEF Init
    <3> QED
      BY <3>1 DEF Mirrored, Installers, Accounted, Owing
  <2> QED
    BY <2>1
<1>2. IndInv /\ DataInv /\ Mirrored /\ Accounted /\ NotFull /\ [Next]_vars => Mirrored' /\ Accounted'
  BY TablesKept
<1>3. IndInv /\ DataInv /\ Mirrored /\ Accounted => TablesAgree
  BY QuiescentAgree
<1>4. Spec => []IndInv /\ []DataInv
  BY DataIsHeld, PTL
<1> QED
  BY <1>1, <1>2, <1>3, <1>4, PTL DEF Spec

-----------------------------------------------------------------------------
(* How much room is enough.  Each packet makes a command and at most one   *)
(* completion command, and each command goes through fromEngine twice.     *)

Roomy == 4 * MaxPackets + 1 < FifoSize

\* Those that were sent to their fourth stage, those that were sent to the
\* callback, and those whose completion message has not been performed.
Passed == {c \in Ids : cmds[c].stage > 3}

Returned == {c \in Ids : cmds[c].stage \in {3, 5}}

Completing == {c \in Ids : cmds[c].stage <= 3 /\ cmds[c].then # "none"}

Room ==
  /\ Len(fromEngine) + unfreed <= Len(cmds) + Cardinality(Passed)
  /\ Len(toEngine) <= Cardinality(Returned)
  /\ Len(cmds) + Len(osc) + Len(osc) + Cardinality(Completing) <= sent + sent
  /\ sent <= MaxPackets

\* How many commands there are in a set of them.
LEMMA Counts ==
  ASSUME NEW n \in Nat, NEW S, S \subseteq 1..n
  PROVE  /\ Cardinality(S) \in Nat /\ Cardinality(S) <= n
         /\ \A x : Cardinality(S \cup {x}) \in Nat /\ Cardinality(S \cup {x}) <= Cardinality(S) + 1
         /\ \A x : x \notin S => Cardinality(S \cup {x}) = Cardinality(S) + 1
         /\ \A x \in S : Cardinality(S \ {x}) = Cardinality(S) - 1
<1>1. IsFiniteSet(1..n) /\ Cardinality(1..n) = n
  BY FS_Interval
<1>2. IsFiniteSet(S) /\ Cardinality(S) <= n
  BY <1>1, FS_Subset
<1>3. Cardinality(S) \in Nat
  BY <1>2, FS_CardinalityType
<1>4. \A x : Cardinality(S \cup {x}) = IF x \in S THEN Cardinality(S) ELSE Cardinality(S) + 1
  BY <1>2, FS_AddElement
<1>5. \A x : Cardinality(S \ {x}) = IF x \in S THEN Cardinality(S) - 1 ELSE Cardinality(S)
  BY <1>2, FS_RemoveElement
<1> QED
  BY <1>2, <1>3, <1>4, <1>5

\* The lengths and the counts are numbers.
LEMMA Numbers ==
  ASSUME IndInv
  PROVE  /\ Len(cmds) \in Nat /\ Len(fromEngine) \in Nat /\ Len(toEngine) \in Nat /\ Len(osc) \in Nat
         /\ sent \in Nat /\ unfreed \in Nat
         /\ Cardinality(Passed) \in Nat /\ Cardinality(Passed) <= Len(cmds)
         /\ Cardinality(Returned) \in Nat /\ Cardinality(Returned) <= Len(cmds)
         /\ Cardinality(Completing) \in Nat
         /\ Passed \subseteq 1..Len(cmds) /\ Returned \subseteq 1..Len(cmds) /\ Completing \subseteq 1..Len(cmds)
<1>1. /\ cmds \in CommandSeqs /\ fromEngine \in MessageSeqs /\ toEngine \in MessageSeqs
      /\ osc \in Seq(Packets) /\ sent \in Nat /\ unfreed \in Nat
  BY DEF IndInv, Pipeline, Types
<1>2. Len(cmds) \in Nat /\ Len(fromEngine) \in Nat /\ Len(toEngine) \in Nat /\ Len(osc) \in Nat
  BY <1>1 DEF CommandSeqs, MessageSeqs
<1>3. Passed \subseteq 1..Len(cmds) /\ Returned \subseteq 1..Len(cmds) /\ Completing \subseteq 1..Len(cmds)
  BY DEF Passed, Returned, Completing, Ids
<1> QED
  BY <1>1, <1>2, <1>3, Counts

\* A command that changes no stage changes no count.
LEMMA SameCounts ==
  ASSUME IndInv, Ids' = Ids, \A d \in Ids : cmds'[d].stage = cmds[d].stage /\ cmds'[d].then = cmds[d].then
  PROVE  Passed' = Passed /\ Returned' = Returned /\ Completing' = Completing
  BY DEF Passed, Returned, Completing

\* A command for each packet.
LEMMA RoomForPacket ==
  ASSUME IndInv, Room, PerformPacket
  PROVE  Room'
<1> DEFINE N == Len(cmds) + 1
<1>1. /\ Len(cmds') = N /\ \A d \in Ids : cmds'[d] = cmds[d]
      /\ cmds'[N].stage = 2 /\ Len(fromEngine') <= Len(fromEngine) + 1
      /\ UNCHANGED <<sent, toEngine, unfreed>>
      /\ Len(osc') = Len(osc) - 1 /\ Len(osc) \in Nat \ {0} /\ IndInv'
  BY PerformPacketIs
<1>2. /\ Len(cmds) \in Nat /\ Len(fromEngine) \in Nat /\ Len(toEngine) \in Nat
      /\ sent \in Nat /\ unfreed \in Nat
      /\ Cardinality(Passed) \in Nat /\ Cardinality(Returned) \in Nat /\ Cardinality(Completing) \in Nat
      /\ Completing \subseteq 1..Len(cmds)
  BY Numbers
<1>3. Ids' = Ids \cup {N} /\ N \notin Ids
  BY <1>1, <1>2 DEF Ids
<1>30. Len(fromEngine') \in Nat
  <2>1. fromEngine' \in MessageSeqs
    BY <1>1 DEF IndInv, Pipeline
  <2> QED
    BY <2>1 DEF MessageSeqs
<1> HIDE DEF N
<1>4. Passed' = Passed /\ Returned' = Returned
  BY <1>1, <1>3 DEF Passed, Returned
<1>5. Completing' = Completing \/ Completing' = Completing \cup {N}
  BY <1>1, <1>3 DEF Completing
<1>6. /\ Cardinality(Completing \cup {N}) \in Nat
      /\ Cardinality(Completing \cup {N}) <= Cardinality(Completing) + 1
  BY <1>2, Counts
<1>7. Cardinality(Completing') \in Nat /\ Cardinality(Completing') <= Cardinality(Completing) + 1
  <2>1. CASE Completing' = Completing
    BY <1>2, <2>1
  <2>2. CASE Completing' = Completing \cup {N}
    BY <1>6, <2>2
  <2> QED
    BY <1>5, <2>1, <2>2
<1>8. Len(cmds') = Len(cmds) + 1
  BY <1>1 DEF N
<1>9. Cardinality(Passed') = Cardinality(Passed) /\ Cardinality(Returned') = Cardinality(Returned)
  BY <1>4
<1>10. /\ Len(fromEngine') <= Len(fromEngine) + 1 /\ Len(osc') = Len(osc) - 1 /\ Len(osc) \in Nat
       /\ UNCHANGED <<sent, toEngine, unfreed>>
  BY <1>1
<1>11. /\ Len(fromEngine) + unfreed <= Len(cmds) + Cardinality(Passed)
       /\ Len(toEngine) <= Cardinality(Returned)
       /\ Len(cmds) + Len(osc) + Len(osc) + Cardinality(Completing) <= sent + sent
       /\ sent <= MaxPackets
  BY DEF Room
<1>12. Len(fromEngine') + unfreed' <= Len(cmds') + Cardinality(Passed')
  BY ONLY <1>2, <1>30, <1>8, <1>9, <1>10, <1>11
<1>13. Len(toEngine') <= Cardinality(Returned')
  BY ONLY <1>2, <1>9, <1>10, <1>11
<1>14. Len(cmds') + Len(osc') + Len(osc') + Cardinality(Completing') <= sent' + sent'
  <2>1. /\ Len(cmds) \in Nat /\ Len(osc) \in Nat /\ Cardinality(Completing) \in Nat /\ sent \in Nat
        /\ Cardinality(Completing') \in Nat
    BY <1>2, <1>7, <1>10
  <2>2. /\ Len(cmds) + Len(osc) + Len(osc) + Cardinality(Completing) <= sent + sent
        /\ Len(cmds') = Len(cmds) + 1 /\ Len(osc') = Len(osc) - 1
        /\ Cardinality(Completing') <= Cardinality(Completing) + 1 /\ sent' = sent
    BY <1>7, <1>8, <1>10, <1>11
  <2> QED
    BY ONLY <2>1, <2>2
<1>15. sent' <= MaxPackets
  BY ONLY <1>10, <1>11
<1> QED
  BY <1>12, <1>13, <1>14, <1>15 DEF Room

\* A completion command for each command that has one to start.
LEMMA RoomForStage3 ==
  ASSUME IndInv, Room, Performs("do")
  PROVE  Room'
<1> DEFINE c == Head(toEngine).cmd
<1>0. PerformToEngine /\ Head(toEngine).op = "do" /\ c = Head(toEngine).cmd
  BY DEF Performs
<1> HIDE DEF c
<1>1. /\ c \in Ids /\ cmds[c].stage = 3 /\ cmds'[c].stage = 4 /\ Kept(cmds'[c], cmds[c])
      /\ Len(fromEngine') + Len(cmds) <= Len(fromEngine) + 1 + Len(cmds')
      /\ UNCHANGED <<sent, osc, unfreed>>
      /\ Len(toEngine') = Len(toEngine) - 1 /\ IndInv'
  BY <1>0, CallStage3Is
<1>2. \A d \in Ids : d # c => cmds'[d] = cmds[d]
  BY <1>0, CallStage3Is
<1>3. /\ Len(cmds) \in Nat /\ Len(fromEngine) \in Nat /\ Len(toEngine) \in Nat /\ Len(osc) \in Nat
      /\ sent \in Nat /\ unfreed \in Nat
      /\ Cardinality(Passed) \in Nat /\ Cardinality(Returned) \in Nat /\ Cardinality(Completing) \in Nat
      /\ Passed \subseteq 1..Len(cmds) /\ Returned \subseteq 1..Len(cmds) /\ Completing \subseteq 1..Len(cmds)
  BY Numbers
<1>4. Len(fromEngine') \in Nat /\ Len(cmds') \in Nat
  <2>1. fromEngine' \in MessageSeqs /\ cmds' \in CommandSeqs
    BY <1>1 DEF IndInv, Pipeline
  <2> QED
    BY <2>1 DEF MessageSeqs, CommandSeqs
<1>5. c \notin Passed /\ Cardinality(Passed \cup {c}) = Cardinality(Passed) + 1
  <2>1. c \notin Passed
    BY <1>1 DEF Passed
  <2> QED
    BY <1>3, <2>1, Counts
<1>6. c \in Returned /\ Cardinality(Returned \ {c}) = Cardinality(Returned) - 1
  <2>1. c \in Returned
    BY <1>1 DEF Returned
  <2> QED
    BY <1>3, <2>1, Counts
<1>7. CASE cmds[c].then = "none"
  <2>1. Len(cmds') = Len(cmds)
    BY <1>0, <1>7, CallStage3Is
  <2>2. Ids' = Ids
    BY <2>1 DEF Ids
  <2>3. Passed' = Passed \cup {c}
    BY <1>1, <1>2, <2>2 DEF Passed
  <2>4. Returned' = Returned \ {c}
    BY <1>1, <1>2, <2>2 DEF Returned
  <2>5. Completing' = Completing
    BY <1>1, <1>2, <1>7, <2>2 DEF Completing
  <2>6. /\ Cardinality(Passed') = Cardinality(Passed) + 1
        /\ Cardinality(Returned') = Cardinality(Returned) - 1
        /\ Cardinality(Completing') = Cardinality(Completing)
    BY <1>5, <1>6, <2>3, <2>4, <2>5
  <2>7. /\ Len(fromEngine') <= Len(fromEngine) + 1 /\ Len(toEngine') = Len(toEngine) - 1
        /\ UNCHANGED <<sent, osc, unfreed>>
    BY <1>1, <1>3, <1>4, <2>1
  <2>11. /\ Len(fromEngine) + unfreed <= Len(cmds) + Cardinality(Passed)
         /\ Len(toEngine) <= Cardinality(Returned)
         /\ Len(cmds) + Len(osc) + Len(osc) + Cardinality(Completing) <= sent + sent
         /\ sent <= MaxPackets
    BY DEF Room
  <2>12. Len(fromEngine') + unfreed' <= Len(cmds') + Cardinality(Passed')
    <3>1. /\ Len(cmds) \in Nat /\ Len(fromEngine) \in Nat /\ Len(fromEngine') \in Nat
          /\ unfreed \in Nat /\ Cardinality(Passed) \in Nat
      BY <1>3, <1>4
    <3>2. /\ Len(fromEngine) + unfreed <= Len(cmds) + Cardinality(Passed)
          /\ Cardinality(Passed') = Cardinality(Passed) + 1 /\ unfreed' = unfreed
      BY <2>6, <2>7, <2>11
    <3>3. Len(cmds') = Len(cmds) /\ Len(fromEngine') <= Len(fromEngine) + 1
      BY <2>1, <2>7
    <3> QED
      BY ONLY <3>1, <3>2, <3>3
  <2>13. Len(toEngine') <= Cardinality(Returned')
    BY ONLY <1>3, <1>4, <2>1, <2>6, <2>7, <2>11
  <2>14. Len(cmds') + Len(osc') + Len(osc') + Cardinality(Completing') <= sent' + sent'
    BY ONLY <1>3, <1>4, <2>1, <2>6, <2>7, <2>11
  <2>15. sent' <= MaxPackets
    BY ONLY <2>11, <2>7
  <2> QED
    BY <2>12, <2>13, <2>14, <2>15 DEF Room
<1>8. CASE cmds[c].then # "none"
  <2> DEFINE N == Len(cmds) + 1
  <2>1. Len(cmds') = N /\ cmds'[N].stage = 2 /\ cmds'[N].then = "none"
    BY <1>0, <1>8, CallStage3Is
  <2>2. Ids' = Ids \cup {N} /\ N \notin Ids
    BY <1>3, <2>1 DEF Ids
  <2>3. Len(cmds') = Len(cmds) + 1
    BY <2>1
  <2> HIDE DEF N
  <2>4. Passed' = Passed \cup {c}
    BY <1>1, <1>2, <2>1, <2>2 DEF Passed
  <2>5. Returned' = Returned \ {c}
    BY <1>1, <1>2, <2>1, <2>2 DEF Returned
  <2>6. Completing' = Completing \ {c} /\ c \in Completing
    BY <1>1, <1>2, <1>8, <2>1, <2>2 DEF Completing
  <2>7. Cardinality(Completing \ {c}) = Cardinality(Completing) - 1
    BY <1>3, <2>6, Counts
  <2>8. /\ Cardinality(Passed') = Cardinality(Passed) + 1
        /\ Cardinality(Returned') = Cardinality(Returned) - 1
        /\ Cardinality(Completing') = Cardinality(Completing) - 1
    BY <1>5, <1>6, <2>4, <2>5, <2>6, <2>7
  <2>9. /\ Len(fromEngine') <= Len(fromEngine) + 2 /\ Len(toEngine') = Len(toEngine) - 1
        /\ UNCHANGED <<sent, osc, unfreed>>
    BY <1>1, <1>3, <1>4, <2>3
  <2>11. /\ Len(fromEngine) + unfreed <= Len(cmds) + Cardinality(Passed)
         /\ Len(toEngine) <= Cardinality(Returned)
         /\ Len(cmds) + Len(osc) + Len(osc) + Cardinality(Completing) <= sent + sent
         /\ sent <= MaxPackets
    BY DEF Room
  <2>12. Len(fromEngine') + unfreed' <= Len(cmds') + Cardinality(Passed')
    <3>1. /\ Len(cmds) \in Nat /\ Len(fromEngine) \in Nat /\ Len(fromEngine') \in Nat
          /\ unfreed \in Nat /\ Cardinality(Passed) \in Nat
      BY <1>3, <1>4
    <3>2. /\ Len(fromEngine) + unfreed <= Len(cmds) + Cardinality(Passed)
          /\ Cardinality(Passed') = Cardinality(Passed) + 1 /\ unfreed' = unfreed
      BY <2>8, <2>9, <2>11
    <3>3. Len(cmds') = Len(cmds) + 1 /\ Len(fromEngine') <= Len(fromEngine) + 2
      BY <2>3, <2>9
    <3> QED
      BY ONLY <3>1, <3>2, <3>3
  <2>13. Len(toEngine') <= Cardinality(Returned')
    BY ONLY <1>3, <1>4, <2>3, <2>8, <2>9, <2>11
  <2>14. Len(cmds') + Len(osc') + Len(osc') + Cardinality(Completing') <= sent' + sent'
    BY ONLY <1>3, <1>4, <2>3, <2>8, <2>9, <2>11
  <2>15. sent' <= MaxPackets
    BY ONLY <2>11, <2>9
  <2> QED
    BY <2>12, <2>13, <2>14, <2>15 DEF Room
<1> QED
  BY <1>7, <1>8

\* Each command is sent to the callback once after each of its even stages.
LEMMA RoomForNrtStage ==
  ASSUME IndInv, Room, NEW c \in Ids, Ids' = Ids,
         (cmds[c].stage = 2 /\ cmds'[c].stage = 3) \/ (cmds[c].stage = 4 /\ cmds'[c].stage = 5),
         cmds'[c].then = cmds[c].then,
         \A d \in Ids : d # c => cmds'[d] = cmds[d],
         UNCHANGED <<sent, osc>>, unfreed' = unfreed + 1, Len(cmds') = Len(cmds),
         Len(fromEngine') = Len(fromEngine) - 1,
         Len(toEngine') \in Nat, Len(toEngine') <= Len(toEngine) + 1
  PROVE  Room'
<1>1. /\ Len(cmds) \in Nat /\ Len(fromEngine) \in Nat /\ Len(toEngine) \in Nat /\ Len(osc) \in Nat
      /\ sent \in Nat /\ unfreed \in Nat
      /\ Cardinality(Passed) \in Nat /\ Cardinality(Returned) \in Nat /\ Cardinality(Completing) \in Nat
      /\ Returned \subseteq 1..Len(cmds)
  BY Numbers
<1>2. Passed' = Passed /\ Completing' = Completing
  BY DEF Passed, Completing
<1>3. Returned' = Returned \cup {c} /\ c \notin Returned
  BY DEF Returned
<1>4. Cardinality(Returned \cup {c}) = Cardinality(Returned) + 1
  BY <1>1, <1>3, Counts
<1> QED
  BY <1>1, <1>2, <1>3, <1>4 DEF Room

\* The room there was is enough for what is sent.
LEMMA RoomKept ==
  ASSUME IndInv, Room, [Next]_vars
  PROVE  Room'
<1>0. IndInv'
  BY Invariance
<1>1. /\ Len(cmds) \in Nat /\ Len(fromEngine) \in Nat /\ Len(toEngine) \in Nat /\ Len(osc) \in Nat
      /\ sent \in Nat /\ unfreed \in Nat
      /\ Cardinality(Passed) \in Nat /\ Cardinality(Returned) \in Nat /\ Cardinality(Completing) \in Nat
  BY Numbers
<1>2. Len(toEngine') \in Nat /\ Len(osc') \in Nat
  <2>1. toEngine' \in MessageSeqs /\ osc' \in Seq(Packets)
    BY <1>0 DEF IndInv, Pipeline, Types
  <2> QED
    BY <2>1 DEF MessageSeqs
<1>3. CASE Moves
  <2>1. Ids' = Ids /\ cmds' = cmds /\ fromEngine' = fromEngine /\ toEngine' = toEngine
    BY <1>3, MovesIs DEF Moves
  <2>2. Passed' = Passed /\ Returned' = Returned /\ Completing' = Completing
    BY <2>1 DEF Passed, Returned, Completing
  <2>3. unfreed' \in {0, unfreed}
    BY <1>3 DEF Moves
  <2>4. \/ sent < MaxPackets /\ sent' = sent + 1 /\ Len(osc') <= Len(osc) + 1
        \/ sent' = sent /\ osc' = osc
    BY <1>3 DEF Moves
  <2>5. /\ Cardinality(Passed') = Cardinality(Passed)
        /\ Cardinality(Returned') = Cardinality(Returned)
        /\ Cardinality(Completing') = Cardinality(Completing)
        /\ Len(cmds') = Len(cmds) /\ Len(fromEngine') = Len(fromEngine) /\ Len(toEngine') = Len(toEngine)
    BY <2>1, <2>2
  <2>6. Len(fromEngine') + unfreed' <= Len(cmds') + Cardinality(Passed')
    BY <1>1, <2>3, <2>5 DEF Room
  <2>7. /\ Len(cmds') + Len(osc') + Len(osc') + Cardinality(Completing') <= sent' + sent'
        /\ sent' <= MaxPackets
    <3>1. CASE sent < MaxPackets /\ sent' = sent + 1 /\ Len(osc') <= Len(osc) + 1
      BY <1>1, <1>2, <2>5, <3>1, SequencedCommandsAssumption DEF Room
    <3>2. CASE sent' = sent /\ osc' = osc
      BY <1>1, <2>5, <3>2 DEF Room
    <3> QED
      BY <2>4, <3>1, <3>2
  <2> QED
    BY <2>5, <2>6, <2>7 DEF Room
<1>4. CASE PerformToEngine /\ Head(toEngine).op # "do"
  <2> DEFINE c == Head(toEngine).cmd
  <2>0. PerformToEngine /\ Head(toEngine).op # "do" /\ c = Head(toEngine).cmd
    BY <1>4
  <2> HIDE DEF c
  <2>1. /\ c \in Ids /\ Len(cmds') = Len(cmds) /\ Kept(cmds'[c], cmds[c]) /\ cmds'[c].stage = cmds[c].stage
        /\ \A d \in Ids : d # c => cmds'[d] = cmds[d]
        /\ UNCHANGED <<sent, osc, fromEngine, unfreed>>
        /\ Len(toEngine') = Len(toEngine) - 1
    BY <2>0, DeleteIs
  <2>2. \A d \in Ids : cmds'[d].stage = cmds[d].stage /\ cmds'[d].then = cmds[d].then
    BY <2>1 DEF Kept
  <2>3. Ids' = Ids
    BY <2>1 DEF Ids
  <2>4. Passed' = Passed /\ Returned' = Returned /\ Completing' = Completing
    BY <2>2, <2>3, SameCounts
  <2> QED
    BY <1>1, <2>1, <2>4 DEF Room
<1>5. CASE Runs2
  <2> DEFINE c == Head(fromEngine).cmd
  <2>1. /\ c \in Ids /\ cmds'[c].stage = 3 /\ cmds[c].stage = 2 /\ Kept(cmds'[c], cmds[c])
        /\ \A d \in Ids : d # c => cmds'[d] = cmds[d]
        /\ UNCHANGED <<sent, osc>> /\ unfreed' = unfreed + 1 /\ Len(cmds') = Len(cmds)
        /\ Len(fromEngine') = Len(fromEngine) - 1
        /\ Len(toEngine') <= Len(toEngine) + 1
    BY <1>5, CallStage2Is DEF Runs2
  <2> HIDE DEF c
  <2>2. Ids' = Ids /\ cmds'[c].then = cmds[c].then
    BY <2>1 DEF Ids, Kept
  <2>3. Len(toEngine') \in Nat
    BY <1>2
  <2>4. (cmds[c].stage = 2 /\ cmds'[c].stage = 3) \/ (cmds[c].stage = 4 /\ cmds'[c].stage = 5)
    BY <2>1
  <2> QED
    BY ONLY IndInv, Room, <2>1, <2>2, <2>3, <2>4, RoomForNrtStage
<1>6. CASE Runs4
  <2> DEFINE c == Head(fromEngine).cmd
  <2>0. PerformFromEngine /\ cmds[c].stage # 2 /\ c = Head(fromEngine).cmd
    BY <1>6 DEF Runs4
  <2> HIDE DEF c
  <2>1. /\ c \in Ids /\ cmds'[c].stage = 5 /\ cmds[c].stage = 4 /\ Kept(cmds'[c], cmds[c])
        /\ \A d \in Ids : d # c => cmds'[d] = cmds[d]
        /\ UNCHANGED <<sent, osc>> /\ unfreed' = unfreed + 1 /\ Len(cmds') = Len(cmds)
        /\ Len(fromEngine') = Len(fromEngine) - 1
        /\ Len(toEngine') <= Len(toEngine) + 1
    BY <2>0, CallStage4Is
  <2>2. Ids' = Ids /\ cmds'[c].then = cmds[c].then
    BY <2>1 DEF Ids, Kept
  <2>3. Len(toEngine') \in Nat
    BY <1>2
  <2>4. (cmds[c].stage = 2 /\ cmds'[c].stage = 3) \/ (cmds[c].stage = 4 /\ cmds'[c].stage = 5)
    BY <2>1
  <2> QED
    BY ONLY IndInv, Room, <2>1, <2>2, <2>3, <2>4, RoomForNrtStage
<1>7. Steps
  BY NextIs DEF IndInv
<1> QED
  BY <1>3, <1>4, <1>5, <1>6, <1>7, RoomForPacket, RoomForStage3 DEF Steps

\* The fifos are not filled by clients that send no more than a quarter of what
\* a fifo holds, so that NotFull is no more than a bound on the packets.
THEOREM EnoughRoom ==
  ASSUME Roomy
  PROVE  Spec => []NotFull
<1>1. Init => IndInv /\ Room
  <2>1. ASSUME Init
        PROVE  Room
    <3>1. cmds = << >> /\ toEngine = << >> /\ fromEngine = << >> /\ osc = << >> /\ unfreed = 0 /\ sent = 0
      BY <2>1 DEF Init
    <3>2. Passed = {} /\ Returned = {} /\ Completing = {}
      BY <2>1, NothingYet DEF Passed, Returned, Completing
    <3> QED
      BY <3>1, <3>2, FS_EmptySet, SequencedCommandsAssumption DEF Room
  <2> QED
    BY <2>1, Initially
<1>2. IndInv /\ Room /\ [Next]_vars => IndInv' /\ Room'
  BY Invariance, RoomKept
<1>3. IndInv /\ Room => NotFull
  <2> SUFFICES ASSUME IndInv, Room
               PROVE  NotFull
    OBVIOUS
  <2>1. /\ Len(cmds) \in Nat /\ Len(fromEngine) \in Nat /\ Len(toEngine) \in Nat /\ Len(osc) \in Nat
        /\ sent \in Nat /\ unfreed \in Nat /\ Cardinality(Completing) \in Nat
        /\ Cardinality(Passed) \in Nat /\ Cardinality(Passed) <= Len(cmds)
        /\ Cardinality(Returned) \in Nat /\ Cardinality(Returned) <= Len(cmds)
    BY Numbers
  <2> QED
    BY <2>1, SequencedCommandsAssumption DEF Room, Roomy, NotFull
<1> QED
  BY <1>1, <1>2, <1>3, PTL DEF Spec
============================================================================
