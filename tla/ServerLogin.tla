---------------------------- MODULE ServerLogin ----------------------------
(* How the clients of a synthesis server log in and keep track of it       *)
(* (ServerStatus.sc, Server.sc) and what the server does for them          *)
(* (NotifyCmd in SC_SequencedCommand.cpp).  A client polls the server with *)
(* /status, asks for notifications and a client id with /notify when the   *)
(* server has answered, and then sets up its groups.  Messages are UDP     *)
(* packets, which are delayed, overtake each other and get lost; the       *)
(* server can crash and be booted again, and a client can be restarted.    *)
EXTENDS Integers, Sequences, FiniteSets, SequencesExt

CONSTANTS
  Clients,
  NoClient,
  Pings,     \* pingsBeforeConsideredDead
  MaxAsked,  \* bound: more pending responders are not kept
  MaxTasks,  \* bound: more routines are not forked
  Sites      \* how the server is used

Site ==
  [clients : SUBSET Clients,            \* those that run
   owner : Clients \cup {NoClient},     \* who boots and quits the server
   toggling : SUBSET Clients,           \* users switch notifications off and on
   maxLogins : Nat \ {0},              \* of the server
   options : [Clients -> Nat \ {0}],    \* maxLogins in the ServerOptions of each client
   prompt : BOOLEAN,                    \* a round trip is shorter than aliveThreadPeriod
                                        \* and than the time an exit takes to be noticed
   unnoticed : BOOLEAN,                 \* the server may be back before it was missed
   losses : Nat,                        \* bounds on the messages that get lost, the
   restarts : Nat, recompiles : Nat]    \* boots of the server, the restarts of a client

ASSUME ServerLoginAssumption ==
  /\ {Pings, MaxAsked, MaxTasks} \subseteq Nat \ {0}
  /\ NoClient \notin Clients
  /\ \A s \in Sites :
       s \in Site /\ (s.owner # NoClient => s.options[s.owner] = s.maxLogins)

VARIABLES
  site,      \* the site, which never changes
  up,        \* the server process runs
  users,     \* mUsers and mClientIDdict: the ids of the registered clients
  available, \* mAvailableClientIDs
  net,       \* messages on their way
  watcher,   \* the ServerStatusWatcher of each client, with its server's id
  losses, restarts, recompiles

vars == <<site, up, users, available, net, watcher, losses, restarts, recompiles>>

server == <<up, users, available>>
bounds == <<site, losses, restarts, recompiles>>

NoId == -1

ToServer(c, cmd, flag, id) ==
  [to |-> "server", client |-> c, cmd |-> cmd, flag |-> flag, id |-> id]

ToClient(c, cmd, id) == [to |-> "client", client |-> c, cmd |-> cmd, id |-> id]

(* The new ServerStatusWatcher of client c, with its alive thread and      *)
(* status watcher running if poll is not "off".                            *)
NewWatcher(c, poll) ==
  [poll |-> poll,           \* aliveThread: "off", "first" round or "on"
   alive |-> FALSE, notify |-> TRUE, notified |-> FALSE, hasBooted |-> FALSE,
   unresponsive |-> FALSE, reallyDeadCount |-> 0, clientID |-> 0,
   maxNumClients |-> site.options[c],
   asked |-> << >>,         \* responders to /done and /fail that are waiting
   requests |-> {},         \* within a step: the flags of /notify sent
   deferred |-> FALSE,      \* updateRunningState(true) waits for the AppClock
   tasks |-> << >>,         \* routines that prFinalizeBoot and initTree forked
   exited |-> FALSE]        \* the process exited, the callback is due

Fresh == [i \in 1..site.maxLogins |-> i - 1]

Init ==
  /\ site \in Sites
  /\ up = (site.owner = NoClient)
  /\ users = << >> /\ available = Fresh
  /\ net = {}
  /\ watcher = [c \in Clients |->
                  NewWatcher(c, IF c \in site.clients \ {site.owner} THEN "first" ELSE "off")]
  /\ losses = 0 /\ restarts = 0 /\ recompiles = 0

Remote(c) == c # site.owner

ServerRunning(w) == w.hasBooted /\ w.notified

-----------------------------------------------------------------------------
(* The server *)

StatusCmd(m) ==
  /\ up
  /\ m.cmd = "status"
  /\ net' = (net \ {m}) \cup {ToClient(m.client, "status.reply", NoId)}
  /\ UNCHANGED <<users, available, up, watcher, bounds>>

(* popAvailableClientID: the place in mAvailableClientIDs of the id to pop *)
PopAvailableClientID(id) ==
  IF \E i \in 1..Len(available) : available[i] = id
  THEN CHOOSE i \in 1..Len(available) :
         available[i] = id /\ \A j \in 1..(i - 1) : available[j] # id
  ELSE 1

Registered == DOMAIN users

Without(f, c) == [d \in DOMAIN f \ {c} |-> f[d]]

(* Stage2 of /notify 1 *)
NotifyOn(m) ==
  IF m.client \in Registered
  THEN /\ net' = (net \ {m}) \cup {ToClient(m.client, "already", users[m.client])}
       /\ UNCHANGED <<users, available>>
  ELSE IF Cardinality(Registered) >= site.maxLogins
  THEN /\ net' = (net \ {m}) \cup {ToClient(m.client, "many", NoId)}
       /\ UNCHANGED <<users, available>>
  ELSE LET i == PopAvailableClientID(m.id)
           id == available[i]
       IN /\ users' = [d \in Registered \cup {m.client} |->
                         IF d = m.client THEN id ELSE users[d]]
          /\ available' = RemoveAt(available, i)
          /\ net' = (net \ {m}) \cup {ToClient(m.client, "done", id)}

(* Stage2 of /notify 0 *)
NotifyOff(m) ==
  IF m.client \in Registered
  THEN /\ available' = Append(available, users[m.client])
       /\ users' = Without(users, m.client)
       /\ net' = (net \ {m}) \cup {ToClient(m.client, "done", NoId)}
  ELSE /\ net' = (net \ {m}) \cup {ToClient(m.client, "not", NoId)}
       /\ UNCHANGED <<users, available>>

NotifyCmd(m) ==
  /\ up
  /\ m.cmd = "notify"
  /\ IF m.flag THEN NotifyOn(m) ELSE NotifyOff(m)
  /\ UNCHANGED <<up, watcher, bounds>>

Syncing(task) == task \in {"bootSync", "treeSync"}

NotSyncing(tasks) ==
  IF \A i \in DOMAIN tasks : ~Syncing(tasks[i]) THEN tasks
  ELSE SelectSeq(tasks, LAMBDA t : ~Syncing(t))

(* The process ends: routines that wait for an answer to a sync wait for   *)
(* ever, and the client that booted the server learns of the exit.         *)
Exit(all) ==
  [c \in Clients |->
     [all[c] EXCEPT !.tasks = NotSyncing(@),
                    !.exited = @ \/ c = site.owner]]

(* AudioQuitCmd *)
QuitCmd(m) ==
  /\ up
  /\ m.cmd = "quit"
  /\ net' = net \ {m}
  /\ up' = FALSE /\ users' = << >>
  /\ watcher' = Exit(watcher)
  /\ UNCHANGED <<available, bounds>>

Serve(c) ==
  \E m \in net :
    m.to = "server" /\ m.client = c /\ (StatusCmd(m) \/ NotifyCmd(m) \/ QuitCmd(m))

Crash ==
  /\ up /\ restarts < site.restarts
  /\ up' = FALSE /\ users' = << >>
  /\ watcher' = Exit(watcher)
  /\ UNCHANGED <<available, net, bounds>>

(* World_New: nobody is registered and all ids are free. *)
NewWorld ==
  /\ up' = TRUE
  /\ users' = << >> /\ available' = Fresh

(* Somebody boots the server of the remote clients again. *)
Restart ==
  /\ site.owner = NoClient /\ ~up
  /\ restarts < site.restarts
  /\ site.unnoticed \/ \A c \in site.clients : watcher[c].unresponsive
  /\ NewWorld
  /\ restarts' = restarts + 1
  /\ UNCHANGED <<site, net, watcher, losses, recompiles>>

Lose ==
  /\ losses < site.losses /\ losses' = losses + 1
  /\ \E m \in net : net' = net \ {m}
  /\ UNCHANGED <<site, server, watcher, restarts, recompiles>>

(* A message arrives where no server runs. *)
FindNoServer(c) ==
  /\ ~up
  /\ \E m \in net : m.to = "server" /\ m.client = c /\ net' = net \ {m}
  /\ UNCHANGED <<server, watcher, bounds>>

-----------------------------------------------------------------------------
(* The watcher of a client: what methods do to its state.                  *)

(* prSendNotifyRequest(flag, adding), where adding is TRUE, FALSE or, when *)
(* the caller gives no argument, nil.                                      *)
SendNotifyRequest(w, flag, adding) ==
  IF ~w.hasBooted THEN w
  ELSE [w EXCEPT !.requests = {flag},
                 !.asked = IF Len(@) < MaxAsked THEN Append(@, adding) ELSE @]

\* Mutant: a remote client does not ask again when the server is back.
SetUnresponsiveQuietly(w, c, val) ==
  IF val = w.unresponsive THEN w
  ELSE [w EXCEPT !.unresponsive = val]

(* unresponsive_ *)
SetUnresponsive(w, c, val) ==
  IF val = w.unresponsive THEN w
  ELSE LET v == [w EXCEPT !.unresponsive = val]
       IN IF ~Remote(c) THEN v
          ELSE IF val THEN [v EXCEPT !.notified = FALSE]
          ELSE SendNotifyRequest(v, TRUE, "nil")

(* serverRunning_(true) *)
SetServerRunning(w, c) ==
  IF ServerRunning(w) THEN w
  ELSE [SetUnresponsive(w, c, FALSE) EXCEPT !.hasBooted = TRUE]

(* updateRunningState; a count below 0 is kept at 0. *)
UpdateRunningState(w, c, running) ==
  IF running
  THEN [SetUnresponsive(SetServerRunning(w, c), c, FALSE) EXCEPT
          !.reallyDeadCount = Pings]
  ELSE LET n == IF w.reallyDeadCount > 0 THEN w.reallyDeadCount - 1 ELSE 0
       IN [SetUnresponsive(w, c, n <= 0) EXCEPT
             !.reallyDeadCount = n]

(* Client c becomes w and sends the requests that this took; equal         *)
(* messages are one.                                                       *)
Becomes(c, w, others) ==
  /\ watcher' = [watcher EXCEPT ![c] = [w EXCEPT !.requests = {}]]
  /\ net' = others \cup {ToServer(c, "notify", flag, w.clientID) : flag \in w.requests}

-----------------------------------------------------------------------------
(* The watcher of a client: what happens to it                             *)

(* What was sent has been answered, and what is due on the AppClock done. *)
Quiet(c) ==
  /\ \A m \in net : m.client # c
  /\ ~watcher[c].deferred
  /\ \A i \in 1..Len(watcher[c].tasks) : Syncing(watcher[c].tasks[i])

(* A round of the alive thread: the state after the last one, then the     *)
(* next /status.                                                           *)
Poll(c) ==
  LET w == watcher[c]
      v == IF w.poll = "on" THEN UpdateRunningState(w, c, w.alive) ELSE w
  IN /\ w.poll # "off"
     /\ site.prompt => Quiet(c)
     /\ Becomes(c, [v EXCEPT !.alive = FALSE, !.poll = "on"],
                net \cup {ToServer(c, "status", FALSE, NoId)})
     /\ UNCHANGED <<server, bounds>>

Take(m, c, w) ==
  /\ Becomes(c, w, net \ {m})
  /\ UNCHANGED <<server, bounds>>

(* The status watcher; it does not exist while the alive thread is off. *)
StatusReply(m, c) ==
  LET w == watcher[c]
      v == IF w.notify /\ ~w.notified THEN SendNotifyRequest(w, TRUE, "true") ELSE w
  IN /\ m.cmd = "status.reply"
     /\ Take(m, c, IF w.poll = "off" THEN w
                   ELSE [v EXCEPT !.alive = TRUE, !.deferred = TRUE])

(* The responders to /done /notify, in the order in which they were added. *)
(* When there is an id, a first one that was given nil throws an error,    *)
(* and those behind it are not called and stay.                            *)
CalledDone(w, id) ==
  LET bad == {i \in 1..Len(w.asked) : w.asked[i] = "nil"}
  IN IF id = NoId \/ bad = {} THEN Len(w.asked)
     ELSE CHOOSE i \in bad : \A j \in bad : i <= j

(* Each responder that was given TRUE forks the routine of prFinalizeBoot. *)
Fork(tasks, called) ==
  FoldLeft(LAMBDA all, adding : IF adding = "true" /\ Len(all) < MaxTasks
                                THEN Append(all, "boot") ELSE all,
           tasks, called)

(* Server.clientID_, which refuses what is outside its range *)
SetClientID(w, id) ==
  IF ServerRunning(w) \/ id \notin 0..(w.maxNumClients - 1) THEN w
  ELSE [w EXCEPT !.clientID = id]

(* What the called responders to /done make of the client: each of them    *)
(* resets notified and takes the maxLogins and the id of the reply, and    *)
(* one that was given FALSE then sets notified again.  The error that nil  *)
(* throws comes after this.                                                *)
DoneResponders(w, called, id) ==
  LET v == [w EXCEPT !.notified = FALSE]
  IN IF called = << >> THEN w
     ELSE IF id = NoId THEN v
     ELSE [SetClientID([v EXCEPT !.maxNumClients = site.maxLogins], id) EXCEPT
             !.notified = (Last(called) = "false"), !.tasks = Fork(@, called)]

DoneNotify(m, c) ==
  LET w == watcher[c]
      n == CalledDone(w, m.id)
      v == DoneResponders(w, SubSeq(w.asked, 1, n), m.id)
  IN /\ m.cmd = "done"
     /\ Take(m, c, [v EXCEPT !.asked = SubSeq(w.asked, n + 1, Len(w.asked))])

\* Mutant: a client keeps its id when it was registered with another one.
LoginWhenAlreadyRegisteredKeeps(w, id) ==
  [w EXCEPT !.notified = TRUE, !.unresponsive = FALSE]

(* prHandleLoginWhenAlreadyRegistered: this reply has no maxLogins, and a  *)
(* client that refuses the id goes on with the one it had.                 *)
LoginWhenAlreadyRegistered(w, id) ==
  LET v == IF id = w.clientID THEN w
           ELSE SetClientID([w EXCEPT !.notified = FALSE], id)
  IN [v EXCEPT !.notified = TRUE, !.unresponsive = FALSE]

(* The responders to /fail /notify: prHandleNotifyFailString *)
FailNotify(m, c) ==
  LET w == [watcher[c] EXCEPT !.asked = << >>]
  IN /\ m.cmd \in {"already", "many", "not"}
     /\ Take(m, c,
             IF watcher[c].asked = << >> THEN w
             ELSE IF m.cmd = "already" THEN LoginWhenAlreadyRegistered(w, m.id)
             ELSE [w EXCEPT !.notified = FALSE])

Receive(c) ==
  \E m \in net : /\ m.to = "client" /\ m.client = c
                 /\ \/ StatusReply(m, c)
                    \/ DoneNotify(m, c)
                    \/ FailNotify(m, c)

(* The deferred part of the status watcher. *)
Deferred(c) ==
  /\ watcher[c].deferred
  /\ Becomes(c, UpdateRunningState([watcher[c] EXCEPT !.deferred = FALSE], c, TRUE),
             net)
  /\ UNCHANGED <<server, bounds>>

(* A routine goes on: prFinalizeBoot runs ServerBoot and syncs; then it    *)
(* forks initTree and is done.  initTree sends the groups and syncs, then  *)
(* runs ServerTree.  A sync that finds no server is never answered.        *)
Advance(tasks, i) ==
  CASE tasks[i] = "boot" /\ up  -> [tasks EXCEPT ![i] = "bootSync"]
    [] tasks[i] = "bootSync"    -> [tasks EXCEPT ![i] = "tree"]
    [] tasks[i] = "tree" /\ up  -> [tasks EXCEPT ![i] = "treeSync"]
    [] OTHER                    -> RemoveAt(tasks, i)

Task(c, i) ==
  LET w == watcher[c]
  IN /\ i <= Len(w.tasks)
     /\ watcher' = [watcher EXCEPT ![c] =
                      [w EXCEPT !.tasks = Advance(@, i),
                                !.notified = @ \/ w.tasks[i] = "bootSync"]]
     /\ UNCHANGED <<server, net, bounds>>

(* The answer to a sync is lost: the routine waits for ever. *)
TaskHangs(c, i) ==
  LET w == watcher[c]
  IN /\ losses < site.losses /\ losses' = losses + 1
     /\ i <= Len(w.tasks) /\ Syncing(w.tasks[i])
     /\ watcher' = [watcher EXCEPT ![c].tasks = RemoveAt(@, i)]
     /\ UNCHANGED <<site, server, net, restarts, recompiles>>

(* sclang is restarted, or compiles its library: a new watcher at the same *)
(* address.                                                                *)
Recompile(c) ==
  /\ c \in site.clients /\ Remote(c) /\ recompiles < site.recompiles
  /\ recompiles' = recompiles + 1
  /\ watcher' = [watcher EXCEPT ![c] = NewWatcher(c, "first")]
  /\ UNCHANGED <<site, server, net, losses, restarts>>

(* notify_, called by the user *)
Notify(c, flag) ==
  /\ c \in site.toggling /\ watcher[c].notify # flag
  /\ Becomes(c, SendNotifyRequest([watcher[c] EXCEPT !.notify = flag], flag, "false"),
             net)
  /\ UNCHANGED <<server, bounds>>

-----------------------------------------------------------------------------
(* The client that owns the server                                         *)

(* boot, once the process that was there before has exited. *)
Boot ==
  LET w == watcher[site.owner]
  IN /\ site.owner # NoClient
     /\ ~up /\ ~w.exited /\ w.poll = "off"
     /\ restarts < site.restarts
     /\ NewWorld
     /\ restarts' = restarts + 1
     /\ watcher' = [watcher EXCEPT ![site.owner].poll = "first"]
     /\ UNCHANGED <<site, net, losses, recompiles>>

\* Mutant: a server that was quit stays notified.
QuitWatcherKeepsNotified(w) ==
  [w EXCEPT !.poll = "off", !.alive = FALSE, !.unresponsive = FALSE]

(* ServerStatusWatcher.quit *)
QuitWatcher(w) ==
  [w EXCEPT !.poll = "off", !.hasBooted = FALSE, !.alive = FALSE,
            !.notified = FALSE, !.unresponsive = FALSE]

(* quit: a server that does not answer is killed. *)
Quit ==
  LET w == watcher[site.owner]
      killed == up /\ w.unresponsive
  IN /\ site.owner # NoClient
     /\ w.poll # "off"
     /\ net' = net \cup {ToServer(site.owner, "quit", FALSE, NoId)}
     /\ up' = (up /\ ~killed)
     /\ users' = IF killed THEN << >> ELSE users
     /\ LET all == [watcher EXCEPT ![site.owner] = QuitWatcher(w)]
        IN watcher' = IF killed THEN Exit(all) ELSE all
     /\ UNCHANGED <<available, bounds>>

(* prOnServerProcessExit *)
OnServerProcessExit ==
  /\ site.owner # NoClient
  /\ watcher[site.owner].exited
  /\ site.prompt => Quiet(site.owner)
  /\ watcher' = [watcher EXCEPT ![site.owner] =
                   [QuitWatcher(@) EXCEPT !.exited = FALSE]]
  /\ UNCHANGED <<server, net, bounds>>

-----------------------------------------------------------------------------
Next ==
  \/ Crash
  \/ Restart
  \/ Lose
  \/ \E c \in Clients : Serve(c)
  \/ \E c \in Clients : FindNoServer(c)
  \/ \E c \in Clients : Receive(c)
  \/ \E c \in Clients : Poll(c)
  \/ \E c \in Clients : Deferred(c)
  \/ \E c \in Clients, i \in 1..MaxTasks : Task(c, i)
  \/ \E c \in Clients, i \in 1..MaxTasks : TaskHangs(c, i)
  \/ \E c \in Clients : Recompile(c)
  \/ \E c \in Clients, flag \in BOOLEAN : Notify(c, flag)
  \/ Boot
  \/ Quit
  \/ OnServerProcessExit

Spec == Init /\ [][Next]_vars

(* The server answers, the clients take what arrives and go on polling,    *)
(* and a message that finds no server is gone.  A server that crashed is   *)
(* booted again.                                                           *)
Fairness ==
  /\ WF_vars(Restart) /\ WF_vars(OnServerProcessExit)
  /\ \A c \in Clients :
       /\ WF_vars(Serve(c)) /\ WF_vars(Receive(c))
       /\ WF_vars(FindNoServer(c))
       /\ WF_vars(Poll(c)) /\ WF_vars(Deferred(c))
       /\ \A i \in 1..MaxTasks : WF_vars(Task(c, i))

FairSpec == Spec /\ Fairness

-----------------------------------------------------------------------------
TypeOK ==
  /\ up \in BOOLEAN
  /\ Registered \subseteq Clients /\ \A c \in Registered : users[c] \in 0..(site.maxLogins - 1)
  /\ available \in Seq(0..(site.maxLogins - 1))
  /\ \A c \in Clients :
       LET w == watcher[c]
       IN /\ {w.alive, w.notify, w.notified, w.hasBooted, w.unresponsive, w.deferred} \subseteq BOOLEAN
          /\ w.reallyDeadCount \in 0..Pings /\ w.clientID \in 0..(site.maxLogins - 1)
          /\ w.maxNumClients \in {site.options[c], site.maxLogins}
          /\ w.asked \in Seq({"true", "false", "nil"}) /\ Len(w.asked) <= MaxAsked
          /\ w.tasks \in Seq({"boot", "bootSync", "tree", "treeSync"})
  /\ losses \in 0..site.losses /\ restarts \in 0..site.restarts

(* NotifyCmd: no two registered clients have one id, and the ids not in    *)
(* use are in mAvailableClientIDs, once each: it is never found empty.     *)
IdsAccounted ==
  up => /\ \A c, d \in Registered : users[c] = users[d] => c = d
        /\ IsInjective(available)
        /\ ToSet(available) = 0..(site.maxLogins - 1) \ {users[c] : c \in Registered}

(* The client's clientID_ refuses no id that the server can give: its own  *)
(* options allow as many logins, or a /done has told it the maxLogins.     *)
TakesAnyId(c) == 0..(site.maxLogins - 1) \subseteq 0..(watcher[c].maxNumClients - 1)

(* The server keeps its ids apart, and clients that take it for running    *)
(* have different ids, and so different node, bus and buffer numbers:      *)
(* NotifyCmd gives the ids, but each client works with what the replies    *)
(* made of its clientID.  Not so a client whose options allow fewer logins *)
(* than the server, until it gets a /done.                                 *)
NoClash ==
  IdsAccounted /\ \A c, d \in Clients :
    /\ TakesAnyId(c) /\ TakesAnyId(d)
    /\ ServerRunning(watcher[c]) /\ ServerRunning(watcher[d])
    /\ watcher[c].clientID = watcher[d].clientID
    => c = d

(* When the process of the server has exited and prOnServerProcessExit was *)
(* called, serverRunning is false: no late answer brings it back.          *)
ExitIsKnown ==
  site.owner # NoClient /\ ~up /\ ~watcher[site.owner].exited => ~ServerRunning(watcher[site.owner])

LoggedIn(c) ==
  /\ ServerRunning(watcher[c])
  /\ c \in Registered
  /\ users[c] = watcher[c].clientID

(* After all crashes, losses and restarts the status watchers have logged  *)
(* their clients in again, with the ids that the server gave them, if      *)
(* there are ids for all of them and nobody wants to be logged out.  Not   *)
(* so a client that never learns that it may take its id.                  *)
AllLoggedIn ==
  /\ site.owner = NoClient /\ site.toggling = {}
  /\ Cardinality(site.clients) <= site.maxLogins
  => <>[](\A c \in site.clients : TakesAnyId(c) => LoggedIn(c))
=============================================================================
