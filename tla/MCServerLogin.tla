--------------------------- MODULE MCServerLogin ---------------------------
(* Two clients at five sites: a server that crashes and comes back; one    *)
(* that has no id for the second client; clients that are restarted, one   *)
(* of them with the default options, for one login; users that switch      *)
(* notifications off and on; and a client that boots and quits the server  *)
(* by itself.                                                              *)
EXTENDS ServerLogin

CONSTANTS c1, c2

At(clients, owner, toggling, maxLogins, small, losing, booted, recompiled) ==
  [clients |-> clients, owner |-> owner, toggling |-> toggling, maxLogins |-> maxLogins,
   options |-> [c \in Clients |-> IF c \in small THEN 1 ELSE maxLogins],
   prompt |-> TRUE, unnoticed |-> FALSE,
   losses |-> losing, restarts |-> booted, recompiles |-> recompiled]

MCSites ==
  {At({c1, c2}, NoClient, {}, 2, {}, 1, 1, 0),
   At({c1, c2}, NoClient, {}, 1, {}, 0, 1, 1),
   At({c1, c2}, NoClient, {}, 2, {c1}, 1, 0, 1),
   At({c1}, NoClient, {c1}, 2, {}, 1, 0, 0),
   At({c1}, c1, {}, 1, {}, 1, 2, 0)}
=============================================================================
