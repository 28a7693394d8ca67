--------------------------- MODULE MCLangClocks ---------------------------
(* Small instances of LangClocks: one program makes, stops and shuts down  *)
(* clocks, the other changes tempo and beats, to a negative tempo too.     *)
EXTENDS LangClocks

MCBeatDurs == {1, 2, -1}
MCPrograms == {
  [ops |-> {"sched", "clear", "new", "newInTask", "stop", "shutdown"}, calls |-> 2],
  [ops |-> {"sched", "clear", "tempo", "beats"}, calls |-> 2]}
=============================================================================
