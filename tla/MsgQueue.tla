----------------------------- MODULE MsgQueue --------------------------------
(***************************************************************************)
(* What a message fifo between two threads promises: messages are          *)
(* performed once each, in the order in which they were accepted, and are  *)
(* reclaimed once each, after they have been performed and in the same     *)
(* order.  At most Capacity messages are accepted and not yet reclaimed;   *)
(* further ones are refused, which changes nothing here.                   *)
(***************************************************************************)
EXTENDS Naturals, Sequences

CONSTANTS
  Msg,      \* the messages
  Capacity  \* the most that are held

VARIABLES
  accepted,   \* the messages that Write has accepted
  performed,  \* the messages that Perform has run
  freed       \* the messages that Free has reclaimed

vars == <<accepted, performed, freed>>

Init == accepted = <<>> /\ performed = <<>> /\ freed = <<>>

Accept(m) ==
  /\ Len(accepted) - Len(freed) < Capacity
  /\ accepted' = Append(accepted, m)
  /\ UNCHANGED <<performed, freed>>

Perform ==
  /\ Len(performed) < Len(accepted)
  /\ performed' = Append(performed, accepted[Len(performed) + 1])
  /\ UNCHANGED <<accepted, freed>>

Free ==
  /\ Len(freed) < Len(performed)
  /\ freed' = Append(freed, performed[Len(freed) + 1])
  /\ UNCHANGED <<accepted, performed>>

Next == (\E m \in Msg : Accept(m)) \/ Perform \/ Free

Spec == Init /\ [][Next]_vars

=============================================================================
