----------------------------- MODULE MCMsgFifo -------------------------------
(***************************************************************************)
(* Instances of MsgFifo: a ring of four slots that the messages go around  *)
(* more than twice.                                                        *)
(***************************************************************************)
EXTENDS MsgFifo

=============================================================================
