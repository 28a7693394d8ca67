---------------------------- MODULE MCScopeBuffer ----------------------------
(* Small instances of ScopeBuffer. *)
EXTENDS ScopeBuffer

=============================================================================
