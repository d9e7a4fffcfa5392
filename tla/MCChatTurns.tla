----------------------------- MODULE MCChatTurns -----------------------------
(* One chat, its clients and the tasks of two service sets. *)
EXTENDS ChatTurns

=============================================================================
