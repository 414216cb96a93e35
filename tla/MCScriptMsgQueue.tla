-------------------------- MODULE MCScriptMsgQueue --------------------------
(* ScriptMsgQueue for TLC, and the slips its properties must notice. *)
EXTENDS ScriptMsgQueue
=============================================================================
