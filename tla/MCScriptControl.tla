-------------------------- MODULE MCScriptControl --------------------------
(* ScriptControl for TLC.  Each MCScript*.cfg gives Env, MaxScripts and        *)
(* MaxRequests the values that the question it asks needs.                   *)
EXTENDS ScriptControl
=============================================================================
