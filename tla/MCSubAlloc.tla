----------------------------- MODULE MCSubAlloc -----------------------------
(* SubAlloc for TLC.                                                         *)
EXTENDS SubAlloc
=============================================================================
