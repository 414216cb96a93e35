--------------------------- MODULE MCActionStack ---------------------------
(* ActionStack for TLC.                                                      *)
EXTENDS ActionStack
=============================================================================
