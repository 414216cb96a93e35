----------------------------- MODULE MCBendTag -----------------------------
(* BendTag for TLC.                                                          *)
EXTENDS BendTag
=============================================================================
