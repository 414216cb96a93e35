-------------------------- MODULE MCMultiExposure --------------------------
(* MultiExposure for TLC.                                                    *)
EXTENDS MultiExposure
=============================================================================
