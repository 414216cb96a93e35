------------------------------ MODULE MCGbAlbum ------------------------------
(* GbAlbum for TLC.                                                          *)
EXTENDS GbAlbum
=============================================================================
