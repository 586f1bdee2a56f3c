------------------------------- MODULE MCOta -------------------------------
(* Ota with small bounds; version 0 is that of no image on offer. *)
EXTENDS Ota
=============================================================================
