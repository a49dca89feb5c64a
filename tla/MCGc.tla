------------------------------- MODULE MCGc -------------------------------
(* Small instances of Gc for TLC. *)
EXTENDS GcInv, GcStore
===========================================================================
