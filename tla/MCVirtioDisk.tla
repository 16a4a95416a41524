---------------------------- MODULE MCVirtioDisk ----------------------------
(***************************************************************************)
(* An instance of VirtioDisk for TLC: buffer b has block b.                *)
(***************************************************************************)
EXTENDS VirtioDisk

Same == [b \in Bufs |-> b]
=============================================================================
