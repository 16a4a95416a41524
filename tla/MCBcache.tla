------------------------------ MODULE MCBcache ------------------------------
(***************************************************************************)
(* An instance of Bcache for TLC.  Threads, buffers and blocks are         *)
(* interchangeable: the list starts in any order.                          *)
(***************************************************************************)
EXTENDS Bcache, TLC

Symmetry == Permutations(Threads) \cup Permutations(Bufs) \cup Permutations(Blocks)
=============================================================================
