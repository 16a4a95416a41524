------------------------------- MODULE MCLog --------------------------------
(* Log on a small instance; threads are interchangeable, and so are blocks. *)
EXTENDS Log, TLC

Symmetry == Permutations(Threads) \cup Permutations(Blocks)

=============================================================================
