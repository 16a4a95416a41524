------------------------------- MODULE MCMlfq -------------------------------
(* Mlfq with short slices that grow from queue to queue, as {1,4,8,16} do. *)
EXTENDS Mlfq

MCSlice == [q \in 0 .. queue_size - 1 |-> q + 1]

=============================================================================
