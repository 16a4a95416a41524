------------------------------ MODULE RawDisk ------------------------------
(***************************************************************************)
(* What virtio_disk_rw(b, write) promises the buffer cache: one transfer   *)
(* between b->data and the block, at some moment between the call and its  *)
(* return.  The caller holds b->lock, so the buffer names the request.     *)
(***************************************************************************)
CONSTANTS Bufs, Blocks, Data, None

VARIABLES
    store,          \* the blocks on the disk
    bdata,          \* b->data
    req             \* the request that is under way for a buffer, or None

InitStore == \E v \in Data : store = [k \in Blocks |-> v] /\ bdata = [b \in Bufs |-> v]

RawInit == InitStore /\ req = [b \in Bufs |-> None]

\* the call, with v in b->data
Call(b, k, write, v) ==
    /\ req[b] = None
    /\ req' = [req EXCEPT ![b] = [block |-> k, write |-> write, done |-> FALSE]]
    /\ bdata' = [bdata EXCEPT ![b] = v]
    /\ UNCHANGED store

Transfer(b) ==
    /\ req[b] # None /\ ~req[b].done
    /\ LET k == req[b].block
       IN  IF req[b].write
           THEN store' = [store EXCEPT ![k] = bdata[b]] /\ UNCHANGED bdata
           ELSE bdata' = [bdata EXCEPT ![b] = store[k]] /\ UNCHANGED store
    /\ req' = [req EXCEPT ![b].done = TRUE]

Return(b) ==
    /\ req[b] # None /\ req[b].done
    /\ req' = [req EXCEPT ![b] = None]
    /\ UNCHANGED <<store, bdata>>

RawNext == \E b \in Bufs : \/ \E k \in Blocks, w \in BOOLEAN, v \in Data : Call(b, k, w, v)
                           \/ Transfer(b)
                           \/ Return(b)

RawSpec == RawInit /\ [][RawNext]_<<store, bdata, req>>
=============================================================================
