----------------------------- MODULE VirtioDisk -----------------------------
(***************************************************************************)
(* The disk driver, kernel/virtio_disk.c, with the device behind it.  A    *)
(* request takes three descriptors, goes into the available ring, and      *)
(* comes back through the used ring, in any order, with an interrupt.  All *)
(* driver code holds vdisk_lock, which sleep() gives up: a step of a       *)
(* caller is what it does between two sleeps, a step of the interrupt      *)
(* handler one iteration of its loop, during which the device runs on.     *)
(* A buffer stands for the process that holds its lock and calls           *)
(* virtio_disk_rw(); no two buffers have the same block (Bcache).          *)
(***************************************************************************)
EXTENDS Naturals, Sequences, FiniteSets, Functions

CONSTANTS
    Bufs,           \* buffers
    blockno,        \* b->blockno, which only bget() changes, between requests
    Data,           \* contents of a block
    Marked,         \* the buffers whose transfers change something
    NUM,            \* descriptors, and entries of each ring
    None

Blocks == {blockno[b] : b \in Bufs}

ASSUME RingAssumption == NUM \in Nat /\ NUM > 2

ASSUME DataAssumption == Data # {}

Desc == 0 .. NUM - 1

Args == [block : Blocks, write : BOOLEAN]

ASSUME NoneAssumption == None \notin Bufs \cup Desc \cup Args \cup
                                      [block : Blocks, write : BOOLEAN, done : BOOLEAN]

VARIABLES
    free,           \* disk.free, as the set of free descriptors
    next,           \* disk.desc[i].next
    op,             \* the request at disk.desc[i].addr: disk.ops[i], and the buffer
    info,           \* disk.info[i].b
    avail,          \* disk.avail, the entries that the device has not read
    taken,          \* device: the requests under way
    used,           \* disk.used, the entries from disk.used_idx to the device's index
    irq,            \* device: interrupt raised
    intr,           \* the handler is in its loop and holds vdisk_lock
    disk,           \* b->disk
    bdata,          \* b->data
    store,          \* the blocks on the disk
    pc,             \* where the process of a buffer is
    arg,            \* its arguments of virtio_disk_rw(): the block and write
    idx0            \* the head of its chain of descriptors

ringvars == <<avail, taken, used, irq, intr>>

vars == <<free, next, op, info, ringvars, disk, bdata, store, pc, arg, idx0>>

Init ==
    /\ free = Desc
    /\ next = [i \in Desc |-> None]
    /\ op = [i \in Desc |-> None]
    /\ info = [i \in Desc |-> None]
    /\ avail = <<>> /\ taken = {} /\ used = <<>>
    /\ irq = FALSE /\ intr = FALSE
    /\ disk = [b \in Bufs |-> FALSE]
    /\ LET v == CHOOSE v \in Data : TRUE
       IN  store = [k \in Blocks |-> v] /\ bdata = [b \in Bufs |-> v]
    /\ pc = [b \in Bufs |-> "idle"]
    /\ arg = [b \in Bufs |-> None]
    /\ idx0 = [b \in Bufs |-> None]

-----------------------------------------------------------------------------

(* virtio_disk_rw() *)

\* the call; for a marked buffer b->data and the block differ
virtio_disk_rw(b) ==
    /\ pc[b] = "idle"
    /\ \E write \in BOOLEAN, v \in Data :
          /\ b \in Marked <=> v # store[blockno[b]]
          /\ arg' = [arg EXCEPT ![b] = [block |-> blockno[b], write |-> write]]
          /\ bdata' = [bdata EXCEPT ![b] = v]
    /\ pc' = [pc EXCEPT ![b] = "rw"]
    /\ UNCHANGED <<free, next, op, info, ringvars, disk, store, idx0>>

\* alloc3_desc() finds the three lowest free descriptors
alloc3_desc(i, j, k) == i < j /\ j < k /\ \A l \in free : l <= k => l \in {i, j, k}

rw_submit(b) ==
    /\ pc[b] = "rw" /\ ~intr
    /\ \E i, j, k \in free :
          /\ alloc3_desc(i, j, k)
          /\ free' = free \ {i, j, k}
          /\ next' = [next EXCEPT ![i] = j, ![j] = k]
          /\ op' = [op EXCEPT ![i] = [arg |-> arg[b], buf |-> b]]
          /\ info' = [info EXCEPT ![i] = b]
          /\ avail' = Append(avail, i)
          /\ idx0' = [idx0 EXCEPT ![b] = i]
    /\ disk' = [disk EXCEPT ![b] = TRUE]
    /\ pc' = [pc EXCEPT ![b] = "io"]
    /\ UNCHANGED <<taken, used, irq, intr, bdata, store, arg>>

\* sleep(&disk.free[0]).  alloc3_desc() gives back what it got, and free_desc()
\* wakes the others.
rw_full(b) ==
    /\ pc[b] = "rw" /\ ~intr
    /\ Cardinality(free) < 3
    /\ pc' = [c \in Bufs |-> IF c = b THEN "desc"
                             ELSE IF pc[c] = "desc" /\ free # {} THEN "rw" ELSE pc[c]]
    /\ UNCHANGED <<free, next, op, info, ringvars, disk, bdata, store, arg, idx0>>

\* Mutant: free_chain() stops one descriptor short.
free_chain_short(i) == {i, next[i]}

\* the descriptors that free_chain() frees
free_chain(i) == {i, next[i], next[next[i]]}

\* Mutant: virtio_disk_rw() trusts the wakeup, "if" in place of "while".
Finished_if(b) == pc[b] = "woken"

Finished(b) == pc[b] = "woken" /\ ~disk[b]

rw_done(b) ==
    /\ Finished(b) /\ ~intr
    /\ info' = [info EXCEPT ![idx0[b]] = None]
    /\ free' = free \cup free_chain(idx0[b])
    /\ next' = [i \in Desc |-> IF i \in free_chain(idx0[b]) THEN None ELSE next[i]]
    /\ op' = [op EXCEPT ![idx0[b]] = None]
    /\ idx0' = [idx0 EXCEPT ![b] = None]
    /\ arg' = [arg EXCEPT ![b] = None]
    /\ pc' = [c \in Bufs |-> IF c = b THEN "idle"
                             ELSE IF pc[c] = "desc" THEN "rw" ELSE pc[c]]
    /\ UNCHANGED <<ringvars, disk, bdata, store>>

\* woken by something else: while(b->disk == 1) sleep
rw_again(b) ==
    /\ pc[b] = "woken" /\ disk[b] /\ ~intr
    /\ pc' = [pc EXCEPT ![b] = "io"]
    /\ UNCHANGED <<free, next, op, info, ringvars, disk, bdata, store, arg, idx0>>

\* kill() wakes a process wherever it sleeps
kill(b) ==
    /\ pc[b] \in {"io", "desc"}
    /\ pc' = [pc EXCEPT ![b] = IF @ = "io" THEN "woken" ELSE "rw"]
    /\ UNCHANGED <<free, next, op, info, ringvars, disk, bdata, store, arg, idx0>>

-----------------------------------------------------------------------------

(* The device, and virtio_disk_intr() *)

dev_take ==
    /\ avail # <<>>
    /\ taken' = taken \cup {Head(avail)}
    /\ avail' = Tail(avail)
    /\ UNCHANGED <<free, next, op, info, used, irq, intr, disk, bdata, store, pc, arg, idx0>>

dev_done(i) ==
    /\ i \in taken
    /\ taken' = taken \ {i}
    /\ LET k == op[i].arg.block
           b == op[i].buf
       IN  IF op[i].arg.write
           THEN store' = [store EXCEPT ![k] = bdata[b]] /\ UNCHANGED bdata
           ELSE bdata' = [bdata EXCEPT ![b] = store[k]] /\ UNCHANGED store
    /\ used' = Append(used, i)
    /\ irq' = TRUE
    /\ UNCHANGED <<free, next, op, info, avail, intr, disk, pc, arg, idx0>>

\* acknowledge the interrupt, then look at the ring
intr_ack ==
    /\ irq /\ ~intr
    /\ irq' = FALSE /\ intr' = TRUE
    /\ UNCHANGED <<free, next, op, info, avail, taken, used, disk, bdata, store, pc, arg, idx0>>

\* The status of the request is 0, since the device reports it with the transfer: one
\* that failed would be a panic().
intr_used ==
    /\ intr /\ used # <<>>
    /\ LET b == info[Head(used)]
       IN  /\ disk' = [disk EXCEPT ![b] = FALSE]
           /\ pc' = [pc EXCEPT ![b] = IF @ = "io" THEN "woken" ELSE @]
    /\ used' = Tail(used)
    /\ UNCHANGED <<free, next, op, info, avail, taken, irq, intr, bdata, store, arg, idx0>>

\* Mutant: the handler does not look at the device's index again.
intr_return_if ==
    /\ intr
    /\ intr' = FALSE
    /\ UNCHANGED <<free, next, op, info, avail, taken, used, irq, disk, bdata, store, pc, arg,
                   idx0>>

intr_return ==
    /\ intr /\ used = <<>>
    /\ intr' = FALSE
    /\ UNCHANGED <<free, next, op, info, avail, taken, used, irq, disk, bdata, store, pc, arg,
                   idx0>>

IntrStep == intr_ack \/ intr_used \/ intr_return

CallerStep(b) == rw_submit(b) \/ rw_full(b) \/ rw_done(b) \/ rw_again(b)

Next ==
    \/ \E b \in Bufs : virtio_disk_rw(b) \/ CallerStep(b) \/ kill(b)
    \/ dev_take
    \/ \E i \in Desc : dev_done(i)
    \/ IntrStep

\* The device goes on with what it has, a raised interrupt is taken, and a process
\* whose request is done gets vdisk_lock, though the handler and the others keep
\* taking it.
Fairness ==
    /\ WF_vars(dev_take)
    /\ WF_vars(IntrStep)
    /\ \A b \in Bufs : WF_vars(idx0[b] # None /\ dev_done(idx0[b])) /\ SF_vars(rw_done(b))

Spec == Init /\ [][Next]_vars /\ Fairness

-----------------------------------------------------------------------------

(* Correctness *)

InUse == {b \in Bufs : idx0[b] # None}

\* Descriptors are neither lost nor handed out twice: every descriptor is free or
\* in the chain of exactly one process inside virtio_disk_rw(), whose buffer the
\* driver's info[] and the request in memory still name, and the rings and the
\* device hold only such chains: a completion, in any order, finds its buffer.
DescsAccounted ==
    /\ free = Desc \ UNION {free_chain(idx0[b]) : b \in InUse}
    /\ \A b \in InUse :
          /\ Cardinality(free_chain(idx0[b])) = 3
          /\ info[idx0[b]] = b /\ op[idx0[b]] = [arg |-> arg[b], buf |-> b]
          /\ \A c \in InUse \ {b} : free_chain(idx0[b]) \cap free_chain(idx0[c]) = {}
    /\ taken \cup Range(avail) \cup Range(used) \subseteq {idx0[b] : b \in InUse}

req == [b \in Bufs |->
          IF arg[b] = None THEN None
          ELSE [block |-> arg[b].block, write |-> arg[b].write,
                done |-> b \in InUse /\ idx0[b] \notin taken \cup Range(avail)]]

Raw == INSTANCE RawDisk

\* A call of virtio_disk_rw() is one transfer of the right buffer and the right
\* block: it never returns before the device has made it, whatever wakes it up, and
\* the device never transfers for a call that has returned.
OneTransfer == Raw!RawSpec

\* Every submitted request returns: no completion is lost between the device's
\* ring, the acknowledgement of its interrupt, the handler's loop and the sleep.
RequestsReturn == \A b \in Bufs : []<>(idx0[b] = None)
=============================================================================
