------------------------------- MODULE Bcache -------------------------------
(***************************************************************************)
(* The buffer cache, kernel/bio.c, with the sleep locks of its buffers,    *)
(* kernel/sleeplock.c, over what the disk driver promises (RawDisk).  A    *)
(* step is what happens under bcache.lock, or under the spinlock of one    *)
(* sleep lock.                                                             *)
(*                                                                         *)
(* The callers keep the discipline of kernel/log.c: a changed buffer is    *)
(* pinned (log_write) or written (bwrite) before brelse(), and unpinned    *)
(* only after a bwrite() under the same hold of its lock (install_trans).  *)
(***************************************************************************)
EXTENDS RawDisk, Naturals, Sequences, FiniteSets

CONSTANT Threads

ASSUME ThreadsAssumption == IsFiniteSet(Threads)
ASSUME NoneAssumption == None \notin Threads \cup Bufs \cup Blocks

VARIABLES
    pc,             \* where a thread is
    buf,            \* the buffer it works on
    block,          \* b->blockno, None before its first use
    valid,          \* b->valid
    refcnt,         \* b->refcnt
    locked,         \* b->lock.locked, as the thread that set it or None
    lru,            \* the list bcache.head, most recently used first
    pin,            \* history: the log's references to the buffer
    owes,           \* history: what a caller has done to the buffer it holds
    panicked        \* bget() found no buffer

rawvars == <<store, bdata, req>>

bvars == <<block, valid, refcnt, locked, lru, pin, owes, panicked>>

vars == <<rawvars, pc, buf, bvars>>

Init ==
    /\ RawInit
    /\ pc = [t \in Threads |-> "idle"]
    /\ buf = [t \in Threads |-> None]
    /\ block = [b \in Bufs |-> None]
    /\ valid = [b \in Bufs |-> FALSE]
    /\ refcnt = [b \in Bufs |-> 0]
    /\ locked = [b \in Bufs |-> None]
    /\ lru \in [1..Cardinality(Bufs) -> Bufs] /\ \A b \in Bufs : \E i \in DOMAIN lru : lru[i] = b
    /\ pin = [b \in Bufs |-> FALSE]
    /\ owes = [t \in Threads |-> "nothing"]
    /\ panicked = FALSE

\* nothing runs after a panic()
At(t, l) == ~panicked /\ pc[t] = l

Goto(t, l) == pc' = [pc EXCEPT ![t] = l]

-----------------------------------------------------------------------------

(* bread() *)

Cached(k) == {b \in Bufs : block[b] = k}

Unused == {i \in DOMAIN lru : refcnt[lru[i]] = 0}

\* the backward scan of the list ends at b
LeastRecent(b) == \E i \in Unused : lru[i] = b /\ \A j \in Unused : j <= i

\* bget(), under bcache.lock: the buffer that has the block, or the least
\* recently used one that nobody refers to
bget(t) ==
    /\ At(t, "idle")
    /\ \E k \in Blocks :
          \/ \E b \in Cached(k) :
                /\ refcnt' = [refcnt EXCEPT ![b] = @ + 1]
                /\ buf' = [buf EXCEPT ![t] = b]
                /\ UNCHANGED <<block, valid>>
          \/ /\ Cached(k) = {}
             /\ \E b \in Bufs :
                   /\ LeastRecent(b)
                   /\ block' = [block EXCEPT ![b] = k]
                   /\ valid' = [valid EXCEPT ![b] = FALSE]
                   /\ refcnt' = [refcnt EXCEPT ![b] = 1]
                   /\ buf' = [buf EXCEPT ![t] = b]
    /\ Goto(t, "lock")
    /\ UNCHANGED <<rawvars, locked, lru, pin, owes, panicked>>

bget_panic(t) ==
    /\ At(t, "idle")
    /\ \E k \in Blocks : Cached(k) = {}
    /\ Unused = {}
    /\ panicked' = TRUE
    /\ UNCHANGED <<rawvars, pc, buf, block, valid, refcnt, locked, lru, pin, owes>>

\* Mutant: acquiresleep() trusts the wakeup, "if" in place of "while".
LockFree_if(t) == pc[t] = "lockwoken" \/ locked[buf[t]] = None

LockFree(t) == locked[buf[t]] = None

acquiresleep(t) ==
    /\ At(t, "lock") \/ At(t, "lockwoken")
    /\ IF LockFree(t)
       THEN /\ locked' = [locked EXCEPT ![buf[t]] = t]
            /\ Goto(t, IF valid[buf[t]] THEN "have" ELSE "rw")
       ELSE Goto(t, "locksleep") /\ UNCHANGED locked
    /\ UNCHANGED <<rawvars, buf, block, valid, refcnt, lru, pin, owes, panicked>>

\* virtio_disk_rw() for bread() or bwrite(); bread() sets b->valid on its return
Rw(t) ==
    LET b == buf[t]
    IN  /\ At(t, "rw")
        /\ \/ Call(b, block[b], valid[b], bdata[b]) /\ UNCHANGED <<pc, valid, owes>>
           \/ Transfer(b) /\ UNCHANGED <<pc, valid, owes>>
           \/ /\ Return(b)
              /\ valid' = [valid EXCEPT ![b] = TRUE]
              /\ owes' = [owes EXCEPT ![t] = IF valid[b] THEN "written" ELSE @]
              /\ Goto(t, "have")
        /\ UNCHANGED <<buf, block, refcnt, locked, lru, pin, panicked>>

-----------------------------------------------------------------------------

(* The holder of a buffer *)

change(t) ==
    /\ At(t, "have")
    /\ \E v \in Data \ {bdata[buf[t]]} : bdata' = [bdata EXCEPT ![buf[t]] = v]
    /\ owes' = [owes EXCEPT ![t] = "changed"]
    /\ UNCHANGED <<store, req, pc, buf, block, valid, refcnt, locked, lru, pin, panicked>>

bwrite(t) ==
    /\ At(t, "have")
    /\ Goto(t, "rw")
    /\ UNCHANGED <<rawvars, buf, bvars>>

\* Mutant: log_write() does not pin the buffer.
bpin_not(b) == UNCHANGED refcnt

bpin(b) == refcnt' = [refcnt EXCEPT ![b] = @ + 1]

\* log_write(): the first write of a block in a transaction pins its buffer
log_write(t) ==
    /\ At(t, "have") /\ owes[t] = "changed"
    /\ IF pin[buf[t]] THEN UNCHANGED refcnt ELSE bpin(buf[t])
    /\ pin' = [pin EXCEPT ![buf[t]] = TRUE]
    /\ owes' = [owes EXCEPT ![t] = "nothing"]
    /\ UNCHANGED <<rawvars, pc, buf, block, valid, locked, lru, panicked>>

bunpin(t) ==
    /\ At(t, "have") /\ owes[t] = "written" /\ pin[buf[t]]
    /\ refcnt' = [refcnt EXCEPT ![buf[t]] = @ - 1]
    /\ pin' = [pin EXCEPT ![buf[t]] = FALSE]
    /\ UNCHANGED <<rawvars, pc, buf, block, valid, locked, lru, owes, panicked>>

\* brelse() is releasesleep(), then the rest under bcache.lock
releasesleep(t) ==
    /\ At(t, "have") /\ owes[t] # "changed"
    /\ locked' = [locked EXCEPT ![buf[t]] = None]
    /\ pc' = [u \in Threads |-> IF u = t THEN "release"
                                ELSE IF pc[u] = "locksleep" /\ buf[u] = buf[t]
                                THEN "lockwoken" ELSE pc[u]]
    /\ owes' = [owes EXCEPT ![t] = "nothing"]
    /\ UNCHANGED <<rawvars, buf, block, valid, refcnt, lru, pin, panicked>>

brelse(t) ==
    LET b == buf[t]
    IN  /\ At(t, "release")
        /\ refcnt' = [refcnt EXCEPT ![b] = @ - 1]
        /\ lru' = IF refcnt[b] = 1 THEN <<b>> \o SelectSeq(lru, LAMBDA c : c # b) ELSE lru
        /\ buf' = [buf EXCEPT ![t] = None]
        /\ Goto(t, "idle")
        /\ UNCHANGED <<rawvars, block, valid, locked, pin, owes, panicked>>

-----------------------------------------------------------------------------

\* kill() wakes a thread wherever it sleeps
kill(t) ==
    /\ At(t, "locksleep")
    /\ Goto(t, "lockwoken")
    /\ UNCHANGED <<rawvars, buf, bvars>>

Next ==
    \E t \in Threads :
       \/ bget(t)
       \/ bget_panic(t)
       \/ acquiresleep(t)
       \/ Rw(t)
       \/ change(t)
       \/ bwrite(t)
       \/ log_write(t)
       \/ bunpin(t)
       \/ releasesleep(t)
       \/ brelse(t)
       \/ kill(t)

Spec == Init /\ [][Next]_vars

-----------------------------------------------------------------------------

(* Correctness *)

Valid(k) == {b \in Cached(k) : valid[b]}

content == [k \in Blocks |-> IF Valid(k) = {} THEN store[k]
                             ELSE bdata[CHOOSE b \in Valid(k) : TRUE]]

\* a bread() has the block once its data is in; until then it only waits
holder == [k \in Blocks |->
             IF \E b \in Valid(k) : locked[b] # None
             THEN locked[CHOOSE b \in Valid(k) : locked[b] # None] ELSE None]

Store == INSTANCE BlockStore WITH NoOne <- None

\* The cache implements the block store: recycling, pinning, write-back and stray
\* wakeups never show a thread a stale or a lost block, or let two of them change
\* one block at a time.
OneCopy == Store!Spec

\* References are exact: b->refcnt counts the threads between bget() and the end of
\* brelse(), and the log's pin, so that a buffer is recycled neither under a waiting
\* thread nor before its block is installed, and no block has two buffers.
RefsExact ==
    \A b \in Bufs :
       /\ refcnt[b] = Cardinality({t \in Threads : buf[t] = b}) + (IF pin[b] THEN 1 ELSE 0)
       /\ block[b] # None => Cached(block[b]) = {b}
       /\ pin[b] => valid[b]
=============================================================================
