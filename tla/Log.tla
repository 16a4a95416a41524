-------------------------------- MODULE Log ---------------------------------
(***************************************************************************)
(* The write-ahead log of kernel/log.c over the buffer cache: concurrent   *)
(* file system operations share one transaction, the last end_op() commits *)
(* it, and a crash may strike between any two disk writes, those of a      *)
(* recovery included.  A step is one critical section of log.lock or one   *)
(* disk write.                                                             *)
(***************************************************************************)
EXTENDS Integers, Sequences, FiniteSets

CONSTANTS
    Threads,        \* processes that make file system calls
    Blocks,         \* block numbers outside the log
    Data,           \* contents of a block
    LOGSIZE, MAXOPBLOCKS,
    size,           \* log.size, the superblock's nlog: header and log blocks
    NoBlock

ASSUME SizeAssumption ==
    /\ LOGSIZE \in Nat /\ MAXOPBLOCKS \in Nat /\ size \in Nat
    /\ 0 < MAXOPBLOCKS /\ MAXOPBLOCKS <= LOGSIZE
    /\ 1 < size /\ size <= LOGSIZE + 1
ASSUME BlockAssumption == NoBlock \notin Blocks
ASSUME ThreadAssumption == IsFiniteSet(Threads)

Slots == 1 .. size - 1

Labels == {"idle", "begin", "asleep", "op", "logging", "write_log", "write_head",
           "install", "clear", "done"}

VARIABLES
    home,           \* on disk: the blocks at their home locations
    head,           \* on disk: the header, as the sequence of its block numbers
    logd,           \* on disk: the log blocks
    cache,          \* what bread() of a home block returns
    pin,            \* references that bpin() holds on a buffer
    lh,             \* log.lh in memory
    outstanding, committing,
    pc,             \* position of each thread
    buf,            \* the buffer a thread has locked and modified
    wrote,          \* the blocks an operation has modified
    tail,           \* loop variable of write_log() and install_trans()
    boot,           \* progress of recover_from_log()
    panicked

disk == <<home, head, logd>>

opvars == <<pc, buf, wrote>>

vars == <<home, head, logd, cache, pin, lh, outstanding, committing,
          pc, buf, wrote, tail, boot, panicked>>

Up == boot = "up" /\ panicked = 0

Logged(b) == \E k \in DOMAIN lh : lh[k] = b

Active == {t \in Threads : pc[t] \in {"op", "logging"}}

Locked(b) == \E t \in Threads : buf[t] = b

Goto(t, l) == pc' = [pc EXCEPT ![t] = l]

\* wakeup(&log), and thread t goes on to l
GotoWaking(t, l) ==
    pc' = [u \in Threads |-> IF u = t THEN l
                             ELSE IF pc[u] = "asleep" THEN "begin" ELSE pc[u]]

-----------------------------------------------------------------------------

(* Operations *)

\* Mutant: the caller's own reservation is left out.
MustWait_others == committing = 1 \/ Len(lh) + outstanding * MAXOPBLOCKS > LOGSIZE

\* begin_op() must wait: a commit is running, or the operation might not fit
MustWait == committing = 1 \/ Len(lh) + (outstanding + 1) * MAXOPBLOCKS > LOGSIZE

begin_sleep(t) ==
    /\ Up
    /\ pc[t] \in {"idle", "begin"}
    /\ MustWait
    /\ Goto(t, "asleep")
    /\ UNCHANGED <<disk, cache, pin, lh, outstanding, committing, buf, wrote, tail, boot, panicked>>

begin_op(t) ==
    /\ Up
    /\ pc[t] \in {"idle", "begin"}
    /\ ~MustWait
    /\ outstanding' = outstanding + 1
    /\ Goto(t, "op")
    /\ UNCHANGED <<disk, cache, pin, lh, committing, buf, wrote, tail, boot, panicked>>

\* bread() and a change of the data.  MAXOPBLOCKS is "max # of blocks any FS op
\* writes" (param.h); writing a block again costs nothing.
modify(t, b, v) ==
    /\ Up
    /\ pc[t] = "op"
    /\ ~Locked(b)
    /\ b \in wrote[t] \/ Cardinality(wrote[t]) < MAXOPBLOCKS
    /\ cache' = [cache EXCEPT ![b] = v]
    /\ buf' = [buf EXCEPT ![t] = b]
    /\ wrote' = [wrote EXCEPT ![t] = @ \cup {b}]
    /\ Goto(t, "logging")
    /\ UNCHANGED <<disk, pin, lh, outstanding, committing, tail, boot, panicked>>

TooBig == Len(lh) >= LOGSIZE \/ Len(lh) >= size - 1

\* log_write() and the brelse() after it
log_write(t) ==
    /\ Up
    /\ pc[t] = "logging"
    /\ ~TooBig /\ outstanding >= 1
    /\ \/ /\ Logged(buf[t])
          /\ UNCHANGED <<lh, pin>>
       \/ /\ ~Logged(buf[t])
          /\ lh' = Append(lh, buf[t])
          /\ pin' = [pin EXCEPT ![buf[t]] = @ + 1]
    /\ buf' = [buf EXCEPT ![t] = NoBlock]
    /\ Goto(t, "op")
    /\ UNCHANGED <<disk, cache, outstanding, committing, wrote, tail, boot, panicked>>

\* panic() in log_write(), with log.lock held: the log stops for good
log_write_panic(t) ==
    /\ Up
    /\ pc[t] = "logging"
    /\ TooBig \/ outstanding < 1
    /\ panicked' = 1
    /\ UNCHANGED <<disk, cache, pin, lh, outstanding, committing, opvars, tail, boot>>

\* an unpinned, unlocked buffer is recycled; the next bread() reads the disk
evict(b) ==
    /\ Up
    /\ pin[b] = 0
    /\ ~Locked(b)
    /\ cache' = [cache EXCEPT ![b] = home[b]]
    /\ UNCHANGED <<disk, pin, lh, outstanding, committing, opvars, tail, boot, panicked>>

\* end_op() while others are still active
end_op(t) ==
    /\ Up
    /\ pc[t] = "op"
    /\ outstanding > 1
    /\ outstanding' = outstanding - 1
    /\ wrote' = [wrote EXCEPT ![t] = {}]
    /\ GotoWaking(t, "idle")
    /\ UNCHANGED <<disk, cache, pin, lh, committing, buf, tail, boot, panicked>>

\* Mutant: the last operation commits only when the log is full.
end_op_last_lazy(t) ==
    /\ Up
    /\ pc[t] = "op"
    /\ outstanding = 1
    /\ outstanding' = 0
    /\ committing' = 1
    /\ wrote' = [wrote EXCEPT ![t] = {}]
    /\ tail' = 1
    /\ Goto(t, IF TooBig THEN "write_log" ELSE "done")
    /\ UNCHANGED <<disk, cache, pin, lh, buf, boot, panicked>>

\* end_op() of the last one, into commit()
end_op_last(t) ==
    /\ Up
    /\ pc[t] = "op"
    /\ outstanding = 1
    /\ outstanding' = 0
    /\ committing' = 1
    /\ wrote' = [wrote EXCEPT ![t] = {}]
    /\ tail' = 1
    /\ Goto(t, IF lh = <<>> THEN "done" ELSE "write_log")
    /\ UNCHANGED <<disk, cache, pin, lh, buf, boot, panicked>>

-----------------------------------------------------------------------------

(* commit() *)

\* one iteration of write_log(); bwrite(to)
write_log(t) ==
    /\ Up
    /\ pc[t] = "write_log"
    /\ logd' = [logd EXCEPT ![tail] = cache[lh[tail]]]
    /\ \/ tail < Len(lh) /\ tail' = tail + 1 /\ UNCHANGED pc
       \/ tail = Len(lh) /\ tail' = 1 /\ Goto(t, "write_head")
    /\ UNCHANGED <<home, head, cache, pin, lh, outstanding, committing, buf, wrote, boot, panicked>>

\* the commit point
write_head(t) ==
    /\ Up
    /\ pc[t] = "write_head"
    /\ head' = lh
    /\ Goto(t, "install")
    /\ UNCHANGED <<home, logd, cache, pin, lh, outstanding, committing, buf, wrote, tail, boot, panicked>>

\* one iteration of install_trans(); bwrite(dbuf)
install1 ==
    /\ home' = [home EXCEPT ![lh[tail]] = logd[tail]]
    /\ cache' = [cache EXCEPT ![lh[tail]] = logd[tail]]

install_trans(t) ==
    /\ Up
    /\ pc[t] = "install"
    /\ install1
    /\ pin' = [pin EXCEPT ![lh[tail]] = @ - 1]
    /\ \/ tail < Len(lh) /\ tail' = tail + 1 /\ UNCHANGED pc
       \/ tail = Len(lh) /\ tail' = 1 /\ Goto(t, "clear")
    /\ UNCHANGED <<head, logd, lh, outstanding, committing, buf, wrote, boot, panicked>>

\* Mutant: the transaction is not erased from the disk.
clear_head_mem(t) ==
    /\ Up
    /\ pc[t] = "clear"
    /\ lh' = <<>>
    /\ Goto(t, "done")
    /\ UNCHANGED <<disk, cache, pin, outstanding, committing, buf, wrote, tail, boot, panicked>>

\* log.lh.n = 0 and the second write_head()
clear_head(t) ==
    /\ Up
    /\ pc[t] = "clear"
    /\ lh' = <<>>
    /\ head' = <<>>
    /\ Goto(t, "done")
    /\ UNCHANGED <<home, logd, cache, pin, outstanding, committing, buf, wrote, tail, boot, panicked>>

\* Mutant: no wakeup(&log) after the commit.
commit_done_nowake(t) ==
    /\ Up
    /\ pc[t] = "done"
    /\ committing' = 0
    /\ Goto(t, "idle")
    /\ UNCHANGED <<disk, cache, pin, lh, outstanding, buf, wrote, tail, boot, panicked>>

\* end_op() after commit()
commit_done(t) ==
    /\ Up
    /\ pc[t] = "done"
    /\ committing' = 0
    /\ GotoWaking(t, "idle")
    /\ UNCHANGED <<disk, cache, pin, lh, outstanding, buf, wrote, tail, boot, panicked>>

-----------------------------------------------------------------------------

(* Crash and recovery *)

\* Memory is lost and the machine reboots into initlog().
crash ==
    /\ boot' = "read_head"
    /\ panicked' = 0
    /\ cache' = home
    /\ pin' = [b \in Blocks |-> 0]
    /\ lh' = <<>>
    /\ outstanding' = 0
    /\ committing' = 0
    /\ pc' = [t \in Threads |-> "idle"]
    /\ buf' = [t \in Threads |-> NoBlock]
    /\ wrote' = [t \in Threads |-> {}]
    /\ tail' = 1
    /\ UNCHANGED disk

read_head ==
    /\ boot = "read_head"
    /\ lh' = head
    /\ boot' = IF head = <<>> THEN "clear" ELSE "install"
    /\ UNCHANGED <<disk, cache, pin, outstanding, committing, opvars, tail, panicked>>

recover_install ==
    /\ boot = "install"
    /\ install1
    /\ \/ tail < Len(lh) /\ tail' = tail + 1 /\ UNCHANGED boot
       \/ tail = Len(lh) /\ tail' = 1 /\ boot' = "clear"
    /\ UNCHANGED <<head, logd, pin, lh, outstanding, committing, opvars, panicked>>

recover_clear ==
    /\ boot = "clear"
    /\ lh' = <<>>
    /\ head' = <<>>
    /\ boot' = "up"
    /\ UNCHANGED <<home, logd, cache, pin, outstanding, committing, opvars, tail, panicked>>

-----------------------------------------------------------------------------

\* a disk made by mkfs, with an empty log, at boot
Init ==
    /\ home \in [Blocks -> Data]
    /\ logd \in [Slots -> Data]
    /\ head = <<>>
    /\ cache = home
    /\ pin = [b \in Blocks |-> 0]
    /\ lh = <<>>
    /\ outstanding = 0
    /\ committing = 0
    /\ pc = [t \in Threads |-> "idle"]
    /\ buf = [t \in Threads |-> NoBlock]
    /\ wrote = [t \in Threads |-> {}]
    /\ tail = 1
    /\ boot = "read_head"
    /\ panicked = 0

CommitStep(t) ==
    \/ write_log(t) \/ write_head(t) \/ install_trans(t)
    \/ clear_head(t) \/ commit_done(t)

EndStep(t) == log_write(t) \/ end_op(t) \/ end_op_last(t) \/ CommitStep(t)

BeginStep(t) == begin_sleep(t) \/ begin_op(t)

RecoverStep == read_head \/ recover_install \/ recover_clear

Next ==
    \/ \E t \in Threads : BeginStep(t) \/ EndStep(t) \/ log_write_panic(t)
    \/ \E t \in Threads, b \in Blocks, v \in Data : modify(t, b, v)
    \/ \E b \in Blocks : evict(b)
    \/ RecoverStep
    \/ crash

Spec == Init /\ [][Next]_vars

-----------------------------------------------------------------------------

\* The variables keep the types of their declarations; the header fits its block.
TypeOK ==
    /\ home \in [Blocks -> Data]
    /\ cache \in [Blocks -> Data]
    /\ logd \in [Slots -> Data]
    /\ head \in Seq(Blocks) /\ Len(head) <= size - 1
    /\ lh \in Seq(Blocks) /\ Len(lh) <= size - 1
    /\ pin \in [Blocks -> Nat]
    /\ outstanding \in Nat
    /\ committing \in {0, 1}
    /\ pc \in [Threads -> Labels]
    /\ buf \in [Threads -> Blocks \cup {NoBlock}]
    /\ wrote \in [Threads -> SUBSET Blocks]
    /\ tail \in Slots
    /\ boot \in {"read_head", "install", "clear", "up"}
    /\ panicked \in {0, 1}

\* what recovery would make of the disk as it is now
Recovered ==
    [b \in Blocks |-> IF \E k \in DOMAIN head : head[k] = b
                      THEN logd[CHOOSE k \in DOMAIN head : head[k] = b]
                      ELSE home[b]]

\* what the running system sees
View == IF boot = "up" THEN cache ELSE Recovered

Atomic == INSTANCE AtomicFs WITH durable <- Recovered, mem <- View, active <- Active

\* The log implements AtomicFs: whatever the crash point, what recovery makes of
\* the disk is the state at the last commit, and commits happen only between
\* operations ("the logging system only commits when there are no FS system
\* calls active").
AtomicFsSpec == Atomic!Spec

\* Once nobody is in an operation or a commit, what the system sees is what a
\* reboot would find: end_op() of the last operation has made it durable.
QuiescentDurable ==
    (Up /\ Active = {} /\ committing = 0) => Recovered = cache

\* what operation t may still add to the log
Unused(t) == MAXOPBLOCKS - Cardinality({b \in wrote[t] : Logged(b)})

\* the log slots that the active operations may still ask for
Promised == {x \in Active \X (1 .. MAXOPBLOCKS) : x[2] <= Unused(x[1])}

\* begin_op()'s arithmetic is a reservation: the blocks logged so far and those
\* the active operations may still log never exceed LOGSIZE.
LogSpace == Up => Len(lh) + Cardinality(Promised) <= LOGSIZE

\* A thread asleep in begin_op() will be woken: a commit is running or an
\* operation is active, and both end with wakeup(&log).
BeginWoken ==
    (Up /\ \E t \in Threads : pc[t] = "asleep") => committing = 1 \/ Active # {}

\* log_write() does not panic: begin_op() lets an operation start only when it
\* cannot exhaust the log space.
NoPanic == panicked = 0

=============================================================================
