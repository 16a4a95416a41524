# A TLA+ verification of Enhanced_XV6

Enhanced_XV6 is xv6 for RISC-V with additions: two more schedulers (lottery,
`LBS`, and multi-level feedback queue, `MLFQ`), the system calls `sigalarm` and
`sigreturn`, `settickets`, `waitx` and `getSysCount`.  This project models the
parts of its kernel where several CPUs, interrupts, crashes or long sequences of
calls interact, checks them with TLC on small instances and proves the central
properties with TLAPS for every size.  Paths below are relative to
`src/initial-xv6/src/kernel/` unless they start with `src/`.

## 1. The system

| Part | Code | State | Operations | What makes it hard |
|---|---|---|---|---|
| Process table | `proc.c` | `proc[]` (state, chan, killed, parent), `wait_lock`, one `p->lock` each | fork, exit, wait, waitx, kill, sleep, wakeup, yield | a thread runs on the stack of a slot that others may free; wakeups between test and sleep |
| DEFAULT scheduler | `proc.c` 606-626 | `c->proc`, loop position | scheduler, sched, timer interrupts | several CPUs scan one table; fairness |
| MLFQ scheduler | `proc.c` 628-691, `trap.c` 95-141 | four queues without a lock, `status_queue`, slices | enqueue, pick, switch, demote | unlocked reads, slots reused while queued |
| LBS scheduler | `proc.c` 693-735 | tickets, arrival times | lottery, settickets | two passes over a table that changes between them; a lock kept across the pass |
| Alarms | `sysproc.c` 234-265, `trap.c` 71-84 | alarm fields, the saved frame | sigalarm, sigreturn, timer | re-entry, stale frames, two places that count ticks |
| Log | `log.c` | on-disk header, log and home blocks; in-memory header, `outstanding`, `committing` | begin_op, log_write, end_op, commit, recovery | crashes, group commit, reservation |
| Buffer cache, sleep locks | `bio.c`, `sleeplock.c` | LRU list, refcnt | bget, brelse, bpin | one buffer per block |
| Disk driver | `virtio_disk.c` | descriptors, rings | rw, interrupt | out-of-order completions, descriptor exhaustion |
| Inodes, directories | `fs.c` | inode table, disk inodes, bitmap | iget, iput, ialloc, balloc, writei, dirlink | reference counts against link counts |
| Files and calls | `file.c`, `sysfile.c` | file table, descriptors | open, close, dup, link, unlink | calls of several steps that fail half way |
| Pipes | `pipe.c` | ring, open ends | read, write, close | sleep and wakeup against close and kill |
| Console, UART | `console.c`, `uart.c` | input ring r/w/e, transmit ring | interrupts, read, write | ring arithmetic, interrupt against thread |
| Memory | `kalloc.c`, `vm.c`, `exec.c` | free list, page tables | uvmcopy, uvmalloc, exec | undo after running out of memory |
| System call counts | `syscall.c`, `sysproc.c` 195-232 | `sysCounter` | syscall, wait, getSysCount | counted at several places |
| Boot, PLIC, strings | `main.c`, `start.c`, `plic.c`, `string.c` | hardware registers | run once | nothing to interleave |

How they interact: every blocking operation of the kernel ends in `sleep()` and
`wakeup()` of the process table; every one of the schedulers relies on the rule
that a process which is leaving a CPU holds its `p->lock` until `swtch()` is over; the
timer drives the schedulers, the alarms and `sys_sleep()`; every file system
call runs between `begin_op()` and `end_op()` of the log, which works on the buffer
cache, which works on the disk driver; descriptors lead to pipes, inodes or the console;
and `fork`, `exec` and `exit` build and take down address spaces.

The properties that matter: no two CPUs on one stack; no panic in `sched()`; no
lost wakeup; no orphan without a living parent; everybody runnable runs; a crash
leaves the file system at a commit; a finished operation is durable; an alarm
handler neither nests nor returns to the wrong place; a block, a page, a descriptor,
a directory entry and a file reference has exactly one owner, whatever fails half way.

## 2. The modules

| Module | Models | |
|---|---|---|
| `Proc` | `proc.c` with the DEFAULT scheduler, `sys_sleep`, `clockintr`, the trap paths | |
| `ProcProofs` | theorems about `Proc` and `Alarm` | |
| `Log` | `log.c` over an abstract buffer cache, with crashes | |
| `AtomicFs` | what the log promises | abstract specification |
| `MCLog` | symmetry for `Log` | TLC |
| `LogProofs` | theorems about `Log`, refinement included | |
| `Alarm` | alarms of one process slot | |
| `Sched` | what the two schedulers below share | part of `Mlfq` and `Lbs` |
| `Mlfq`, `MCMlfq` | MLFQ scheduler, and slices for TLC | |
| `Lbs` | lottery scheduler | |
| `SchedProofs` | theorems about `Mlfq` and `Lbs` | |
| `VirtioDisk`, `MCVirtioDisk`, `VirtioDiskProofs` | the disk driver and its device, and theorems | |
| `RawDisk` | what the driver promises the buffer cache | abstract specification |
| `Bcache`, `MCBcache`, `BcacheProofs` | the buffer cache with its sleep locks, over `RawDisk`, and theorems | |
| `BlockStore` | what the buffer cache promises the log and the file system | abstract specification |
| `Pipe` | pipes | part of `File` |
| `File`, `MCFile` | file table and descriptors, composed with pipes | |
| `FileLemmas`, `FileProofs` | theorems about `File` and `Pipe`, and the lemmas they rest on | |
| `Uart` | the serial port, both directions | part of `Console` |
| `Console` | line editing and reading, composed with the serial port | |
| `Tty` | what the console promises a reader | abstract specification |
| `ConsoleProofs` | theorems about `Console` and `Uart`, refinement included | |
| `Vm`, `MCVm` | page allocator, page tables, the operations on address spaces | |
| `Memories` | what page tables promise a program | abstract specification |
| `Fs`, `MCFs` | inodes, blocks, directories, path names, the calls on names | |

### Proc

A kernel thread is a label `pc[p]`; it moves only while a CPU has it in
`c->proc` (`cproc`).  One step is one critical section, or the part of one
between two acquires or releases: every field is protected by `p->lock` or
`wait_lock`, so nobody can look in between.  A lock that is taken and released in
one step appears as the guard that it is free (`acquire_release`); locks that are
held across steps (`wait_lock`, `tickslock`, `p->lock` on the way into `swtch`)
have an owner.  `sw[c]` marks the time between the call of `sched()` and the end of
`swtch`, when the CPU is still on the stack of a process whose state is no longer
RUNNING.  `clk` is the position of `clockintr()` in its wakeup loop, on top of
whatever CPU 0 was doing.  Loops that hold one lock at a time
(`wakeup`, the scan of `wait`, the scan of `scheduler`) take one step per slot.

Abstractions: `waitx` locks and scans like `wait` and has no actions of its own;
the wakeups of `initproc` in `reparent` are one loop; `allocproc` may take any free
slot, which contains the first one found by a scan that others overtake; closing
files in `exit` happens before anything here and is left out; `update_time` only
counts; the argument of `sys_sleep` is a natural number up to `MaxSleep`.
`kill(1)` is left out, since init exiting panics by design.

### Log

`home`, `head` and `logd` are on the disk and survive `crash`; the rest is memory.
A step is one critical section of `log.lock` or one disk write.  `cache` is what
`bread` returns; `evict` may recycle any buffer that is neither pinned nor locked.
`modify` is `bread` and a change of the data by an operation; `log_write` includes the
`brelse` after it.  A crash may happen in every state, so also within recovery.
`AtomicFs` has the blocks a reboot would find, the blocks the system sees, and the
active operations; `Commit` makes the second the first, and is allowed only when
nobody is active.  The refinement mapping takes `Recovered`, the result that recovery
would have on the disk as it is, for the durable blocks.

### Alarm

One slot of the table over the lives of several processes.  A trap frame is the user
pc, `a0` (which `syscall()` overwrites) and one register for the rest.  `depth` and
`interrupted` are history variables that record what the kernel interrupted; `asked`,
`waited` and `passed` record the interval asked for, and the timer interrupts since then
in which the handler could have been called, and in all.  Every timer interrupt may come on CPU 0,
where `clockintr()` counts as well, or on another CPU, and in user or in kernel mode.  Intervals may
be changed at any time, by the handler too.  Counts are cut off at `MaxTicks`, above every
interval.  `kalloc()` may fail (`timer_nomem`).

### Mlfq and Lbs

The schedulers are modelled to the granularity of their locks.  The table, the process of each
CPU and `OneCpu` are in `Sched`; the names of `Lbs` that `Mlfq` has too carry its name (`LbsSpec`,
`fork_lbs`), since `SchedProofs` extends both.  `Alarm` keeps apart from `Proc` in the same way, and
calls `p->state` of its process `slot`.  The MLFQ queues have
no lock at all and the state is tested without one, so the test (`check`) and the
`switch` are separate steps; a store beyond the queue array ends the behaviour
(`overflow`), because it changes memory the model does not have.  The boost loop is
left out: nothing increments `wait_ticks`.  `Mlfq` is a model of one CPU: the enqueue loop is one
step and the pick one step per `pop()`, with interrupts between them.  The code takes no lock
there, so with two CPUs it has interleavings that the model has not.  Two CPUs are therefore used only
to exhibit an interleaving that fails (`MlfqTwoCpus.cfg`); whatever is checked or proved to hold is for one,
which the Makefile gives MLFQ by default.  A lottery visits one
slot per step and keeps the lock of its choice.  `rand()` is any value up to
`RandMax`, and the sum wraps at `IntBits` bits.

### VirtioDisk and Bcache

Two layers with an abstract specification between them.  `VirtioDisk` has the free
descriptors, the chains, `info[]`, the two rings and the device, which takes requests
in order, completes them in any order, and raises an interrupt.  A step is what a
caller does between two sleeps, or one turn of the handler's loop; the device moves in
between.  The device reports success: a request that failed is a `panic()` of the handler.  Its calls implement `RawDisk`: one transfer between call and return.  `Bcache`
EXTENDS `RawDisk` and uses its actions where `bread` and `bwrite` call the driver.  A step
is one critical section of `bcache.lock` or of a sleep lock; a sleeper is woken by
`releasesleep` or by `kill`, and then tests again.  Callers keep the discipline of `log.c`: a
changed buffer is pinned or written before it is released.  `Bcache` implements
`BlockStore`, a store with one copy of each block that one thread at a time may change.
`Log` is built on that promise directly (its `cache`).

### Pipe and File

A step is one critical section of `ftable.lock` or `pi->lock`.  The bytes of a stream are
numbered modulo the wrap of `nread` and `nwrite`, so a byte out of place shows.  The loop of
`pipewrite` stores in one step all it can before it sleeps or ends, since it holds the lock
(`Put` gives the array after `n` stores in closed form: in each place the last byte stored there);
`kill` needs no lock and can land within, which is why `killed` may change in that
step.  `fileclose` gives up `ftable.lock` before `pipeclose`: `pend` is the end about to be
closed.  The error paths of `sys_pipe` close what was allocated.  Files are ends of
pipes here.  `cut` remembers pipes with a write that a kill cut short, which returns without
the wakeup at the end of `pipewrite`.

### Uart and Console

The 16550 is a FIFO that reports idle when empty and interrupts when it becomes empty or a
character arrives.  `uartstart`'s look at LSR and its write of THR are two steps, as are those of
`uartputc_sync`, which takes no lock; a backspace echoes three bytes.  `consoleintr` and
`consoleread` are one step each under `cons.lock`.  Characters are letters, newline,
end-of-file and the two editing commands; slots of the ring that hold no character hold
`Junk`, since nothing reads them.  The transmit indices wrap at `TxWrap` for the 64 bits of
the code.

### Vm

A page table belongs to one process, so operations on different ones commute but for the
free list.  An operation is therefore one step, and the other CPUs appear as `fuel`: the
number of calls of `kalloc()` that succeed in the step.  The operators carry the memory
through the code's calls, its undo paths included.  Sums of addresses wrap at `ADDRS`, for 2^64.
A page has contents `Zero`, `Text`,
`Args` (the arguments on a new stack), `Junk` (free) or what the program stored.  `guard` and `lost` are history: the guard page of
each stack, and alarm frames of processes that were freed inside their handlers
(`freeproc` does not free `trapframe_alarm`).  `call` records the last operation with its arguments
and whether it succeeded.  `Memory` maps page tables to one sequence of pages per process, and
`Memories` says what each operation does to it: `fork` copies the parent's, `sbrk` cuts pages off
or adds zeroed ones, `exec` makes exactly the image that the program's segments describe, with
a guard page and the arguments above it, a store changes one page, `exit` ends it, and
a call that fails changes nothing.  The step is tied to `call`, so an `exec` cannot pass for
anything else, and only the named process may change.

### Fs

Operators carry the state of disk and inode table through a call as `fs.c` does, down to the
words of directory blocks.  A step of a call is what it does between two points where it
holds no inode lock; a `namex` step is one turn of its loop.  `puts` are the references a call
still has to put, one `iput` per step; `iput` itself has two steps, with `itable.lock` free
between them.  `gone`, `orphans` and `raced` are history: directories without a name, names
that vanished with such a directory, and inodes reallocated while an `iput` had still to drop
its reference.  A crash is not part of this module: `Log` shows that a call's writes are
atomic.  Contents of free blocks are zero, since `balloc` clears a block before its use.
`open` is for reading, for writing or with `O_TRUNC` (`Modes`); a device may have a bad major number.
`either_copyin` in `writei` may fail at the start of any block (`Fault`).  A path may be `/` alone,
which has no parent.

## 3. What TLC checks

| Run | Instance | Shows |
|---|---|---|
| `proc` | 3 slots, 2 CPUs, sleeps of 0 or 1 tick; 1,170,796 states | `StackInUse`, `SchedLocks`, `NoLostWakeup`, `ParentAlive`, no deadlock |
| `proc_live` | 2 slots, 2 CPUs; 4,757 states | `RunnableRuns`, `WaitReturns`, `SleepReturns` |
| `log` | 2 threads, 3 blocks, 2 contents, 3 log blocks, 2 blocks per operation; 91,176 states with symmetry | `AtomicFsSpec`, `QuiescentDurable`, `LogSpace`, `BeginWoken`, no deadlock |
| `mlfq` | 3 slots, 1 CPU, 2 queues with slices 1 and 2; 466,892 states | `TestedOneCpu`, `NotForgotten`, `WorkConserving` |
| `lbs` | 3 slots, 2 CPUs, tickets 0 and 1; 415,060 states | `HoldsChosen`, `OneCpu`, `TicketsRun`, no deadlock |
| `alarm` | 2 program points, 2 register values, intervals 0 to 3; 21,144 states | `NoReentry`, `ResumesInterrupted`, `AlarmInTime` |
| `files` | 2 processes, 1 pipe of 2 bytes, counters that wrap at 4, 2 file entries, 2 descriptors; 834,252 states with symmetry | `RefsCounted`, `EndsMatchFiles`, `RingIsStream`, `SleepersMustWait` |
| `disk` | 3 buffers, 7 descriptors; 48,114 states | `DescsAccounted`, `OneTransfer` (refinement of `RawDisk`), `RequestsReturn`, no deadlock |
| `bcache` | 3 threads, 2 buffers, 3 blocks; 199,584 states with symmetry | `RefsExact`, `OneCopy` (refinement of `BlockStore`) |
| `console` | a reader, a writer, both rings of 2 entries, indices that wrap at 4; 275,896 states | `LineDiscipline` (refinement of `Tty`), `ConsoleSleepers`, `TxInOrder`, `OutputDrains`, no deadlock |
| `vm` | 2 processes, 13 pages, 16 virtual pages behind 2 levels; 8,136 states up to page names | `PagesOwnedOnce`, `CopyExact`, `PrivateMemory` (refinement of `Memories`) |
| `fs` | 2 threads, 3 inodes, 5 blocks, 1 direct and 3 indirect blocks of 3 words, 5 calls; 412,811 states | `BlocksOwnedOnce`, `LinksCounted`, `RefsExact`, `Reclaimed` |

Each property has a mutant in its module (a definition whose comment begins with
"Mutant:"): a plausible slip in the code that the property detects.

Why the bounds suffice.  Three slots are init, a parent and a child, so that exit,
reparenting and wait can overlap; two CPUs give every pair of
critical sections.  Fairness is checked on two slots, init and one child.  With a
log of three blocks and operations of two the second operation must wait, absorption
happens, and a transaction has several writes to be interrupted.  Two queues are a
first and a last; slices 1 and 2 grow as 1, 4, 8, 16 do.  Intervals 0 to 3 contain
the disabled ones (0 and 1) and ones that double counting can jump over; a process may go from
any of them to any other, with a count that stands anywhere.  One pipe
of two bytes is full, half full and empty, and writes of three bytes must sleep; two file
entries are just enough for a pipe, so a second `pipe()` fails at each point.  Seven
descriptors serve two requests, with one left over, so that the third finds some but not
enough.  Three threads on two buffers and three blocks make every pattern of sharing, waiting and
recycling, and the panic of `bget` when both are in use.  Rings of two entries with
indices modulo four wrap, fill and empty.  Thirteen pages hold two processes of a few pages with their
tables, and since `kalloc()` may fail at any call, every undo path is taken.  The programs that `exec` loads
(`MCVm`) have segments with more memory than file contents, overlapping ones, one that is not aligned, one that cannot be
read, one whose end wraps below its start, and arguments that do not fit.  Three inodes
and five blocks run out; a direct block and an indirect one are both reached by a write of four
words.  Each thread has a list of calls on overlapping names (`MCFs`); all sequences of five are tried,
from an empty root and from a tree in which a thread sits two levels down.

Symmetry and views.  `MCFile`, `MCBcache` and `MCLog` permute model values that no
operator tells apart.  `MCVm` identifies states that differ only in which free page is which
(`UpToPages`): `kalloc` returns some page, and no property names one; the view contains the
truth of `PagesOwnedOnce`, so no violation is merged away.

Deadlock is checked except where the system may stop: in `alarm`, `vm` and the MLFQ runs after a
kernel fault or a store beyond an array, in `bcache` after a panic of `bget`, in `fs` after
the bounded number of calls, in `files` when all processes have exited.

Fairness.  A CPU executes its instructions, and an `acquire()` that finds the lock free
again and again takes it in the end (strong fairness: the atomic swap of two CPUs has
no order, and QEMU starves neither).  The timer keeps interrupting (`timervec` re-arms
it each time), and a pending interrupt is taken when interrupts go on.  A thread whose next lock
is taken has reached its `acquire()` by the next timer interrupt, and spins there with interrupts off
(`PromptNext`; a tick is about a tenth of a second, `start.c:69`): otherwise a process could
be preempted in front of the same lock whenever it runs.  This is assumed for liveness only.
`Mlfq` and `Lbs` assume only that each CPU runs its scheduler.  The disk and the serial port
go on with what they were given, their handlers run to the end, and a process whose
request is done gets `vdisk_lock` in the end.  Nothing is assumed of users, callers or of
`kill`.  `StrongFairSpec`, for the starvation counterexample, also excludes that
a process is interrupted only in kernel mode.

### Disagreements with the documents

Each has a configuration with which TLC prints a counterexample
(`tlc -config <cfg> <module>`).

* `sigreturn()` does not restore `a0` (`syscall.c:158`), against
  `user/alarmtest.c:176-178`: `RestoresA0`, `AlarmA0.cfg`, module `Alarm`.
* `sigalarm(1, handler)` never calls its handler (`sysproc.c:245-247`), against `src/README.md:24`
  and its use in `user/alarmtest.c:183`: `AlarmInTimeAll`, `AlarmOne.cfg`, module `Alarm`.
* An alarm on CPU 0 comes after half of its interval, since two places count each interrupt (`trap.c:75`,
  `trap.c:230`), and the count is not restarted by `sigalarm()`, against `src/README.md:24`:
  `AlarmNotEarly`, `AlarmEarly.cfg`, module `Alarm`.
* No process is ever boosted (`trap.c:99`, `proc.c:1043`), against `src/README.md:63`:
  `NoStarvation`, `MlfqStarvation.cfg`, module `MCMlfq`.
* With two CPUs MLFQ may run one process twice (`proc.c:682`), against the comment at
  `proc.h:100` and the command line at `SCHEDULER.md:261`: `TestedOneCpu`, `MlfqTwoCpus.cfg`,
  module `MCMlfq`.
* An inode that `ialloc()` gives away while `iput()` is between its two critical sections can
  stay allocated without a name (`fs.c:341`), against the comment at `fs.c:332-333`:
  `ReclaimedAll`, `FsReclaim.cfg`, module `MCFs`.

Behaviour that the models contain and the properties step around, because nothing in the
repository says otherwise:

* `..` of a removed directory is not counted as a link, so the parent can be freed while a
  process sits below it; the next use of `..` panics in `ilock` ("ilock: no type").
  `Fs` ends there (`up`).
* A file made in a removed current directory loses its name with the directory, but
  not its link count, and stays allocated (`orphans`).
* The frame page of an alarm is not freed when its process is freed inside the handler
  (`lost`), and `kalloc()` for it is not checked (`trap.c:78`; `up` of `Vm`, `timer_nomem` of `Alarm`).
* A write to a pipe that a kill cuts short does not wake the readers (`cut`).

Four more properties are defined but not part of a run, because TLC refutes them:
`Proc!KilledAwake` (a kill between `killed()` and `sleep()` leaves the victim asleep),
`Log!NoPanic` (mkfs's log is one block smaller than the reservation assumes, which
matters only to operations that write all of `MAXOPBLOCKS`), `Mlfq!QueueFits` (a queue
can outgrow its array) and `Lbs!TieBreak` (the tie-break of `src/README.md:44` looks
only at slots behind the winner of the draw).

## 4. What TLAPS proves

For every value of the constants allowed by the named assumptions.

| Theorem | States |
|---|---|
| `ProcProofs!TypeCorrect`, `SchedNeverPanics`, `StackNeverShared`, `ParentNeverDead` | `TypeOK`, `SchedLocks`, `StackInUse`, `ParentAlive` of `Proc` |
| `ProcProofs!WakeupNeverLost` | `NoLostWakeup` |
| `LogProofs!TypeCorrect`, `SleeperHasWaker`, `Durability`, `CrashSafety` | `TypeOK`, `BeginWoken`, `QuiescentDurable`, and that `Log` implements `AtomicFs` |
| `LogProofs!SpaceReserved`, `NewBlockFits` | `LogSpace`, and that `log_write()` of a new block finds a free entry below `LOGSIZE` |
| `ProcProofs!NoNestedHandlers`, `SigreturnResumes`, `AlarmNeverLate` | `NoReentry`, `ResumesInterrupted`, `AlarmInTime` of `Alarm` |
| `SchedProofs!LotteryHoldsChosen`, `LotteryOneCpu` | `HoldsChosen`, `OneCpu` of `Lbs` |
| `SchedProofs!MarkedIsQueued`, `MlfqOneCpu` | `NotForgotten` of `Mlfq`, and `TestedOneCpu` (`OneCpu`, and what the test found is still RUNNABLE at the switch), both on one CPU |
| `VirtioDiskProofs!DescriptorsAccounted`, `OneTransferPerCall` | `DescsAccounted`, and that `VirtioDisk` implements `RawDisk` (`OneTransfer`) |
| `BcacheProofs!ReferencesExact`, `CacheIsStore` | `RefsExact` of `Bcache`, and that `Bcache` implements `BlockStore` (`OneCopy`) |
| `FileProofs!ReferencesCounted`, `EndsMatch`, `PipeIsQueue`, `SleepersWait` | `RefsCounted`, `EndsMatchFiles`, `RingIsStream`, `SleepersMustWait` |
| `ConsoleProofs!SleepersWait`, `ImplementsTty`, `OutputInOrder` | `ConsoleSleepers`, that `Console` implements `Tty` (`LineDiscipline`), `TxInOrder` |

Assumptions: `Proc` needs a slot, a CPU 0 and a lock owner "free" that is no CPU;
`Log` that an operation fits in the log and the log's size is at most `LOGSIZE + 1`;
`Alarm` that intervals lie within the bound on ticks and the null pointer is no frame;
`Sched` that there is a slot, `Lbs` that the lock owner "free" is no CPU, `Mlfq` that there is a queue;
`VirtioDisk` that the ring has at least the three descriptors of a request, that there are data,
and that `None` is no value of anything; `Bcache` that threads are finitely many
and `None` is none of them, no buffer and no block; `Pipe` that `PIPESIZE` is positive, divides
the range `Wrap` of the counters and is smaller than it (512 and 2^32 in the code), and that
there is a pipe; `File` that processes are finitely many and that the null pointers are no
file and no end; `Uart` and `Console` that each ring size is positive, divides the range of its
indices and is smaller than it (32 and 128, with 2^64 and 2^32, in the code), and that the
letters are none of the control characters.

*Proc.*  `StackInUse` is not inductive: that nobody else takes a stack rests on who holds
which lock at which label.  The invariant adds `LockInv` (which locks a thread at each label
holds), `IntrInv` (CPU 0 takes no interrupt while it holds a lock, so
`clockintr()` never meets its own), `CpuInv` (a process is RUNNING exactly on the CPU that
has it, or is leaving with its lock), `ForkInv` (a child being built is known to one
parent only) and `ParentInv` (a process that has begun to exit has handed its children
over).  Steps are grouped by what they change, and each group is shown once to keep each conjunct.
`NoLostWakeup` needs more, because a wakeup that comes too early is as bad as none: the invariant
`SleepInv` also speaks of processes that have decided to sleep and not yet done so (`SleepsOn`).
A zombie child of a process in `wait()` is still ahead of its scan (`ScanInv`), or nobody
sleeps, or `reparent()` has just given it to init and is on its way to wake init (`WaitInv`).  From
`wakeup(p->parent)` on, the parent of an exiting process cannot fall asleep, since the exiting
one holds `wait_lock` until it is a zombie (`WakeInv`).  A sleeper on `&ticks` whose
time has come is ahead of `clockintr()`'s loop, which holds `tickslock` (`TickInv`).

*Log.*  The invariant ties the number of active threads to `outstanding` (`OpInv`), says
that a block is logged once, describes the disk at each point of the commit
(`CommitInv`) and of recovery (`BootInv`), and says that a cached block which differs
from the disk is pinned or locked (`CacheInv`).  `CrashSafety` then maps each step to a
step of `AtomicFs` or to a stutter: `write_head` to `Commit`, `crash` to `Crash`, the
installation to stutters because `Recovered` does not change.
`LogSpace` counts the slots that the active operations may still ask for as a set of pairs (`Promised`),
so a step that uses or reserves one adds or removes pairs and the sum needs no induction.  It is
inductive together with `OpWrote`: an operation has written at most `MAXOPBLOCKS` blocks, and none
before it begins.  `begin_op()` compares with `MAXOPBLOCKS` for each operation, which is at least
what they have left; `log_write()` of a new block moves one slot from promised to used; absorption
only lowers the promise of the others.

*Alarm.*  The invariant says that while a handler runs the saved frame equals the frame it
interrupted (`SavedFrame`).  `AlarmInTime` rests on `CountReaches`: what the kernel has counted is at least
what the program has waited, since every interrupt that the program waits through is counted once or
twice and `current_ticks` goes back to 0 only when the handler is called; so the comparison with `>=`
is met in time.

*Lbs.*  `OneCpu` is not inductive: that a process is switched to once rests on the lock which
the lottery keeps from the moment it favours a process.  The invariant says that a lock is held exactly
by the CPU whose lottery favours its process (`LockInv`), that a favoured process is
RUNNABLE and lies behind the position of the loop (`ChosenInv`), and that nobody is favoured
before the draw (`SumInv`).

*Mlfq.*  `NotForgotten` speaks of RUNNABLE processes only and is not inductive, since a process that
sleeps keeps its mark.  `QueueInv` says of every process, whatever its state, that it is in a queue
while `status_queue` marks it; `pop()`, the push to the front and a demotion each keep it.  Both
theorems assume one CPU, `NotForgotten` because the steps of the model are those of one CPU.  `TestedOneCpu` holds on one CPU only (section 3 has the counterexample for two): there,
what the test found RUNNABLE stays so until the switch, because nothing but `wakeup()` comes in between
(`OneInv`).  The Makefile starts QEMU with one CPU for MLFQ.

*VirtioDisk.*  The device may complete in any order, so the invariant says where a request can be:
one whose `b->disk` is set is in exactly one of the available ring, the device and the used
ring, and nothing else is in any of them (`RingInv`, with rings that do not repeat).
`ChainInv` keeps the three links of a chain and `info[]`, `FreeInv` that a descriptor is free or in one
chain.  For the refinement a request counts as done once it has left the device: `dev_done` is
`RawDisk`'s transfer, `rw_done` its return, the rings, interrupts and stray wakeups are stutters.

*Bcache.*  `RefsExact` needs to know which thread refers to which buffer (`ThreadInv`) and holds which
sleep lock (`LockInv`).  `OneCopy` also needs that a request belongs to the owner of its
buffer (`ReqInv`), and `CleanInv`: a valid buffer which differs from its block is pinned, or
its holder still has to pin or write it.  That is why recycling an unused buffer loses
nothing, and is a stutter of `BlockStore`; `bget`'s recycling, the driver's transfers and the
sleep locks are mapped through one lemma, that a block whose valid buffer or whose stored
copy stays as it was looks the same from above.

*File and Pipe.*  The four invariants are proved together.  What a process still has to close
depends on where it is (`HoldInv`), files of a `sys_pipe()` under way have no other
reference (`WorkInv`), an end belongs to one file entry or to one `fileclose()` between its two
locks (`EndInv`), and a process inside `piperead` or `pipewrite` has a descriptor of that
pipe (`CallInv`), which keeps the page allocated under it.  Reference counts are cardinalities: each
action adds or removes one pair (process, descriptor), and `fork` adds a disjoint copy of the
parent's.  `FileLemmas` begins with the arithmetic of the ring: since `PIPESIZE` divides `Wrap`,
two positions less than `PIPESIZE` apart never share a place, also across the wrap.

*Console and Uart.*  The invariant of the input ring is that some two lengths place the indices: `w` lies
the entered and `e` also the edited characters behind `r`, modulo the wrap, and together they fit
(`Marks`).  Under the refinement mapping the two sequences of `Tty` are then stretches of the array, and
typing, erasing and reading append to a stretch, cut its end or cut its front; the
ring forgets what nobody can read, which changes no stretch.  For the transmit ring the
invariant says how many bytes are in it and that each place holds the byte of that number.  That at
most one byte is on its way is about the FIFO: `uartstart()` and `uartputc_sync()` test the port
and write it in two steps, so `FifoInv` bounds what is in it by where both of them are: two bytes at
most, one while one of them has found it idle and not yet written, none while both have (`Load`).

Only model-checked: liveness (the prover has no rules for fairness and `ENABLED`),
and the properties of the page tables and the file system.
`Vm` and `Fs` carry the memory and the disk through the loops of the code with recursive operators, which
the prover does not take; what such a loop computes would need induction over data.  Each inductive
invariant was checked by TLC on the instance of its run before it was proved.

## 5. Not modelled

* System call counting (`getSysCount`, `sysCounter`) and the times that `waitx` reports:
  statistics that no other state depends on.
* Boot, the interrupt controller, the kernel's own page table: they run once.
* The assembly code, the string library, `printf` and `procdump`: sequential code
  without shared state of its own; where it matters its effect is part of an action.
* `stati` and reads of inodes, which change nothing but an offset; the panic of a full inode table;
  reads and writes of device files.
* The layout of arguments on a new stack and the ELF format: `exec` meets a list of segments.
* Disk errors, which the driver answers with a `panic()`.
* A composition of `Fs` with `Log` and `Bcache`: each layer is checked against the
  specification of the one below, not in one state space.
* The user programs, which are the environment of the kernel.
