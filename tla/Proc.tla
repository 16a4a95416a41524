-------------------------------- MODULE Proc --------------------------------
(***************************************************************************)
(* The process table of kernel/proc.c: allocation, fork, exit, wait, kill, *)
(* sleep and wakeup, and the DEFAULT (round robin) scheduler, on several   *)
(* CPUs.  A step is one critical section, or the part of one that lies     *)
(* between two acquires or releases, because that is what another CPU can  *)
(* observe: every field of the table is protected by p->lock or wait_lock. *)
(*                                                                         *)
(* pc[p] is where the kernel thread of p stands.  A thread takes steps     *)
(* only while some CPU has it in c->proc.  A CPU whose c->proc is null is  *)
(* in scheduler().  CPU 0 also runs clockintr() on top of either.          *)
(***************************************************************************)
EXTENDS Naturals

CONSTANTS
    NPROC,      \* number of slots of proc[]
    CPUs,       \* the harts
    Cpu0,       \* the hart that runs clockintr()
    Free,       \* owner of a lock nobody holds
    MaxSleep    \* bound on the argument of sys_sleep

ASSUME NPROCAssumption == NPROC \in Nat \ {0}
ASSUME CPUAssumption == Cpu0 \in CPUs /\ Free \notin CPUs
ASSUME MaxSleepAssumption == MaxSleep \in Nat

Procs == 0 .. NPROC - 1

null == NPROC                   \* the null pointer, for proc and chan alike

initproc == 0                   \* userinit() takes the first slot

ticks == NPROC + 1              \* the channel &ticks

wait_lock == NPROC

tickslock == NPROC + 1

Locks == 0 .. NPROC + 1         \* l \in Procs is proc[l].lock

procstate == {"UNUSED", "USED", "SLEEPING", "RUNNABLE", "RUNNING", "ZOMBIE"}

Labels == {"none", "forkret", "user", "ret", "yield",
           "fork_parent", "fork_run",
           "exit_lock", "exit_wakeinit", "exit_wakeparent", "exit_zombie",
           "exit_release", "wait_lock", "wait_scan",
           "tick_lock", "tick_check",
           "sleep_lock", "sleep_release", "sleep_sched", "sleep_wake",
           "sleep_relock"}

VARIABLES
    state, chan, killed, parent,    \* struct proc
    lock,                           \* owner of each spinlock
    cproc,                          \* c->proc of each CPU
    sw,                             \* the thread on the CPU is in sched(), not yet off its stack
    next,                           \* scheduler()'s loop variable, per CPU
    clk,                            \* clockintr(): next slot of its wakeup, NPROC when idle
    pc,                             \* position of each kernel thread
    i,                              \* its loop index over proc[]
    np,                             \* fork()'s child
    havekids,                       \* wait()'s flag
    schan,                          \* the channel argument of sleep()
    n                               \* sys_sleep(): ticks still to wait

pvars == <<state, chan, killed, parent>>

cvars == <<cproc, sw, next, clk>>

lvars == <<i, np, havekids, schan, n>>

tvars == <<pc, lvars>>

vars == <<state, chan, killed, parent, lock, cproc, sw, next, clk,
          pc, i, np, havekids, schan, n>>

-----------------------------------------------------------------------------

(* Locks and threads *)

acquire(c, l) == lock[l] = Free /\ lock' = [lock EXCEPT ![l] = c]

release(l) == lock' = [lock EXCEPT ![l] = Free]

\* holding p->lock or wait_lock for the length of one step
acquire_release(l) == lock[l] = Free /\ lock' = lock

Held(c) == {l \in Locks : lock[l] = c}

InIntr(c) == c = Cpu0 /\ clk # NPROC

\* myproc(), as a set that is empty when c is in its scheduler
myproc(c) == Procs \cap {cproc[c]}

\* CPU c executes thread p at label l
At(c, p, l) == cproc[c] = p /\ pc[p] = l /\ ~sw[c] /\ ~InIntr(c)

Goto(p, l) == pc' = [pc EXCEPT ![p] = l]

\* the lock that protects the condition a sleeper on ch waits for
LockOf(ch) == IF ch = ticks THEN tickslock ELSE wait_lock

\* calling sched(), with p->lock held and p->state changed
EnterSched(c) == sw' = [sw EXCEPT ![c] = TRUE]

\* swtch to the scheduler of c, which clears c->proc and releases p->lock
sched(c) ==
    /\ sw[c]
    /\ sw' = [sw EXCEPT ![c] = FALSE]
    /\ cproc' = [cproc EXCEPT ![c] = null]
    /\ release(cproc[c])
    /\ UNCHANGED <<pvars, next, clk, tvars>>

-----------------------------------------------------------------------------

(* scheduler(), yield(), and the timer *)

\* where a thread that swtch resumes goes on
Resume(l) == CASE l = "sleep_wake" -> "sleep_relock"
               [] l = "forkret"    -> "user"
               [] OTHER            -> l

\* The iteration of the DEFAULT loop for slot p, which goes on to slot q.  The
\* thread that swtch resumes releases p->lock before anything else: forkret(),
\* the end of yield(), and sleep(), which first clears p->chan.
scheduler1(c, p, q) ==
    /\ cproc[c] = null
    /\ ~InIntr(c)
    /\ acquire_release(p)
    /\ next' = [next EXCEPT ![c] = q]
    /\ \/ /\ state[p] = "RUNNABLE"
          /\ state' = [state EXCEPT ![p] = "RUNNING"]
          /\ cproc' = [cproc EXCEPT ![c] = p]
          /\ chan' = IF pc[p] = "sleep_wake" THEN [chan EXCEPT ![p] = null] ELSE chan
          /\ pc' = [pc EXCEPT ![p] = Resume(@)]
       \/ /\ state[p] # "RUNNABLE"
          /\ UNCHANGED <<state, cproc, chan, pc>>
    /\ UNCHANGED <<killed, parent, sw, clk, lvars>>

\* Mutant: the scan starts over whenever a process has run.
scheduler_restart(c) ==
    scheduler1(c, next[c], IF state[next[c]] = "RUNNABLE" THEN 0 ELSE (next[c] + 1) % NPROC)

scheduler(c) == scheduler1(c, next[c], (next[c] + 1) % NPROC)

\* yield() at label l, up to sched(), continuing at l2 when the thread runs again
yield(c, p, l, l2) ==
    /\ At(c, p, l)
    /\ acquire(c, p)
    /\ state' = [state EXCEPT ![p] = "RUNNABLE"]
    /\ EnterSched(c)
    /\ Goto(p, l2)
    /\ UNCHANGED <<chan, killed, parent, cproc, next, clk, lvars>>

\* labels of kernel code that runs with interrupts on, since no spinlock is held
Preemptible == {"ret", "fork_parent", "fork_run", "exit_lock",
                "wait_lock", "tick_lock", "sleep_relock"}

\* kerneltrap(): a timer interrupt in kernel mode
KernelTimer(c, p) == \E l \in Preemptible : yield(c, p, l, l)

\* usertrap() for a timer interrupt in user mode, up to the yield()
UserTimer(c, p) ==
    /\ At(c, p, "user")
    /\ acquire_release(p)
    /\ Goto(p, IF killed[p] THEN "exit_lock" ELSE "yield")
    /\ UNCHANGED <<pvars, cvars, lvars>>

\* usertrap()'s killed(p) test after a system call
UserRet(c, p) ==
    /\ At(c, p, "ret")
    /\ acquire_release(p)
    /\ Goto(p, IF killed[p] THEN "exit_lock" ELSE "user")
    /\ UNCHANGED <<pvars, cvars, lvars>>

UserYield(c, p) == yield(c, p, "yield", "user")

\* usertrap(): a system call, refused when the caller has been killed
SyscallEntry(c, p) ==
    /\ At(c, p, "user")
    /\ lock[p] = Free
    /\ ~killed[p]

\* wait, exit and sleep begin with an acquire() that may spin; fork and kill,
\* whose loops over proc[] hold one p->lock at a time, have actions of their
\* own.  The init program (user/init.c) only forks and waits.
syscall(c, p) ==
    /\ SyscallEntry(c, p)
    /\ \E l \in {"wait_lock", "exit_lock", "tick_lock"} :
          /\ p = initproc => l = "wait_lock"
          /\ Goto(p, l)
    /\ UNCHANGED <<pvars, lock, cvars, lvars>>

\* usertrap(): the caller has been killed
syscall_killed(c, p) ==
    /\ At(c, p, "user")
    /\ acquire_release(p)
    /\ killed[p]
    /\ Goto(p, "exit_lock")
    /\ UNCHANGED <<pvars, cvars, lvars>>

-----------------------------------------------------------------------------

(* sleep() and wakeup() *)

\* What freeproc() writes; p->lock is held by the caller.
freeproc(t) ==
    /\ state' = [state EXCEPT ![t] = "UNUSED"]
    /\ chan' = [chan EXCEPT ![t] = null]
    /\ killed' = [killed EXCEPT ![t] = FALSE]
    /\ parent' = [parent EXCEPT ![t] = null]

\* Mutant: wakeup() passes over a slot whose lock is taken.
wakeup1_trylock(c, ch, t) ==
    state' = IF /\ t # cproc[c] /\ lock[t] = Free
                /\ state[t] = "SLEEPING" /\ chan[t] = ch
             THEN [state EXCEPT ![t] = "RUNNABLE"] ELSE state

\* One iteration of wakeup(ch), run on CPU c, for slot t.
wakeup1(c, ch, t) ==
    \/ /\ t = cproc[c]
       /\ UNCHANGED state
    \/ /\ t # cproc[c]
       /\ lock[t] = Free
       /\ state' = IF state[t] = "SLEEPING" /\ chan[t] = ch
                   THEN [state EXCEPT ![t] = "RUNNABLE"] ELSE state

sleep_lock(c, p) ==
    /\ At(c, p, "sleep_lock")
    /\ acquire(c, p)
    /\ Goto(p, "sleep_release")
    /\ UNCHANGED <<pvars, cvars, lvars>>

sleep_release(c, p) ==
    /\ At(c, p, "sleep_release")
    /\ release(LockOf(schan[p]))
    /\ Goto(p, "sleep_sched")
    /\ UNCHANGED <<pvars, cvars, lvars>>

sleep_sched(c, p) ==
    /\ At(c, p, "sleep_sched")
    /\ chan' = [chan EXCEPT ![p] = schan[p]]
    /\ state' = [state EXCEPT ![p] = "SLEEPING"]
    /\ EnterSched(c)
    /\ Goto(p, "sleep_wake")
    /\ UNCHANGED <<killed, parent, lock, cproc, next, clk, lvars>>

\* back in the caller's loop, with its lock
sleep_relock(c, p) ==
    /\ At(c, p, "sleep_relock")
    /\ acquire(c, LockOf(schan[p]))
    /\ Goto(p, IF schan[p] = ticks THEN "tick_check" ELSE "wait_scan")
    /\ schan' = [schan EXCEPT ![p] = null]
    /\ UNCHANGED <<pvars, cvars, i, np, havekids, n>>

-----------------------------------------------------------------------------

(* fork() *)

\* allocproc() and everything up to release(&np->lock)
fork_alloc(c, p, t) ==
    /\ SyscallEntry(c, p)
    /\ state[t] = "UNUSED"
    /\ acquire_release(t)
    /\ state' = [state EXCEPT ![t] = "USED"]
    /\ pc' = [pc EXCEPT ![p] = "fork_parent", ![t] = "forkret"]
    /\ np' = [np EXCEPT ![p] = t]
    /\ UNCHANGED <<chan, killed, parent, cvars, i, havekids, schan, n>>

\* kalloc, proc_pagetable or uvmcopy fails: the slot goes back
fork_fail(c, p, t) ==
    /\ SyscallEntry(c, p)
    /\ state[t] = "UNUSED"
    /\ acquire_release(t)
    /\ freeproc(t)
    /\ Goto(p, "ret")
    /\ UNCHANGED <<cvars, lvars>>

\* allocproc() finds no slot
fork_full(c, p) ==
    /\ SyscallEntry(c, p)
    /\ \A t \in Procs : state[t] # "UNUSED"
    /\ Goto(p, "ret")
    /\ UNCHANGED <<pvars, lock, cvars, lvars>>

fork_parent(c, p) ==
    /\ At(c, p, "fork_parent")
    /\ acquire_release(wait_lock)
    /\ parent' = [parent EXCEPT ![np[p]] = p]
    /\ Goto(p, "fork_run")
    /\ UNCHANGED <<state, chan, killed, cvars, lvars>>

fork_run(c, p) ==
    /\ At(c, p, "fork_run")
    /\ acquire_release(np[p])
    /\ state' = [state EXCEPT ![np[p]] = "RUNNABLE"]
    /\ np' = [np EXCEPT ![p] = null]
    /\ Goto(p, "ret")
    /\ UNCHANGED <<chan, killed, parent, cvars, i, havekids, schan, n>>

-----------------------------------------------------------------------------

(* exit() *)

Children(p) == {t \in Procs : parent[t] = p}

\* Mutant: no reparent().
exit_lock_orphans(c, p) ==
    /\ At(c, p, "exit_lock")
    /\ acquire(c, wait_lock)
    /\ Goto(p, "exit_wakeparent")
    /\ UNCHANGED <<pvars, cvars, lvars>>

\* acquire(&wait_lock) and reparent().  The wakeup(initproc) calls of the loop
\* become one: none of them can be separated by a sleep of initproc, which
\* needs wait_lock.
exit_lock(c, p) ==
    /\ At(c, p, "exit_lock")
    /\ acquire(c, wait_lock)
    /\ parent' = [t \in Procs |-> IF parent[t] = p THEN initproc ELSE parent[t]]
    /\ Goto(p, IF Children(p) # {} THEN "exit_wakeinit" ELSE "exit_wakeparent")
    /\ UNCHANGED <<state, chan, killed, cvars, lvars>>

\* one iteration of wakeup(ch) in thread p, which goes on to l2 after the last
exit_wake(c, p, l, ch, l2) ==
    /\ At(c, p, l)
    /\ wakeup1(c, ch, i[p])
    /\ i' = [i EXCEPT ![p] = (@ + 1) % NPROC]
    /\ Goto(p, IF i[p] = NPROC - 1 THEN l2 ELSE l)
    /\ UNCHANGED <<chan, killed, parent, lock, cvars, np, havekids, schan, n>>

exit_wakeinit(c, p) == exit_wake(c, p, "exit_wakeinit", initproc, "exit_wakeparent")

\* Mutant: wakeup(p) for wakeup(p->parent).
exit_wakeparent_self(c, p) == exit_wake(c, p, "exit_wakeparent", p, "exit_zombie")

exit_wakeparent(c, p) == exit_wake(c, p, "exit_wakeparent", parent[p], "exit_zombie")

exit_zombie(c, p) ==
    /\ At(c, p, "exit_zombie")
    /\ acquire(c, p)
    /\ state' = [state EXCEPT ![p] = "ZOMBIE"]
    /\ Goto(p, "exit_release")
    /\ UNCHANGED <<chan, killed, parent, cvars, lvars>>

\* Mutant: wait_lock is kept.
exit_release_none(c, p) ==
    /\ At(c, p, "exit_release")
    /\ EnterSched(c)
    /\ Goto(p, "none")
    /\ UNCHANGED <<pvars, lock, cproc, next, clk, lvars>>

\* release(&wait_lock) and sched(), from which there is no return
exit_release(c, p) ==
    /\ At(c, p, "exit_release")
    /\ release(wait_lock)
    /\ EnterSched(c)
    /\ Goto(p, "none")
    /\ UNCHANGED <<pvars, cproc, next, clk, lvars>>

-----------------------------------------------------------------------------

(* wait() and waitx(), which lock and scan alike *)

wait_enter(c, p) ==
    /\ At(c, p, "wait_lock")
    /\ acquire(c, wait_lock)
    /\ Goto(p, "wait_scan")
    /\ UNCHANGED <<pvars, cvars, lvars>>

\* the next child the scan meets, if any: p->parent needs no p->lock
RestOfScan(p) == {t \in Children(p) : t >= i[p]}

NextChild(p) == CHOOSE t \in RestOfScan(p) : \A u \in RestOfScan(p) : t <= u

\* a child that is no zombie
wait_skip(c, p) ==
    /\ At(c, p, "wait_scan")
    /\ RestOfScan(p) # {}
    /\ acquire_release(NextChild(p))
    /\ state[NextChild(p)] # "ZOMBIE"
    /\ havekids' = [havekids EXCEPT ![p] = TRUE]
    /\ i' = [i EXCEPT ![p] = NextChild(p) + 1]
    /\ UNCHANGED <<pvars, cvars, pc, np, schan, n>>

\* leave wait(): every exit path releases wait_lock
WaitDone(p) ==
    /\ release(wait_lock)
    /\ i' = [i EXCEPT ![p] = 0]
    /\ havekids' = [havekids EXCEPT ![p] = FALSE]
    /\ Goto(p, "ret")

wait_reap(c, p) ==
    /\ At(c, p, "wait_scan")
    /\ RestOfScan(p) # {}
    /\ lock[NextChild(p)] = Free
    /\ state[NextChild(p)] = "ZOMBIE"
    /\ freeproc(NextChild(p))
    /\ WaitDone(p)
    /\ UNCHANGED <<cvars, np, schan, n>>

\* copyout() of the exit status fails: the zombie stays
wait_copyfail(c, p) ==
    /\ At(c, p, "wait_scan")
    /\ RestOfScan(p) # {}
    /\ lock[NextChild(p)] = Free
    /\ state[NextChild(p)] = "ZOMBIE"
    /\ WaitDone(p)
    /\ UNCHANGED <<pvars, cvars, np, schan, n>>

\* end of the scan: no children, or killed(p), which takes p->lock
wait_none(c, p) ==
    /\ At(c, p, "wait_scan")
    /\ RestOfScan(p) = {}
    /\ havekids[p] => lock[p] = Free /\ killed[p]
    /\ WaitDone(p)
    /\ UNCHANGED <<pvars, cvars, np, schan, n>>

wait_sleep(c, p) ==
    /\ At(c, p, "wait_scan")
    /\ RestOfScan(p) = {}
    /\ havekids[p]
    /\ acquire_release(p)
    /\ ~killed[p]
    /\ i' = [i EXCEPT ![p] = 0]
    /\ havekids' = [havekids EXCEPT ![p] = FALSE]
    /\ schan' = [schan EXCEPT ![p] = p]
    /\ Goto(p, "sleep_lock")
    /\ UNCHANGED <<pvars, cvars, np, n>>

-----------------------------------------------------------------------------

(* kill(), sys_sleep() and clockintr() *)

\* Mutant: the victim becomes RUNNABLE whatever its state.
kill_always(c, p, t) ==
    /\ SyscallEntry(c, p)
    /\ p # initproc
    /\ t # initproc
    /\ acquire_release(t)
    /\ killed' = [killed EXCEPT ![t] = TRUE]
    /\ state' = [state EXCEPT ![t] = "RUNNABLE"]
    /\ Goto(p, "ret")
    /\ UNCHANGED <<chan, parent, cvars, lvars>>

\* kill(pid): t is the slot the loop finds with that pid.  A freed slot has
\* pid 0, so kill(0) finds one.  Pids are never reused, so a pid that left the
\* table finds nothing.  kill(1) is left out: init exiting panics by design.
kill(c, p, t) ==
    /\ SyscallEntry(c, p)
    /\ p # initproc
    /\ t # initproc
    /\ acquire_release(t)
    /\ killed' = [killed EXCEPT ![t] = TRUE]
    /\ state' = IF state[t] = "SLEEPING" THEN [state EXCEPT ![t] = "RUNNABLE"] ELSE state
    /\ Goto(p, "ret")
    /\ UNCHANGED <<chan, parent, cvars, lvars>>

\* no slot has the pid
kill_none(c, p) ==
    /\ SyscallEntry(c, p)
    /\ p # initproc
    /\ Goto(p, "ret")
    /\ UNCHANGED <<pvars, lock, cvars, lvars>>

tick_lock(c, p) ==
    /\ At(c, p, "tick_lock")
    /\ acquire(c, tickslock)
    /\ \E k \in 0 .. MaxSleep : n' = [n EXCEPT ![p] = k]
    /\ Goto(p, "tick_check")
    /\ UNCHANGED <<pvars, cvars, i, np, havekids, schan>>

\* while (ticks - ticks0 < n) { if (killed(p)) return -1; sleep(&ticks, &tickslock); }
tick_done(c, p) ==
    /\ At(c, p, "tick_check")
    /\ n[p] > 0 => lock[p] = Free /\ killed[p]
    /\ release(tickslock)
    /\ n' = [n EXCEPT ![p] = 0]
    /\ Goto(p, "ret")
    /\ UNCHANGED <<pvars, cvars, i, np, havekids, schan>>

tick_sleep(c, p) ==
    /\ At(c, p, "tick_check")
    /\ n[p] > 0
    /\ acquire_release(p)
    /\ ~killed[p]
    /\ schan' = [schan EXCEPT ![p] = ticks]
    /\ Goto(p, "sleep_lock")
    /\ UNCHANGED <<pvars, cvars, i, np, havekids, n>>

\* clockintr(): ticks++.  Interrupts are off while this CPU holds a spinlock.
\* update_time(), which takes each p->lock in turn to count rtime, is left out.
clock_start ==
    /\ clk = NPROC
    /\ Held(Cpu0) = {}
    /\ acquire(Cpu0, tickslock)
    /\ clk' = 0
    /\ n' = [p \in Procs |-> IF n[p] > 0 THEN n[p] - 1 ELSE 0]
    /\ UNCHANGED <<pvars, cproc, sw, next, pc, i, np, havekids, schan>>

\* Mutant: the loop stops before the last slot.
clock_wake_short ==
    /\ clk # NPROC
    /\ wakeup1(Cpu0, ticks, clk)
    /\ clk' = IF clk + 2 >= NPROC THEN NPROC ELSE clk + 1
    /\ lock' = IF clk + 2 >= NPROC THEN [lock EXCEPT ![tickslock] = Free] ELSE lock
    /\ UNCHANGED <<chan, killed, parent, cproc, sw, next, tvars>>

\* clockintr(): one iteration of wakeup(&ticks); the last releases tickslock
clock_wake ==
    /\ clk # NPROC
    /\ wakeup1(Cpu0, ticks, clk)
    /\ clk' = clk + 1
    /\ lock' = IF clk = NPROC - 1 THEN [lock EXCEPT ![tickslock] = Free] ELSE lock
    /\ UNCHANGED <<chan, killed, parent, cproc, sw, next, tvars>>

-----------------------------------------------------------------------------

\* procinit() and userinit(): initproc is RUNNABLE, at forkret
Init ==
    /\ state = [p \in Procs |-> IF p = initproc THEN "RUNNABLE" ELSE "UNUSED"]
    /\ chan = [p \in Procs |-> null]
    /\ killed = [p \in Procs |-> FALSE]
    /\ parent = [p \in Procs |-> null]
    /\ lock = [l \in Locks |-> Free]
    /\ cproc = [c \in CPUs |-> null]
    /\ sw = [c \in CPUs |-> FALSE]
    /\ next = [c \in CPUs |-> 0]
    /\ clk = NPROC
    /\ pc = [p \in Procs |-> IF p = initproc THEN "forkret" ELSE "none"]
    /\ i = [p \in Procs |-> 0]
    /\ np = [p \in Procs |-> null]
    /\ havekids = [p \in Procs |-> FALSE]
    /\ schan = [p \in Procs |-> null]
    /\ n = [p \in Procs |-> 0]

\* the thread on CPU c moves
ThreadStep(c, p) ==
    \/ UserRet(c, p) \/ UserYield(c, p) \/ syscall(c, p) \/ syscall_killed(c, p)
    \/ sleep_lock(c, p) \/ sleep_release(c, p) \/ sleep_sched(c, p) \/ sleep_relock(c, p)
    \/ \E t \in Procs : fork_alloc(c, p, t) \/ fork_fail(c, p, t)
    \/ fork_full(c, p) \/ fork_parent(c, p) \/ fork_run(c, p)
    \/ exit_lock(c, p) \/ exit_wakeinit(c, p) \/ exit_wakeparent(c, p)
    \/ exit_zombie(c, p) \/ exit_release(c, p)
    \/ wait_enter(c, p) \/ wait_skip(c, p) \/ wait_reap(c, p) \/ wait_copyfail(c, p)
    \/ wait_none(c, p) \/ wait_sleep(c, p)
    \/ \E t \in Procs : kill(c, p, t)
    \/ kill_none(c, p)
    \/ tick_lock(c, p) \/ tick_done(c, p) \/ tick_sleep(c, p)

Next ==
    \/ \E c \in CPUs : scheduler(c) \/ sched(c)
    \/ \E c \in CPUs : \E p \in myproc(c) :
          ThreadStep(c, p) \/ UserTimer(c, p) \/ KernelTimer(c, p)
    \/ clock_start
    \/ clock_wake

Spec == Init /\ [][Next]_vars

\* the lock that the next acquire() of thread p asks for
Wanted(p) == CASE pc[p] \in {"fork_parent", "exit_lock", "wait_lock"} -> wait_lock
               [] pc[p] = "fork_run"     -> np[p]
               [] pc[p] = "tick_lock"    -> tickslock
               [] pc[p] = "sleep_relock" -> LockOf(schan[p])
               [] OTHER                  -> p

\* A thread whose next lock is taken has got to its acquire() by the next timer
\* interrupt, and spins there with interrupts off: a tick is long.
PromptNext ==
    /\ Next
    /\ \A c \in CPUs : \A p \in myproc(c) : KernelTimer(c, p) => lock[Wanted(p)] = Free

\* Every CPU and every thread on a CPU executes its instructions, and an
\* acquire() that finds the lock free again and again takes it in the end (SF).
\* A timer interrupt stays pending while interrupts are off, so it is taken in
\* the end, and a thread executes something between two of them.
Fairness ==
    /\ \A c \in CPUs : /\ SF_vars(scheduler(c) \/ sched(c))
                       /\ SF_vars(\E p \in myproc(c) : UserTimer(c, p))
    /\ \A p \in Procs : SF_vars(\E c \in CPUs : ThreadStep(c, p))
    /\ SF_vars(clock_start)
    /\ SF_vars(clock_wake)

FairSpec == Init /\ [][PromptNext]_vars /\ Fairness

-----------------------------------------------------------------------------

\* The variables keep the types of their declarations.
TypeOK ==
    /\ state \in [Procs -> procstate]
    /\ chan \in [Procs -> Procs \cup {null, ticks}]
    /\ killed \in [Procs -> BOOLEAN]
    /\ parent \in [Procs -> Procs \cup {null}]
    /\ lock \in [Locks -> CPUs \cup {Free}]
    /\ cproc \in [CPUs -> Procs \cup {null}]
    /\ sw \in [CPUs -> BOOLEAN]
    /\ next \in [CPUs -> Procs]
    /\ clk \in 0 .. NPROC
    /\ pc \in [Procs -> Labels]
    /\ i \in [Procs -> 0 .. NPROC]
    /\ np \in [Procs -> Procs \cup {null}]
    /\ havekids \in [Procs -> BOOLEAN]
    /\ schan \in [Procs -> Procs \cup {null, ticks}]
    /\ n \in [Procs -> 0 .. MaxSleep]

\* No two CPUs are on the kernel stack of one process.  A slot whose stack is
\* in use is never free, and from the moment its state leaves RUNNING until
\* swtch is over the CPU holds its p->lock, so that neither a scheduler nor
\* wait() can take it ("make sure the child isn't still in exit() or swtch()").
StackInUse ==
    \A c \in CPUs : cproc[c] # null =>
        /\ \A d \in CPUs \ {c} : cproc[d] # cproc[c]
        /\ state[cproc[c]] \notin {"UNUSED", "USED"}
        /\ state[cproc[c]] # "RUNNING" => lock[cproc[c]] = c

\* The panics of sched() are unreachable: whoever calls it holds p->lock, holds
\* no other spinlock (noff = 1), and has left the RUNNING state.
SchedLocks ==
    \A c \in CPUs : sw[c] =>
        /\ cproc[c] # null
        /\ Held(c) = {cproc[c]}
        /\ state[cproc[c]] # "RUNNING"

\* No wakeup is lost.  A parent is asleep in wait() while it has a zombie child
\* only if an exiting process is at this moment on its way to wake it, and a
\* sleeper on &ticks whose time has come is still ahead of clockintr()'s loop.
NoLostWakeup ==
    \A p \in Procs : state[p] = "SLEEPING" =>
        /\ (chan[p] = p /\ \E t \in Children(p) : state[t] = "ZOMBIE") =>
               /\ p = initproc
               /\ \E q \in Procs : pc[q] = "exit_wakeinit" /\ i[q] <= p
        /\ (chan[p] = ticks /\ n[p] = 0) => clk <= p

\* Whoever p->parent names is a process that can still call wait(): exit()
\* hands its children over before it becomes a zombie, and nobody becomes the
\* child of a process that has already done so.
ParentAlive ==
    \A p \in Procs : parent[p] # null =>
        /\ state[p] # "UNUSED"
        /\ state[parent[p]] \in {"RUNNABLE", "RUNNING", "SLEEPING"}

\* "Wake process from sleep()": a killed process is not left asleep.
KilledAwake ==
    \A p \in Procs : killed[p] => state[p] # "SLEEPING"

\* A process that wants to run is run: the round robin starves nobody.
RunnableRuns ==
    \A p \in Procs : state[p] = "RUNNABLE" ~> state[p] # "RUNNABLE"

InWait(p) == pc[p] = "wait_scan" \/ schan[p] = p

\* A parent in wait() with a zombie child returns from wait().
WaitReturns ==
    \A p \in Procs :
        (InWait(p) /\ \E t \in Children(p) : state[t] = "ZOMBIE") ~> ~InWait(p)

\* sys_sleep() returns.
SleepReturns ==
    \A p \in Procs : (pc[p] = "tick_check" \/ schan[p] = ticks) ~> pc[p] = "ret"

=============================================================================
