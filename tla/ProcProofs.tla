----------------------------- MODULE ProcProofs -----------------------------
(***************************************************************************)
(* Proofs about Proc: which CPU holds which spinlock at every point of the *)
(* process table's code, and from it that sched() never panics, that no    *)
(* kernel stack is shared, that p->parent always names a live process, and *)
(* that no wakeup is lost.  And about Alarm, the timer-driven handler of   *)
(* one such process: handlers never nest, and sigreturn() resumes what the *)
(* alarm interrupted.                                                      *)
(***************************************************************************)
EXTENDS Proc, Alarm, WellFoundedInduction, TLAPS

\* The spinlocks that thread p holds, by the code it is in.
Holds(p, l) ==
    \/ /\ l = wait_lock
       /\ pc[p] \in {"exit_wakeinit", "exit_wakeparent", "exit_zombie", "exit_release",
                     "wait_scan"}
    \/ l = tickslock /\ pc[p] = "tick_check"
    \/ l = LockOf(schan[p]) /\ pc[p] \in {"sleep_lock", "sleep_release"}
    \/ l = p /\ pc[p] \in {"exit_release", "sleep_release", "sleep_sched"}

\* The spinlocks CPU c holds: those of its thread, or p->lock alone once the
\* thread is in sched(); and tickslock in clockintr().
Owns(c, l) ==
    \/ InIntr(c) /\ l = tickslock
    \/ cproc[c] # null /\ IF sw[c] THEN l = cproc[c] ELSE Holds(cproc[c], l)

LockInv == \A c \in CPUs, l \in Locks : lock[l] = c <=> Owns(c, l)

\* Labels at which a thread may be off its CPU: no spinlock is held there.
Resting == Preemptible \cup {"none", "forkret", "user", "sleep_wake"}

\* A clock interrupt finds its CPU without spinlocks.
IntrInv ==
    clk # NPROC =>
        /\ ~sw[Cpu0]
        /\ cproc[Cpu0] # null => \A l \in Locks : ~Holds(cproc[Cpu0], l)

\* What a process on a CPU may be, and what one that is on none.
CpuInv ==
    /\ \A c, d \in CPUs : cproc[c] = cproc[d] /\ cproc[c] # null => c = d
    /\ \A c \in CPUs : sw[c] => /\ cproc[c] # null
                                /\ pc[cproc[c]] \in Resting
                                /\ state[cproc[c]] \in {"RUNNABLE", "SLEEPING", "ZOMBIE"}
    /\ \A c \in CPUs : cproc[c] # null /\ ~sw[c] =>
          \/ state[cproc[c]] = "RUNNING" /\ pc[cproc[c]] # "exit_release"
          \/ state[cproc[c]] = "ZOMBIE" /\ pc[cproc[c]] = "exit_release"
    /\ \A p \in Procs : (\A c \in CPUs : cproc[c] # p) =>
          state[p] # "RUNNING" /\ pc[p] \in Resting
    /\ \A p \in Procs : state[p] \in {"UNUSED", "USED"} => pc[p] \in {"none", "forkret"}
    /\ \A p \in Procs : state[p] = "ZOMBIE" => pc[p] \in {"none", "exit_release"}

\* A child under construction belongs to one fork().
ForkInv ==
    /\ \A p \in Procs : pc[p] \in {"fork_parent", "fork_run"} =>
          np[p] \in Procs /\ state[np[p]] = "USED"
    /\ \A p, q \in Procs :
          pc[p] \in {"fork_parent", "fork_run"} /\ pc[q] \in {"fork_parent", "fork_run"} =>
              (np[p] = np[q] => p = q)

Exiting == {"exit_wakeinit", "exit_wakeparent", "exit_zombie", "exit_release"}

\* Past reparent() a process has no children, and init never gets there.
ParentInv ==
    /\ \A p \in Procs : pc[p] \in Exiting \/ state[p] = "ZOMBIE" => Children(p) = {}
    /\ \A p \in Procs : state[p] = "UNUSED" => parent[p] = null
    /\ ~killed[initproc]
    /\ pc[initproc] \notin Exiting \cup {"exit_lock"}
    /\ state[initproc] \in {"RUNNABLE", "RUNNING", "SLEEPING"}
    /\ ParentAlive

IInv == TypeOK /\ LockInv /\ IntrInv /\ CpuInv /\ ForkInv /\ ParentInv

-----------------------------------------------------------------------------

(* Types, in three groups: the table, the CPUs and locks, the threads *)

TypeP ==
    /\ state \in [Procs -> procstate]
    /\ chan \in [Procs -> Procs \cup {null, ticks}]
    /\ killed \in [Procs -> BOOLEAN]
    /\ parent \in [Procs -> Procs \cup {null}]

TypeC ==
    /\ lock \in [Locks -> CPUs \cup {Free}]
    /\ cproc \in [CPUs -> Procs \cup {null}]
    /\ sw \in [CPUs -> BOOLEAN]
    /\ next \in [CPUs -> Procs]
    /\ clk \in 0 .. NPROC

TypeT ==
    /\ pc \in [Procs -> Labels]
    /\ i \in [Procs -> 0 .. NPROC]
    /\ np \in [Procs -> Procs \cup {null}]
    /\ havekids \in [Procs -> BOOLEAN]
    /\ schan \in [Procs -> Procs \cup {null, ticks}]
    /\ n \in [Procs -> 0 .. MaxSleep]

\* The groups make up the type invariant.
LEMMA TypeGroups ==
  /\ TypeOK <=> TypeP /\ TypeC /\ TypeT
  /\ TypeOK' <=> TypeP' /\ TypeC' /\ TypeT'
  BY DEF TypeOK, TypeP, TypeC, TypeT

\* A positive number is not 0.
LEMMA Positive == \A k : k > 0 => k # 0
  BY SMT

\* The slots are the numbers below NPROC; null, the channel &ticks, wait_lock and
\* tickslock are none of them.
LEMMA SlotFacts ==
  /\ initproc \in Procs /\ NPROC \in Nat /\ NPROC > 0
  /\ null \notin Procs /\ ticks \notin Procs /\ ticks # null
  /\ wait_lock \notin Procs /\ tickslock \notin Procs /\ wait_lock # tickslock
  /\ Procs \subseteq Locks /\ wait_lock \in Locks /\ tickslock \in Locks
  /\ \A p \in Procs : p \in 0 .. NPROC /\ p + 1 \in 0 .. NPROC /\ (p + 1) % NPROC \in Procs
  /\ \A k \in 0 .. NPROC : k # NPROC => k \in Procs
  BY NPROCAssumption
  DEF initproc, Procs, null, ticks, wait_lock, tickslock, Locks

\* A set of slots that is not empty has a least one.
LEMMA LeastSlot ==
  ASSUME NEW T, T \subseteq Nat, T # {}
  PROVE  \E x \in T : \A y \in T : x <= y
  <1> DEFINE R == OpToRel(<, Nat)
  <1>1. IsWellFoundedOn(R, Nat)
    BY Zenon, NatLessThanWellFounded
  <1>2. \A x, y \in Nat : y < x => <<y, x>> \in R
    BY DEF OpToRel
  <1> HIDE DEF R
  <1>3. PICK x \in T : \A y \in T : ~ (<<y, x>> \in R)
    BY Zenon, <1>1, WFMin
  <1>4. ASSUME NEW y \in T
        PROVE  x <= y
    <2>1. x \in Nat /\ y \in Nat
      OBVIOUS
    <2>2. ~(y < x)
      BY Zenon, <1>2, <1>3, <2>1
    <2>. QED BY <2>1, <2>2
  <1>. QED BY <1>4

\* A scan that has children left finds one of them.
LEMMA NextChildIn ==
  ASSUME NEW p \in Procs, RestOfScan(p) # {}
  PROVE  /\ NextChild(p) \in Procs /\ parent[NextChild(p)] = p
  <1>1. \E t \in RestOfScan(p) : \A u \in RestOfScan(p) : t <= u
    <2>1. RestOfScan(p) \subseteq Nat
      BY NPROCAssumption DEF RestOfScan, Children, Procs
    <2>. QED BY <2>1, LeastSlot, Zenon
  <1>. QED BY <1>1 DEF NextChild, RestOfScan, Children

\* No step takes a field of the table out of its type.
LEMMA TypePInductive == TypeOK /\ [Next]_vars => TypeP'
  <1> SUFFICES ASSUME TypeOK, [Next]_vars
               PROVE  TypeP'
    OBVIOUS
  <1>t. TypeP /\ TypeC /\ TypeT
    BY TypeGroups
  <1> USE SlotFacts DEF TypeP, procstate
  <1>1. CASE UNCHANGED pvars
    BY <1>1, <1>t DEF pvars
  <1>2. ASSUME NEW c \in CPUs, scheduler(c)
        PROVE  TypeP'
    BY <1>2, <1>t DEF scheduler, scheduler1, Resume, acquire_release, null
  <1>3. ASSUME NEW c \in CPUs, NEW p \in Procs, UserYield(c, p)
        PROVE  TypeP'
    BY <1>3, <1>t DEF UserYield, yield, acquire, EnterSched, Goto
  <1>4. ASSUME NEW c \in CPUs, NEW p \in Procs, KernelTimer(c, p)
        PROVE  TypeP'
    BY <1>4, <1>t DEF KernelTimer, yield, acquire, EnterSched, Goto, Preemptible
  <1>5. ASSUME NEW c \in CPUs, NEW p \in Procs, sleep_sched(c, p)
        PROVE  TypeP'
    BY <1>5, <1>t DEF sleep_sched, EnterSched, Goto, TypeT
  <1>6. ASSUME NEW c \in CPUs, NEW p \in Procs, NEW t \in Procs,
               fork_alloc(c, p, t)
        PROVE  TypeP'
    BY <1>6, <1>t DEF fork_alloc, acquire_release
  <1>7. ASSUME NEW c \in CPUs, NEW p \in Procs, NEW t \in Procs,
               fork_fail(c, p, t)
        PROVE  TypeP'
    BY <1>7, <1>t DEF fork_fail, freeproc, acquire_release, Goto
  <1>8. ASSUME NEW c \in CPUs, NEW p \in Procs, fork_parent(c, p)
        PROVE  TypeP'
    BY Zenon, <1>8, <1>t DEF fork_parent, acquire_release, Goto
  <1>9. ASSUME NEW c \in CPUs, NEW p \in Procs, fork_run(c, p)
        PROVE  TypeP'
    BY Zenon, <1>9, <1>t DEF fork_run, acquire_release, Goto
  <1>10. ASSUME NEW c \in CPUs, NEW p \in Procs, exit_lock(c, p)
        PROVE  TypeP'
    BY <1>10, <1>t DEF exit_lock, acquire, Goto
  <1>11. ASSUME NEW c \in CPUs, NEW p \in Procs, exit_wakeinit(c, p)
        PROVE  TypeP'
    BY <1>11, <1>t DEF exit_wakeinit, exit_wake, wakeup1, Goto
  <1>12. ASSUME NEW c \in CPUs, NEW p \in Procs, exit_wakeparent(c, p)
        PROVE  TypeP'
    BY <1>12, <1>t DEF exit_wakeparent, exit_wake, wakeup1, Goto
  <1>13. ASSUME NEW c \in CPUs, NEW p \in Procs, exit_zombie(c, p)
        PROVE  TypeP'
    BY <1>13, <1>t DEF exit_zombie, acquire, Goto
  <1>14. ASSUME NEW c \in CPUs, NEW p \in Procs, wait_reap(c, p)
        PROVE  TypeP'
    BY Zenon, <1>14, <1>t DEF wait_reap, freeproc, WaitDone, release, Goto
  <1>15. ASSUME NEW c \in CPUs, NEW p \in Procs, NEW t \in Procs,
               kill(c, p, t)
        PROVE  TypeP'
    BY <1>15, <1>t DEF kill, acquire_release, Goto
  <1>16. CASE clock_wake
    BY <1>16, <1>t DEF clock_wake, wakeup1
  <1>17. ASSUME NEW c \in CPUs, NEW p \in Procs,
                UserRet(c, p) \/ UserTimer(c, p) \/ syscall(c, p) \/
                syscall_killed(c, p) \/ sleep_lock(c, p) \/ sleep_release(c, p) \/
                sleep_relock(c, p) \/ fork_full(c, p) \/ exit_release(c, p) \/
                wait_enter(c, p) \/ wait_skip(c, p) \/ wait_copyfail(c, p) \/
                wait_none(c, p) \/ wait_sleep(c, p) \/ kill_none(c, p) \/
                tick_lock(c, p) \/ tick_done(c, p) \/ tick_sleep(c, p)
         PROVE  UNCHANGED pvars
    BY <1>17
    DEF UserRet, UserTimer, syscall, syscall_killed, sleep_lock, sleep_release,
        sleep_relock, fork_full, exit_release, wait_enter, wait_skip, wait_copyfail,
        wait_none, wait_sleep, kill_none, tick_lock, tick_done, tick_sleep, WaitDone
  <1>18. ASSUME NEW c \in CPUs, sched(c)
         PROVE  UNCHANGED pvars
    BY <1>18 DEF sched
  <1>19. CASE clock_start
    BY <1>1, <1>19 DEF clock_start
  <1>20. CASE UNCHANGED vars
    BY Zenon, <1>1, <1>20 DEF vars, pvars
  <1> HIDE SlotFacts DEF TypeP, procstate
  <1>21. ASSUME NEW c \in CPUs, NEW p \in Procs,
                ThreadStep(c, p) \/ UserTimer(c, p) \/ KernelTimer(c, p)
         PROVE  TypeP'
    BY Zenon, <1>1, <1>3, <1>4, <1>5, <1>6, <1>7, <1>8, <1>9, <1>10, <1>11, <1>12,
       <1>13, <1>14, <1>15, <1>17, <1>21
    DEF ThreadStep
  <1>. QED
    BY Zenon, <1>1, <1>2, <1>16, <1>18, <1>19, <1>20, <1>21 DEF Next, myproc

\* No step takes a lock or a CPU's variables out of their types.
LEMMA TypeCInductive == TypeOK /\ [Next]_vars => TypeC'
  <1> SUFFICES ASSUME TypeOK, [Next]_vars
               PROVE  TypeC'
    OBVIOUS
  <1>t. TypeP /\ TypeC /\ TypeT
    BY TypeGroups
  <1> USE SlotFacts, CPUAssumption DEF TypeC
  <1>1. ASSUME NEW c \in CPUs, NEW p \in Procs,
               UserYield(c, p)
        PROVE  TypeC'
    BY <1>1, <1>t
    DEF UserYield, yield, acquire, EnterSched, cvars, LockOf
  <1>2. ASSUME NEW c \in CPUs, NEW p \in Procs,
               KernelTimer(c, p)
        PROVE  TypeC'
    BY <1>2, <1>t
    DEF KernelTimer, yield, acquire, EnterSched, Preemptible, cvars, LockOf
  <1>3. ASSUME NEW c \in CPUs, NEW p \in Procs,
               sleep_sched(c, p)
        PROVE  TypeC'
    BY <1>3, <1>t
    DEF sleep_sched, EnterSched, cvars, LockOf
  <1>4. ASSUME NEW c \in CPUs, NEW p \in Procs,
               exit_release(c, p)
        PROVE  TypeC'
    BY <1>4, <1>t
    DEF exit_release, release, EnterSched, cvars, LockOf
  <1>5. ASSUME NEW c \in CPUs, NEW p \in Procs,
               UserRet(c, p) \/ UserTimer(c, p) \/ syscall(c, p) \/
               syscall_killed(c, p)
        PROVE  TypeC'
    BY <1>5, <1>t
    DEF UserRet, acquire_release, UserTimer, syscall, syscall_killed, cvars, LockOf
  <1>6. ASSUME NEW c \in CPUs, NEW p \in Procs,
               (\E t \in Procs : fork_alloc(c, p, t)) \/ (\E t \in Procs :
               fork_fail(c, p, t)) \/ fork_full(c, p) \/ fork_parent(c, p) \/
               fork_run(c, p)
        PROVE  TypeC'
    BY <1>6, <1>t
    DEF fork_alloc, acquire_release, fork_fail, fork_full, fork_parent, fork_run, cvars,
        LockOf
  <1>7. ASSUME NEW c \in CPUs, NEW p \in Procs,
               wait_skip(c, p) \/ wait_sleep(c, p) \/ (\E t \in Procs : kill(c,
               p, t)) \/ kill_none(c, p) \/ tick_sleep(c, p)
        PROVE  TypeC'
    BY <1>7, <1>t
    DEF wait_skip, acquire_release, wait_sleep, kill, kill_none, tick_sleep, cvars,
        LockOf
  <1>8. ASSUME NEW c \in CPUs, NEW p \in Procs,
               exit_wakeinit(c, p) \/ exit_wakeparent(c, p)
        PROVE  TypeC'
    BY Zenon, <1>8, <1>t
    DEF exit_wakeinit, exit_wake, exit_wakeparent, cvars, LockOf
  <1>9. ASSUME NEW c \in CPUs, NEW p \in Procs,
               sleep_lock(c, p) \/ sleep_relock(c, p) \/ exit_lock(c, p) \/
               exit_zombie(c, p) \/ wait_enter(c, p) \/ tick_lock(c, p)
        PROVE  TypeC'
    BY SMTT(60), <1>9, <1>t
    DEF sleep_lock, acquire, sleep_relock, exit_lock, exit_zombie, wait_enter,
        tick_lock, cvars, LockOf
  <1>10. ASSUME NEW c \in CPUs, NEW p \in Procs,
               sleep_release(c, p) \/ wait_reap(c, p) \/ wait_copyfail(c, p) \/
               wait_none(c, p) \/ tick_done(c, p)
        PROVE  TypeC'
    BY <1>10, <1>t
    DEF sleep_release, release, wait_reap, WaitDone, wait_copyfail, wait_none,
        tick_done, cvars, LockOf
  <1>11. ASSUME NEW c \in CPUs, scheduler(c)
        PROVE  TypeC'
    BY <1>11, <1>t DEF scheduler, scheduler1, acquire_release, null
  <1>12. ASSUME NEW c \in CPUs, sched(c)
        PROVE  TypeC'
    BY Zenon, <1>12, <1>t DEF sched, release, null
  <1>13. CASE clock_start
    BY <1>13, <1>t DEF clock_start, acquire
  <1>14. CASE clock_wake
    BY <1>14, <1>t DEF clock_wake
  <1>15. CASE UNCHANGED vars
    BY <1>15, <1>t DEF vars
  <1> HIDE DEF TypeC
  <1>. QED
    BY ZenonT(60), <1>1, <1>2, <1>3, <1>4, <1>5, <1>6, <1>7, <1>8, <1>9, <1>10, <1>11, <1>12,
       <1>13, <1>14, <1>15
    DEF Next, ThreadStep, myproc

\* No step takes a thread's variables out of their types.
LEMMA TypeTInductive == TypeOK /\ [Next]_vars => TypeT'
  <1> SUFFICES ASSUME TypeOK, [Next]_vars
               PROVE  TypeT'
    OBVIOUS
  <1>t. TypeP /\ TypeC /\ TypeT
    BY TypeGroups
  <1> USE SlotFacts, MaxSleepAssumption DEF TypeT
  <1>1. ASSUME NEW p \in Procs, NEW l \in Labels, Goto(p, l), UNCHANGED lvars
        PROVE  TypeT'
    BY <1>1, <1>t DEF Goto, lvars
  <1>2. ASSUME NEW c \in CPUs, NEW p \in Procs,
               UserRet(c, p) \/ UserTimer(c, p) \/ UserYield(c, p) \/
               KernelTimer(c, p) \/ syscall(c, p) \/ syscall_killed(c, p) \/
               sleep_lock(c, p) \/ sleep_release(c, p) \/ sleep_sched(c, p) \/
               (\E t \in Procs : fork_fail(c, p, t)) \/ fork_full(c, p) \/
               fork_parent(c, p) \/ exit_lock(c, p) \/ exit_zombie(c, p) \/
               exit_release(c, p) \/ wait_enter(c, p) \/ (\E t \in Procs :
               kill(c, p, t)) \/ kill_none(c, p)
        PROVE  TypeT'
    <2>1. UNCHANGED lvars /\ \E l \in Labels : Goto(p, l)
      BY <1>2
      DEF UserRet, UserTimer, UserYield, KernelTimer, syscall, syscall_killed, sleep_lock,
        sleep_release, sleep_sched, fork_fail, fork_full, fork_parent, exit_lock,
        exit_zombie, exit_release, wait_enter, kill, kill_none, yield, Preemptible, Labels
    <2>. QED BY ZenonT(60), <1>1, <2>1
  <1>3. ASSUME NEW c \in CPUs, scheduler(c)
        PROVE  TypeT'
    BY <1>3, <1>t DEF scheduler, scheduler1, Resume, Labels, lvars
  <1>4. ASSUME NEW c \in CPUs, NEW p \in Procs, sleep_relock(c, p)
        PROVE  TypeT'
    BY <1>4, <1>t DEF sleep_relock, Goto, Labels, lvars
  <1>5. ASSUME NEW c \in CPUs, NEW p \in Procs, NEW t \in Procs,
               fork_alloc(c, p, t)
        PROVE  TypeT'
    BY <1>5, <1>t DEF fork_alloc, Labels, lvars
  <1>6. ASSUME NEW c \in CPUs, NEW p \in Procs, fork_run(c, p)
        PROVE  TypeT'
    BY <1>6, <1>t DEF fork_run, Goto, Labels, lvars
  <1>7. ASSUME NEW c \in CPUs, NEW p \in Procs, exit_wakeinit(c, p)
        PROVE  TypeT'
    BY <1>7, <1>t DEF exit_wakeinit, exit_wake, Goto, Labels, lvars
  <1>8. ASSUME NEW c \in CPUs, NEW p \in Procs, exit_wakeparent(c, p)
        PROVE  TypeT'
    BY <1>8, <1>t DEF exit_wakeparent, exit_wake, Goto, Labels, lvars
  <1>9. ASSUME NEW c \in CPUs, NEW p \in Procs, wait_skip(c, p)
        PROVE  TypeT'
    BY <1>9, <1>t, NextChildIn DEF wait_skip, Labels, lvars
  <1>10. ASSUME NEW c \in CPUs, NEW p \in Procs, wait_reap(c, p)
        PROVE  TypeT'
    BY <1>10, <1>t DEF wait_reap, WaitDone, Goto, Labels, lvars
  <1>11. ASSUME NEW c \in CPUs, NEW p \in Procs, wait_copyfail(c, p)
        PROVE  TypeT'
    BY <1>11, <1>t DEF wait_copyfail, WaitDone, Goto, Labels, lvars
  <1>12. ASSUME NEW c \in CPUs, NEW p \in Procs, wait_none(c, p)
        PROVE  TypeT'
    BY <1>12, <1>t DEF wait_none, WaitDone, Goto, Labels, lvars
  <1>13. ASSUME NEW c \in CPUs, NEW p \in Procs, wait_sleep(c, p)
        PROVE  TypeT'
    BY <1>13, <1>t DEF wait_sleep, Goto, Labels, lvars
  <1>14. ASSUME NEW c \in CPUs, NEW p \in Procs, tick_lock(c, p)
        PROVE  TypeT'
    BY <1>14, <1>t DEF tick_lock, Goto, Labels, lvars
  <1>15. ASSUME NEW c \in CPUs, NEW p \in Procs, tick_done(c, p)
        PROVE  TypeT'
    BY <1>15, <1>t DEF tick_done, Goto, Labels, lvars
  <1>16. ASSUME NEW c \in CPUs, NEW p \in Procs, tick_sleep(c, p)
        PROVE  TypeT'
    BY <1>16, <1>t DEF tick_sleep, Goto, Labels, lvars
  <1>17. CASE clock_start
    BY <1>17, <1>t DEF clock_start, Labels, lvars
  <1>18. CASE UNCHANGED tvars
    BY <1>18, <1>t, Zenon DEF tvars, lvars
  <1>19. ASSUME NEW c \in CPUs, sched(c)
         PROVE  TypeT'
    BY <1>18, <1>19 DEF sched
  <1>20. CASE clock_wake
    BY <1>18, <1>20 DEF clock_wake
  <1>21. CASE UNCHANGED vars
    BY <1>18, <1>21 DEF vars, tvars, lvars
  <1> HIDE SlotFacts, MaxSleepAssumption DEF TypeT
  <1>. QED
    BY ZenonT(60), <1>1, <1>2, <1>3, <1>4, <1>5, <1>6, <1>7, <1>8, <1>9, <1>10, <1>11, <1>12,
       <1>13, <1>14, <1>15, <1>16, <1>17, <1>19, <1>20, <1>21
    DEF Next, ThreadStep, myproc

\* Every step preserves the type invariant.
LEMMA TypeInductive == TypeOK /\ [Next]_vars => TypeOK'
  BY TypePInductive, TypeCInductive, TypeTInductive, TypeGroups

-----------------------------------------------------------------------------

(* Locks and CPUs *)

\* No CPU is on the stack of q.
Off(q) == \A d \in CPUs : cproc[d] # q

\* A slot that is being built, or that is RUNNABLE or ZOMBIE with p->lock free,
\* is on no CPU.
LEMMA OffCpu ==
  ASSUME TypeOK, LockInv, CpuInv, NEW t \in Procs
  PROVE  /\ state[t] \in {"UNUSED", "USED"} => Off(t)
         /\ state[t] \in {"RUNNABLE", "ZOMBIE"} /\ lock[t] = Free => Off(t)
  <1>1. ASSUME NEW d \in CPUs, cproc[d] = t
        PROVE  /\ state[t] \notin {"UNUSED", "USED"}
               /\ state[t] \in {"RUNNABLE", "ZOMBIE"} => lock[t] = d
    <2>1. t # null /\ t \in Locks
      BY Zenon, SlotFacts
    <2>2. CASE sw[d]
      BY Zenon, <1>1, <2>1, <2>2 DEF CpuInv, LockInv, Owns
    <2>3. CASE ~sw[d]
      BY <1>1, <2>1, <2>3 DEF CpuInv, LockInv, Owns, Holds
    <2>. QED BY <2>2, <2>3
  <1>. QED BY <1>1, CPUAssumption DEF Off

\* The locks of a CPU that runs a thread are the thread's.
LEMMA ThreadLocks ==
  ASSUME LockInv, NEW c \in CPUs, NEW p \in Procs,
         cproc[c] = p, ~sw[c], ~InIntr(c)
  PROVE  \A l \in Locks : lock[l] = c <=> Holds(p, l)
  BY Zenon, SlotFacts DEF LockInv, Owns

\* What a step of thread p on CPU c does to the locks and to the CPUs: it stays
\* on its CPU, takes and gives back its own locks only, and is in sched() with
\* p->lock alone and a state other than RUNNING.
OwnEffect(c, p) ==
    /\ ~sw[c] /\ ~InIntr(c)
    /\ cproc' = cproc /\ clk' = clk
    /\ \A d \in CPUs \ {c} : sw'[d] = sw[d]
    /\ \A l \in Locks : lock'[l] # lock[l] => {lock[l], lock'[l]} = {c, Free}
    /\ \A l \in Locks : lock'[l] = c <=> IF sw'[c] THEN l = p ELSE Holds(p, l)'
    /\ IF sw'[c] THEN \/ state'[p] \in {"RUNNABLE", "SLEEPING"} /\ pc'[p] \in Resting \ {"none"}
                      \/ state'[p] = "ZOMBIE" /\ pc'[p] = "none"
                 ELSE \/ state'[p] = "RUNNING" /\ pc'[p] # "exit_release"
                      \/ state'[p] = "ZOMBIE" /\ pc'[p] = "exit_release"

\* What it does to another process: wake it, or build or free it while it is on
\* no CPU.
OtherEffect(q) ==
    \/ /\ pc'[q] = pc[q] /\ schan'[q] = schan[q]
       /\ \/ state'[q] = state[q]
          \/ state[q] = "SLEEPING" /\ state'[q] = "RUNNABLE"
    \/ /\ Off(q)
       /\ pc'[q] \in {"none", "forkret"}
       /\ state'[q] \in {"UNUSED", "USED", "RUNNABLE"}

ThreadEffect(c, p) ==
    OwnEffect(c, p) /\ \A q \in Procs \ {p} : OtherEffect(q)

\* Every step of a thread has these effects.
LEMMA ThreadEffects ==
  ASSUME TypeOK, LockInv, CpuInv, ForkInv, NEW c \in CPUs, NEW p \in Procs, cproc[c] = p,
         ThreadStep(c, p) \/ UserTimer(c, p) \/ KernelTimer(c, p)
  PROVE  ThreadEffect(c, p)
  <1>t. TypeP /\ TypeC /\ TypeT
    BY Zenon, TypeGroups
  <1>s. ~sw[c] /\ ~InIntr(c) => \A l \in Locks : lock[l] = c <=> Holds(p, l)
    BY Zenon, ThreadLocks
  <1>r. ~sw[c] => \/ state[p] = "RUNNING" /\ pc[p] # "exit_release"
                  \/ state[p] = "ZOMBIE" /\ pc[p] = "exit_release"
    BY Zenon, SlotFacts DEF CpuInv
  <1> USE SlotFacts, CPUAssumption DEF TypeP, TypeC, TypeT, ThreadEffect
  <1>1. ASSUME UserRet(c, p)
        PROVE  ThreadEffect(c, p)
    <2>1. OwnEffect(c, p)
      BY Zenon, <1>1, <1>s, <1>r, <1>t
      DEF UserRet, acquire_release, Goto, At, lvars, cvars, pvars, OwnEffect, Holds,
          Resting, Preemptible, LockOf
    <2>2. ASSUME NEW q \in Procs \ {p}
          PROVE  OtherEffect(q)
      BY Zenon, <1>1, <1>t
      DEF UserRet, Goto, lvars, pvars, OtherEffect
    <2>. QED BY Zenon, <2>1, <2>2
  <1>2. ASSUME UserTimer(c, p)
        PROVE  ThreadEffect(c, p)
    <2>1. OwnEffect(c, p)
      BY Zenon, <1>2, <1>s, <1>r, <1>t
      DEF UserTimer, acquire_release, Goto, At, lvars, cvars, pvars, OwnEffect, Holds,
          Resting, Preemptible, LockOf
    <2>2. ASSUME NEW q \in Procs \ {p}
          PROVE  OtherEffect(q)
      BY Zenon, <1>2, <1>t
      DEF UserTimer, Goto, lvars, pvars, OtherEffect
    <2>. QED BY <2>1, <2>2
  <1>3. ASSUME UserYield(c, p)
        PROVE  ThreadEffect(c, p)
    <2>1. OwnEffect(c, p)
      BY ZenonT(60), <1>3, <1>s, <1>r, <1>t
      DEF UserYield, yield, acquire, EnterSched, Goto, At, lvars, cvars, pvars,
          OwnEffect, Holds, Resting, Preemptible, LockOf
    <2>2. ASSUME NEW q \in Procs \ {p}
          PROVE  OtherEffect(q)
      BY Zenon, <1>3, <1>t
      DEF UserYield, yield, EnterSched, Goto, lvars, pvars, OtherEffect
    <2>. QED BY <2>1, <2>2
  <1>4. ASSUME KernelTimer(c, p)
        PROVE  ThreadEffect(c, p)
    <2>1. OwnEffect(c, p)
      <3>1. PICK l \in Preemptible : yield(c, p, l, l)
        BY Zenon, <1>4 DEF KernelTimer
      <3>2. ~sw[c] /\ ~InIntr(c) /\ cproc' = cproc /\ clk' = clk /\ pc[p] = l
        BY Zenon, <3>1 DEF yield, At
      <3>3. /\ sw' = [sw EXCEPT ![c] = TRUE] /\ pc' = [pc EXCEPT ![p] = l]
            /\ lock[p] = Free /\ lock' = [lock EXCEPT ![p] = c]
            /\ state' = [state EXCEPT ![p] = "RUNNABLE"]
        BY Zenon, <3>1 DEF yield, acquire, EnterSched, Goto
      <3>4. /\ sw'[c] /\ \A d \in CPUs \ {c} : sw'[d] = sw[d]
            /\ state'[p] = "RUNNABLE" /\ pc'[p] = l
        BY Zenon, <3>3, <1>t
      <3>5. \A x \in Locks : ~Holds(p, x)
        BY Zenon, <3>2 DEF Holds, Preemptible
      <3>6. lock'[p] = c /\ \A x \in Locks : x # p => lock'[x] = lock[x]
        BY Zenon, <3>3, <1>t
      <3>7. \A x \in Locks : lock'[x] = c <=> x = p
        BY ZenonT(60), <3>2, <3>5, <3>6, <1>s
      <3>8. l \in Resting \ {"none"}
        BY Zenon DEF Resting, Preemptible
      <3>9. \A x \in Locks : lock'[x] # lock[x] => {lock[x], lock'[x]} = {c, Free}
        BY ZenonT(60), <3>3, <3>6
      <3>. QED
        BY Zenon, <3>2, <3>4, <3>7, <3>8, <3>9 DEF OwnEffect
    <2>2. ASSUME NEW q \in Procs \ {p}
          PROVE  OtherEffect(q)
      <3>1. PICK l \in Preemptible : yield(c, p, l, l)
        BY Zenon, <1>4 DEF KernelTimer
      <3>2. /\ state' = [state EXCEPT ![p] = "RUNNABLE"] /\ pc' = [pc EXCEPT ![p] = l]
            /\ schan' = schan
        BY Zenon, <3>1 DEF yield, Goto, lvars
      <3>3. state'[q] = state[q] /\ pc'[q] = pc[q]
        BY Zenon, <3>2, <1>t
      <3>. QED BY Zenon, <3>2, <3>3 DEF OtherEffect
    <2>. QED BY <2>1, <2>2
  <1>5. ASSUME syscall(c, p)
        PROVE  ThreadEffect(c, p)
    <2>1. OwnEffect(c, p)
      <3>1. PICK l \in {"wait_lock", "exit_lock", "tick_lock"} : Goto(p, l)
        BY Zenon, <1>5 DEF syscall
      <3>2. ~sw[c] /\ ~InIntr(c) /\ pc[p] = "user" /\ UNCHANGED <<pvars, lock, cvars, lvars>>
        BY Zenon, <1>5 DEF syscall, SyscallEntry, At
      <3>3. state'[p] = "RUNNING"
        BY Zenon, <3>2, <1>r DEF pvars
      <3>4. pc'[p] = l
        BY Zenon, <3>1, <1>t DEF Goto
      <3>5. \A x \in Locks : ~Holds(p, x)
        BY Zenon, <3>2 DEF Holds
      <3>6. \A x \in Locks : ~Holds(p, x)'
        BY Zenon, <3>4 DEF Holds
      <3>7. UNCHANGED <<lock, sw, cproc, clk>>
        BY Zenon, <3>2 DEF cvars
      <3>. QED
        BY Zenon, <3>2, <3>3, <3>4, <3>5, <3>6, <3>7, <1>s DEF OwnEffect
    <2>2. ASSUME NEW q \in Procs \ {p}
          PROVE  OtherEffect(q)
      BY <1>5, <1>t
      DEF syscall, Goto, lvars, pvars, SyscallEntry, OtherEffect
    <2>. QED BY <2>1, <2>2
  <1>6. ASSUME syscall_killed(c, p)
        PROVE  ThreadEffect(c, p)
    <2>1. OwnEffect(c, p)
      BY <1>6, <1>s, <1>r, <1>t
      DEF syscall_killed, acquire_release, Goto, At, lvars, cvars, pvars, OwnEffect,
          Holds, Resting, Preemptible, LockOf
    <2>2. ASSUME NEW q \in Procs \ {p}
          PROVE  OtherEffect(q)
      BY <1>6, <1>t
      DEF syscall_killed, Goto, lvars, pvars, OtherEffect
    <2>. QED BY <2>1, <2>2
  <1>7. ASSUME sleep_lock(c, p)
        PROVE  ThreadEffect(c, p)
    <2>1. OwnEffect(c, p)
      BY ZenonT(60), <1>7, <1>s, <1>r, <1>t
      DEF sleep_lock, acquire, Goto, At, lvars, cvars, pvars, OwnEffect, Holds, Resting,
          Preemptible, LockOf
    <2>2. ASSUME NEW q \in Procs \ {p}
          PROVE  OtherEffect(q)
      BY Zenon, <1>7, <1>t
      DEF sleep_lock, Goto, lvars, pvars, OtherEffect
    <2>. QED BY <2>1, <2>2
  <1>8. ASSUME sleep_release(c, p)
        PROVE  ThreadEffect(c, p)
    <2>1. OwnEffect(c, p)
      BY Zenon, <1>8, <1>s, <1>r, <1>t
      DEF sleep_release, release, Goto, At, lvars, cvars, pvars, OwnEffect, Holds,
          Resting, Preemptible, LockOf
    <2>2. ASSUME NEW q \in Procs \ {p}
          PROVE  OtherEffect(q)
      BY Zenon, <1>8, <1>t
      DEF sleep_release, Goto, lvars, pvars, OtherEffect
    <2>. QED BY <2>1, <2>2
  <1>9. ASSUME sleep_sched(c, p)
        PROVE  ThreadEffect(c, p)
    <2>1. OwnEffect(c, p)
      BY Zenon, <1>9, <1>s, <1>r, <1>t
      DEF sleep_sched, EnterSched, Goto, At, lvars, cvars, pvars, OwnEffect, Holds,
          Resting, Preemptible, LockOf
    <2>2. ASSUME NEW q \in Procs \ {p}
          PROVE  OtherEffect(q)
      BY Zenon, <1>9, <1>t
      DEF sleep_sched, EnterSched, Goto, lvars, pvars, OtherEffect
    <2>. QED BY <2>1, <2>2
  <1>10. ASSUME sleep_relock(c, p)
        PROVE  ThreadEffect(c, p)
    <2>1. OwnEffect(c, p)
      BY ZenonT(60), <1>10, <1>s, <1>r, <1>t
      DEF sleep_relock, acquire, Goto, At, lvars, cvars, pvars, OwnEffect, Holds,
          Resting, Preemptible, LockOf
    <2>2. ASSUME NEW q \in Procs \ {p}
          PROVE  OtherEffect(q)
      BY <1>10, <1>t
      DEF sleep_relock, Goto, lvars, pvars, OtherEffect
    <2>. QED BY <2>1, <2>2
  <1>11. ASSUME NEW t \in Procs, fork_alloc(c, p, t)
        PROVE  ThreadEffect(c, p)
    <2>1. OwnEffect(c, p)
      BY Zenon, <1>11, <1>s, <1>r, <1>t
      DEF fork_alloc, acquire_release, At, lvars, cvars, pvars, SyscallEntry, OwnEffect,
          Holds, Resting, Preemptible, LockOf
    <2>2. ASSUME NEW q \in Procs \ {p}
          PROVE  OtherEffect(q)
      BY Zenon, <1>11, <1>t, OffCpu
      DEF fork_alloc, lvars, pvars, SyscallEntry, OtherEffect
    <2>. QED BY Zenon, <2>1, <2>2
  <1>12. ASSUME NEW t \in Procs, fork_fail(c, p, t)
        PROVE  ThreadEffect(c, p)
    <2>1. OwnEffect(c, p)
      BY Zenon, <1>12, <1>s, <1>r, <1>t
      DEF fork_fail, freeproc, acquire_release, Goto, At, lvars, cvars, pvars,
          SyscallEntry, OwnEffect, Holds, Resting, Preemptible, LockOf
    <2>2. ASSUME NEW q \in Procs \ {p}
          PROVE  OtherEffect(q)
      BY Zenon, <1>12, <1>t, OffCpu
      DEF fork_fail, freeproc, Goto, lvars, pvars, SyscallEntry, OtherEffect
    <2>. QED BY <2>1, <2>2
  <1>13. ASSUME fork_full(c, p)
        PROVE  ThreadEffect(c, p)
    <2>1. OwnEffect(c, p)
      BY Zenon, <1>13, <1>s, <1>r, <1>t
      DEF fork_full, Goto, At, lvars, cvars, pvars, SyscallEntry, OwnEffect, Holds,
          Resting, Preemptible, LockOf
    <2>2. ASSUME NEW q \in Procs \ {p}
          PROVE  OtherEffect(q)
      BY Zenon, <1>13, <1>t
      DEF fork_full, Goto, lvars, pvars, SyscallEntry, OtherEffect
    <2>. QED BY <2>1, <2>2
  <1>14. ASSUME fork_parent(c, p)
        PROVE  ThreadEffect(c, p)
    <2>1. OwnEffect(c, p)
      BY Zenon, <1>14, <1>s, <1>r, <1>t
      DEF fork_parent, acquire_release, Goto, At, lvars, cvars, pvars, OwnEffect, Holds,
          Resting, Preemptible, LockOf
    <2>2. ASSUME NEW q \in Procs \ {p}
          PROVE  OtherEffect(q)
      BY Zenon, <1>14, <1>t
      DEF fork_parent, Goto, lvars, pvars, OtherEffect
    <2>. QED BY <2>1, <2>2
  <1>15. ASSUME fork_run(c, p)
        PROVE  ThreadEffect(c, p)
    <2>1. OwnEffect(c, p)
      BY Zenon, <1>15, <1>s, <1>r, <1>t
      DEF fork_run, acquire_release, Goto, At, lvars, cvars, pvars, OwnEffect, Holds,
          Resting, Preemptible, ForkInv, LockOf
    <2>2. /\ np[p] \in Procs /\ np[p] # p /\ Off(np[p])
          /\ pc[np[p]] \in {"none", "forkret"}
      BY Zenon, <1>15, <1>r, OffCpu DEF fork_run, At, ForkInv, CpuInv
    <2>3. ASSUME NEW q \in Procs \ {p}
          PROVE  OtherEffect(q)
      BY Zenon, <1>15, <2>2, <1>t DEF fork_run, Goto, OtherEffect
    <2>. QED BY <2>1, <2>3
  <1>16. ASSUME exit_lock(c, p)
        PROVE  ThreadEffect(c, p)
    <2>1. OwnEffect(c, p)
      BY Zenon, <1>16, <1>s, <1>r, <1>t
      DEF exit_lock, acquire, Goto, At, lvars, cvars, pvars, OwnEffect, Holds, Resting,
          Preemptible, LockOf
    <2>2. ASSUME NEW q \in Procs \ {p}
          PROVE  OtherEffect(q)
      BY Zenon, <1>16, <1>t
      DEF exit_lock, Goto, lvars, pvars, OtherEffect
    <2>. QED BY <2>1, <2>2
  <1>17. ASSUME exit_wakeinit(c, p)
        PROVE  ThreadEffect(c, p)
    <2>1. OwnEffect(c, p)
      BY ZenonT(60), <1>17, <1>s, <1>r, <1>t
      DEF exit_wakeinit, exit_wake, wakeup1, Goto, At, lvars, cvars, pvars, OwnEffect,
          Holds, Resting, Preemptible, LockOf
    <2>2. ASSUME NEW q \in Procs \ {p}
          PROVE  OtherEffect(q)
      BY ZenonT(60), <1>17, <1>t
      DEF exit_wakeinit, exit_wake, wakeup1, Goto, lvars, pvars, OtherEffect
    <2>. QED BY <2>1, <2>2
  <1>18. ASSUME exit_wakeparent(c, p)
        PROVE  ThreadEffect(c, p)
    <2>1. OwnEffect(c, p)
      BY ZenonT(60), <1>18, <1>s, <1>r, <1>t
      DEF exit_wakeparent, exit_wake, wakeup1, Goto, At, lvars, cvars, pvars, OwnEffect,
          Holds, Resting, Preemptible, LockOf
    <2>2. ASSUME NEW q \in Procs \ {p}
          PROVE  OtherEffect(q)
      BY Zenon, <1>18, <1>t
      DEF exit_wakeparent, exit_wake, wakeup1, Goto, lvars, pvars, OtherEffect
    <2>. QED BY <2>1, <2>2
  <1>19. ASSUME exit_zombie(c, p)
        PROVE  ThreadEffect(c, p)
    <2>1. OwnEffect(c, p)
      BY ZenonT(60), <1>19, <1>s, <1>r, <1>t
      DEF exit_zombie, acquire, Goto, At, lvars, cvars, pvars, OwnEffect, Holds,
          Resting, Preemptible, LockOf
    <2>2. ASSUME NEW q \in Procs \ {p}
          PROVE  OtherEffect(q)
      BY Zenon, <1>19, <1>t
      DEF exit_zombie, Goto, lvars, pvars, OtherEffect
    <2>. QED BY <2>1, <2>2
  <1>20. ASSUME exit_release(c, p)
        PROVE  ThreadEffect(c, p)
    <2>1. OwnEffect(c, p)
      BY ZenonT(60), <1>20, <1>s, <1>r, <1>t
      DEF exit_release, release, EnterSched, Goto, At, lvars, cvars, pvars, OwnEffect,
          Holds, Resting, Preemptible, LockOf
    <2>2. ASSUME NEW q \in Procs \ {p}
          PROVE  OtherEffect(q)
      BY Zenon, <1>20, <1>t
      DEF exit_release, EnterSched, Goto, lvars, pvars, OtherEffect
    <2>. QED BY <2>1, <2>2
  <1>21. ASSUME wait_enter(c, p)
        PROVE  ThreadEffect(c, p)
    <2>1. OwnEffect(c, p)
      BY ZenonT(60), <1>21, <1>s, <1>r, <1>t
      DEF wait_enter, acquire, Goto, At, lvars, cvars, pvars, OwnEffect, Holds, Resting,
          Preemptible, LockOf
    <2>2. ASSUME NEW q \in Procs \ {p}
          PROVE  OtherEffect(q)
      BY Zenon, <1>21, <1>t
      DEF wait_enter, Goto, lvars, pvars, OtherEffect
    <2>. QED BY <2>1, <2>2
  <1>22. ASSUME wait_skip(c, p)
        PROVE  ThreadEffect(c, p)
    <2>1. OwnEffect(c, p)
      BY Zenon, <1>22, <1>s, <1>r, <1>t
      DEF wait_skip, acquire_release, At, lvars, cvars, pvars, OwnEffect, Holds,
          Resting, Preemptible, LockOf
    <2>2. ASSUME NEW q \in Procs \ {p}
          PROVE  OtherEffect(q)
      BY Zenon, <1>22, <1>t
      DEF wait_skip, lvars, pvars, OtherEffect
    <2>. QED BY <2>1, <2>2
  <1>23. ASSUME wait_reap(c, p)
        PROVE  ThreadEffect(c, p)
    <2>1. OwnEffect(c, p)
      BY ZenonT(60), <1>23, <1>s, <1>r, <1>t
      DEF wait_reap, freeproc, WaitDone, release, Goto, At, lvars, cvars, pvars,
          OwnEffect, Holds, Resting, Preemptible, LockOf
    <2>2. NextChild(p) \in Procs /\ Off(NextChild(p)) /\ pc[NextChild(p)] = "none"
      <3>1. /\ NextChild(p) \in Procs
            /\ lock[NextChild(p)] = Free /\ state[NextChild(p)] = "ZOMBIE"
        BY Zenon, <1>23, NextChildIn DEF wait_reap
      <3>2. Off(NextChild(p))
        BY Zenon, <3>1, OffCpu
      <3>3. pc[NextChild(p)] \in Resting \cap {"none", "exit_release"}
        BY Zenon, <3>1, <3>2 DEF CpuInv, Off
      <3>. QED BY <3>1, <3>2, <3>3 DEF Resting, Preemptible
    <2>3. ASSUME NEW q \in Procs \ {p}
          PROVE  OtherEffect(q)
      BY <1>23, <2>2, <1>t DEF wait_reap, WaitDone, freeproc, Goto, OtherEffect
    <2>. QED BY <2>1, <2>3
  <1>24. ASSUME wait_copyfail(c, p)
        PROVE  ThreadEffect(c, p)
    <2>1. OwnEffect(c, p)
      BY <1>24, <1>s, <1>r, <1>t
      DEF wait_copyfail, WaitDone, release, Goto, At, lvars, cvars, pvars, OwnEffect,
          Holds, Resting, Preemptible, LockOf
    <2>2. ASSUME NEW q \in Procs \ {p}
          PROVE  OtherEffect(q)
      BY Zenon, <1>24, <1>t
      DEF wait_copyfail, WaitDone, Goto, lvars, pvars, OtherEffect
    <2>. QED BY <2>1, <2>2
  <1>25. ASSUME wait_none(c, p)
        PROVE  ThreadEffect(c, p)
    <2>1. OwnEffect(c, p)
      BY ZenonT(60), <1>25, <1>s, <1>r, <1>t
      DEF wait_none, WaitDone, release, Goto, At, lvars, cvars, pvars, OwnEffect, Holds,
          Resting, Preemptible, LockOf
    <2>2. ASSUME NEW q \in Procs \ {p}
          PROVE  OtherEffect(q)
      BY Zenon, <1>25, <1>t
      DEF wait_none, WaitDone, Goto, lvars, pvars, OtherEffect
    <2>. QED BY <2>1, <2>2
  <1>26. ASSUME wait_sleep(c, p)
        PROVE  ThreadEffect(c, p)
    <2>1. OwnEffect(c, p)
      BY ZenonT(60), <1>26, <1>s, <1>r, <1>t
      DEF wait_sleep, acquire_release, Goto, At, lvars, cvars, pvars, OwnEffect, Holds,
          Resting, Preemptible, LockOf
    <2>2. ASSUME NEW q \in Procs \ {p}
          PROVE  OtherEffect(q)
      BY Zenon, <1>26, <1>t
      DEF wait_sleep, Goto, lvars, pvars, OtherEffect
    <2>. QED BY <2>1, <2>2
  <1>27. ASSUME NEW t \in Procs, kill(c, p, t)
        PROVE  ThreadEffect(c, p)
    <2>1. OwnEffect(c, p)
      BY Zenon, <1>27, <1>s, <1>r, <1>t
      DEF kill, acquire_release, Goto, At, lvars, cvars, pvars, SyscallEntry, OwnEffect,
          Holds, Resting, Preemptible, LockOf
    <2>2. ASSUME NEW q \in Procs \ {p}
          PROVE  OtherEffect(q)
      BY Zenon, <1>27, <1>t
      DEF kill, Goto, lvars, pvars, SyscallEntry, OtherEffect
    <2>. QED BY <2>1, <2>2
  <1>28. ASSUME kill_none(c, p)
        PROVE  ThreadEffect(c, p)
    <2>1. OwnEffect(c, p)
      BY Zenon, <1>28, <1>s, <1>r, <1>t
      DEF kill_none, Goto, At, lvars, cvars, pvars, SyscallEntry, OwnEffect, Holds,
          Resting, Preemptible, LockOf
    <2>2. ASSUME NEW q \in Procs \ {p}
          PROVE  OtherEffect(q)
      BY ZenonT(60), <1>28, <1>t
      DEF kill_none, Goto, lvars, pvars, SyscallEntry, OtherEffect
    <2>. QED BY <2>1, <2>2
  <1>29. ASSUME tick_lock(c, p)
        PROVE  ThreadEffect(c, p)
    <2>1. OwnEffect(c, p)
      <3>1. /\ ~sw[c] /\ ~InIntr(c) /\ cproc' = cproc /\ clk' = clk /\ sw' = sw
            /\ pc[p] = "tick_lock" /\ pc' = [pc EXCEPT ![p] = "tick_check"]
            /\ lock[tickslock] = Free /\ lock' = [lock EXCEPT ![tickslock] = c]
            /\ state' = state
        BY Zenon, <1>29 DEF tick_lock, acquire, Goto, At, cvars, pvars
      <3>2. /\ pc'[p] = "tick_check" /\ lock'[tickslock] = c
            /\ \A l \in Locks : l # tickslock => lock'[l] = lock[l]
        BY Zenon, <3>1, <1>t
      <3>3. \A l \in Locks : lock'[l] # lock[l] => {lock[l], lock'[l]} = {c, Free}
        BY ZenonT(60), <3>1, <3>2
      <3>4. \A l \in Locks : ~Holds(p, l)
        BY Zenon, <3>1 DEF Holds
      <3>5. \A l \in Locks : Holds(p, l)' <=> l = tickslock
        BY Zenon, <3>2 DEF Holds
      <3>6. \A l \in Locks : lock'[l] = c <=> Holds(p, l)'
        BY Zenon, <3>1, <3>2, <3>4, <3>5, <1>s
      <3>7. state'[p] = "RUNNING" /\ pc'[p] # "exit_release"
        BY Zenon, <3>1, <3>2, <1>r
      <3>. QED BY Zenon, <3>1, <3>3, <3>6, <3>7 DEF OwnEffect
    <2>2. ASSUME NEW q \in Procs \ {p}
          PROVE  OtherEffect(q)
      BY <1>29, <1>t
      DEF tick_lock, Goto, lvars, pvars, OtherEffect
    <2>. QED BY <2>1, <2>2
  <1>30. ASSUME tick_done(c, p)
        PROVE  ThreadEffect(c, p)
    <2>1. OwnEffect(c, p)
      BY ZenonT(60), <1>30, <1>s, <1>r, <1>t
      DEF tick_done, release, Goto, At, lvars, cvars, pvars, OwnEffect, Holds, Resting,
          Preemptible, LockOf
    <2>2. ASSUME NEW q \in Procs \ {p}
          PROVE  OtherEffect(q)
      BY Zenon, <1>30, <1>t
      DEF tick_done, Goto, lvars, pvars, OtherEffect
    <2>. QED BY <2>1, <2>2
  <1>31. ASSUME tick_sleep(c, p)
        PROVE  ThreadEffect(c, p)
    <2>1. OwnEffect(c, p)
      BY Zenon, <1>31, <1>s, <1>r, <1>t
      DEF tick_sleep, acquire_release, Goto, At, lvars, cvars, pvars, OwnEffect, Holds,
          Resting, Preemptible, LockOf
    <2>2. ASSUME NEW q \in Procs \ {p}
          PROVE  OtherEffect(q)
      BY <1>31, <1>t
      DEF tick_sleep, Goto, lvars, pvars, OtherEffect
    <2>. QED BY <2>1, <2>2
  <1> HIDE DEF TypeP, TypeC, TypeT, ThreadEffect
  <1>. QED
    BY Zenon, <1>1, <1>2, <1>3, <1>4, <1>5, <1>6, <1>7, <1>8, <1>9, <1>10, <1>11, <1>12,
       <1>13, <1>14, <1>15, <1>16, <1>17, <1>18, <1>19, <1>20, <1>21, <1>22, <1>23,
       <1>24, <1>25, <1>26, <1>27, <1>28, <1>29, <1>30, <1>31
    DEF ThreadStep

\* A step of a thread keeps the invariants of locks, interrupts and CPUs.
LEMMA ThreadKeeps ==
  ASSUME TypeOK, LockInv, IntrInv, CpuInv, NEW c \in CPUs, NEW p \in Procs,
         cproc[c] = p, ThreadEffect(c, p)
  PROVE  LockInv' /\ IntrInv' /\ CpuInv'
  <1>t. TypeP /\ TypeC /\ TypeT
    BY ZenonT(60), TypeGroups
  <1>1. \A d \in CPUs \ {c} : cproc[d] # null => cproc[d] \in Procs \ {p}
    <2>1. ASSUME NEW d \in CPUs \ {c}, cproc[d] # null
          PROVE  cproc[d] \in Procs /\ cproc[d] # p
      <3>1. cproc[d] \in Procs
        BY Zenon, <2>1, <1>t DEF TypeC
      <3>2. cproc[d] # cproc[c]
        BY Zenon, <2>1 DEF CpuInv
      <3>. QED BY Zenon, <3>1, <3>2
    <2>. QED BY Zenon, <2>1
  <1>2. \A d \in CPUs \ {c} : cproc[d] # null =>
           pc'[cproc[d]] = pc[cproc[d]] /\ schan'[cproc[d]] = schan[cproc[d]]
    BY Zenon, <1>1 DEF ThreadEffect, OtherEffect, Off
  <1>3. \A d \in CPUs \ {c} : cproc[d] # null =>
           \A l : Holds(cproc[d], l)' <=> Holds(cproc[d], l)
    BY ZenonT(60), <1>2 DEF ThreadEffect, OwnEffect, Holds, LockOf
  <1>4. LockInv'
    <2>1. ASSUME NEW l \in Locks
          PROVE  lock'[l] = c <=> Owns(c, l)'
      BY Zenon, SlotFacts DEF ThreadEffect, OwnEffect, Owns, InIntr
    <2>2. ASSUME NEW d \in CPUs \ {c}, NEW l \in Locks
          PROVE  lock'[l] = d <=> Owns(d, l)'
      <3>1. lock'[l] = d <=> lock[l] = d
        BY ZenonT(60), CPUAssumption DEF ThreadEffect, OwnEffect
      <3>2. Owns(d, l)' <=> Owns(d, l)
        BY Zenon, <1>3 DEF ThreadEffect, OwnEffect, Owns, InIntr
      <3>. QED BY Zenon, <3>1, <3>2 DEF LockInv
    <2>. QED BY <2>1, <2>2 DEF LockInv
  <1>5. IntrInv'
    <2>1. clk # NPROC => Cpu0 \in CPUs \ {c}
      BY Zenon, CPUAssumption DEF InIntr, ThreadEffect, OwnEffect
    <2>. QED BY Zenon, <1>3, <2>1 DEF IntrInv, ThreadEffect, OwnEffect
  <1>6. CpuInv'
    <2>1. \A d, e \in CPUs : cproc'[d] = cproc'[e] /\ cproc'[d] # null => d = e
      BY ZenonT(60) DEF CpuInv, ThreadEffect, OwnEffect
    <2>2. \A d \in CPUs : sw'[d] => /\ cproc'[d] # null
                                    /\ pc'[cproc'[d]] \in Resting
                                    /\ state'[cproc'[d]] \in {"RUNNABLE", "SLEEPING", "ZOMBIE"}
      <3>1. ASSUME NEW d \in CPUs, sw'[d], d # c
            PROVE  /\ cproc'[d] # null
                   /\ pc'[cproc'[d]] \in Resting
                   /\ state'[cproc'[d]] \in {"RUNNABLE", "SLEEPING", "ZOMBIE"}
        <4>1. cproc'[d] = cproc[d] /\ sw[d]
          BY Zenon, <3>1 DEF ThreadEffect, OwnEffect
        <4>2. cproc[d] \in Procs \ {p} /\ ~Off(cproc[d])
          BY Zenon, <3>1, <4>1, <1>1 DEF CpuInv, Off
        <4>3. OtherEffect(cproc[d])
          BY Zenon, <4>2 DEF ThreadEffect
        <4>4. /\ cproc[d] # null /\ pc[cproc[d]] \in Resting
              /\ state[cproc[d]] \in {"RUNNABLE", "SLEEPING", "ZOMBIE"}
          BY Zenon, <3>1, <4>1 DEF CpuInv
        <4>5. /\ pc'[cproc[d]] = pc[cproc[d]]
              /\ state'[cproc[d]] \in {"RUNNABLE", "SLEEPING", "ZOMBIE"}
          BY Zenon, <4>2, <4>3, <4>4 DEF OtherEffect
        <4>. QED BY Zenon, <4>1, <4>4, <4>5
      <3>2. ASSUME sw'[c]
            PROVE  /\ cproc'[c] # null
                   /\ pc'[cproc'[c]] \in Resting
                   /\ state'[cproc'[c]] \in {"RUNNABLE", "SLEEPING", "ZOMBIE"}
        BY Zenon, <3>2, SlotFacts DEF ThreadEffect, OwnEffect, Resting
      <3>. QED BY Zenon, <3>1, <3>2
    <2>3. \A d \in CPUs : cproc'[d] # null /\ ~sw'[d] =>
            \/ state'[cproc'[d]] = "RUNNING" /\ pc'[cproc'[d]] # "exit_release"
            \/ state'[cproc'[d]] = "ZOMBIE" /\ pc'[cproc'[d]] = "exit_release"
      <3>1. ASSUME NEW d \in CPUs, cproc'[d] # null, ~sw'[d], d # c
            PROVE  \/ state'[cproc'[d]] = "RUNNING" /\ pc'[cproc'[d]] # "exit_release"
                   \/ state'[cproc'[d]] = "ZOMBIE" /\ pc'[cproc'[d]] = "exit_release"
        <4>1. cproc'[d] = cproc[d] /\ ~sw[d]
          BY Zenon, <3>1 DEF ThreadEffect, OwnEffect
        <4>2. cproc[d] \in Procs \ {p} /\ ~Off(cproc[d])
          BY Zenon, <3>1, <4>1, <1>1 DEF Off
        <4>3. OtherEffect(cproc[d])
          BY Zenon, <4>2 DEF ThreadEffect
        <4>4. \/ state[cproc[d]] = "RUNNING" /\ pc[cproc[d]] # "exit_release"
              \/ state[cproc[d]] = "ZOMBIE" /\ pc[cproc[d]] = "exit_release"
          BY Zenon, <3>1, <4>1 DEF CpuInv
        <4>5. pc'[cproc[d]] = pc[cproc[d]] /\ state'[cproc[d]] = state[cproc[d]]
          BY Zenon, <4>2, <4>3, <4>4 DEF OtherEffect
        <4>. QED BY Zenon, <4>1, <4>4, <4>5
      <3>2. ASSUME ~sw'[c]
            PROVE  \/ state'[cproc'[c]] = "RUNNING" /\ pc'[cproc'[c]] # "exit_release"
                   \/ state'[cproc'[c]] = "ZOMBIE" /\ pc'[cproc'[c]] = "exit_release"
        BY Zenon, <3>2 DEF ThreadEffect, OwnEffect
      <3>. QED BY Zenon, <3>1, <3>2
    <2>4. \A q \in Procs : (\A d \in CPUs : cproc'[d] # q) =>
            state'[q] # "RUNNING" /\ pc'[q] \in Resting
      BY ZenonT(60) DEF CpuInv, ThreadEffect, OwnEffect, OtherEffect, Resting
    <2>5. \A q \in Procs : state'[q] \in {"UNUSED", "USED"} => pc'[q] \in {"none", "forkret"}
      <3>1. state'[p] \notin {"UNUSED", "USED"}
        BY Zenon DEF ThreadEffect, OwnEffect
      <3>2. ASSUME NEW q \in Procs \ {p}, state'[q] \in {"UNUSED", "USED"}
            PROVE  pc'[q] \in {"none", "forkret"}
        BY ZenonT(60), <3>2 DEF CpuInv, ThreadEffect, OtherEffect
      <3>. QED BY Zenon, <3>1, <3>2
    <2>6. \A q \in Procs : state'[q] = "ZOMBIE" => pc'[q] \in {"none", "exit_release"}
      <3>1. state'[p] = "ZOMBIE" => pc'[p] \in {"none", "exit_release"}
        BY Zenon DEF ThreadEffect, OwnEffect
      <3>2. ASSUME NEW q \in Procs \ {p}, state'[q] = "ZOMBIE"
            PROVE  pc'[q] \in {"none", "exit_release"}
        BY ZenonT(60), <3>2 DEF CpuInv, ThreadEffect, OtherEffect
      <3>. QED BY Zenon, <3>1, <3>2
    <2>. QED BY Zenon, <2>1, <2>2, <2>3, <2>4, <2>5, <2>6 DEF CpuInv
  <1>. QED BY <1>4, <1>5, <1>6

\* A scheduler that picks a process keeps them too: the process was on no CPU.
LEMMA SchedulerKeeps ==
  ASSUME TypeOK, LockInv, IntrInv, CpuInv, NEW c \in CPUs, scheduler(c)
  PROVE  LockInv' /\ IntrInv' /\ CpuInv'
  <1>t. TypeP /\ TypeC /\ TypeT
    BY TypeGroups
  <1>n. PICK p \in Procs : p = next[c]
    BY Zenon, <1>t DEF TypeC
  <1>p. cproc[c] = null /\ ~InIntr(c) /\ ~sw[c]
    BY Zenon, <1>t DEF TypeC, scheduler, scheduler1, CpuInv
  <1>1. CASE state[p] # "RUNNABLE"
    <2>1. UNCHANGED <<state, cproc, pc, sw, clk, lock, schan>>
      BY Zenon, <1>1, <1>t, <1>n DEF scheduler, scheduler1, acquire_release, lvars
    <2>2. LockInv'
      <3>1. \A d, l : Owns(d, l)' <=> Owns(d, l)
        <4>1. \A q, l : Holds(q, l)' <=> Holds(q, l)
          BY ZenonT(60), <2>1 DEF Holds, LockOf
        <4>. QED BY ZenonT(60), <2>1, <4>1 DEF Owns, InIntr
      <3>. QED BY Zenon, <2>1, <3>1 DEF LockInv
    <2>3. IntrInv'
      BY ZenonT(60), <2>1 DEF IntrInv, Holds, LockOf
    <2>. QED BY Zenon, <2>1, <2>2, <2>3 DEF CpuInv
  <1>2. CASE state[p] = "RUNNABLE"
    <2>1. /\ state' = [state EXCEPT ![p] = "RUNNING"]
          /\ cproc' = [cproc EXCEPT ![c] = p]
          /\ pc' = [pc EXCEPT ![p] = Resume(pc[p])]
          /\ UNCHANGED <<sw, clk, lock, schan>>
          /\ lock[p] = Free
      BY <1>2, <1>t, <1>n DEF scheduler, scheduler1, acquire_release, lvars
    <2>2. Off(p)
      BY <1>2, <1>p, <2>1, OffCpu
    <2>3. pc[p] \in Resting /\ pc'[p] \in Resting \ {"sleep_wake", "forkret"}
      BY <1>p, <1>t, <2>1, <2>2 DEF CpuInv, Off, Resume, Resting, Preemptible, TypeT
    <2>4. \A l : ~Holds(p, l)'
      BY <2>3 DEF Holds, Resting, Preemptible
    <2>5. \A d \in CPUs \ {c} : cproc'[d] = cproc[d] /\ cproc[d] # p /\
                                (cproc[d] # null => cproc[d] \in Procs)
      BY Zenon, <1>t, <2>1, <2>2 DEF TypeC, Off
    <2>6. \A d \in CPUs \ {c} : cproc[d] # null =>
            \A l : Holds(cproc[d], l)' <=> Holds(cproc[d], l)
      BY ZenonT(60), <1>t, <2>1, <2>5 DEF Holds, LockOf, TypeT
    <2>7. LockInv'
      <3>1. ASSUME NEW l \in Locks
            PROVE  lock'[l] = c <=> Owns(c, l)'
        BY Zenon, <1>p, <1>t, <2>1, <2>4 DEF LockInv, Owns, InIntr, TypeC
      <3>2. ASSUME NEW d \in CPUs \ {c}, NEW l \in Locks
            PROVE  lock'[l] = d <=> Owns(d, l)'
        BY <2>1, <2>5, <2>6 DEF LockInv, Owns, InIntr
      <3>3. ASSUME NEW d \in CPUs, NEW l \in Locks
            PROVE  lock'[l] = d <=> Owns(d, l)'
        <4>1. CASE d = c
          BY Zenon, <3>1, <4>1
        <4>2. CASE d # c
          BY Zenon, <3>2, <4>2
        <4>. QED BY <4>1, <4>2
      <3>. QED BY Zenon, <3>3 DEF LockInv
    <2>8. IntrInv'
      <3>1. clk # NPROC => Cpu0 \in CPUs \ {c}
        BY Zenon, <1>p, CPUAssumption DEF InIntr
      <3>. QED BY Zenon, <2>1, <2>5, <2>6, <3>1 DEF IntrInv
    <2>9. CpuInv'
      <3>1. \A d, e \in CPUs : cproc'[d] = cproc'[e] /\ cproc'[d] # null => d = e
        BY <1>t, <2>1, <2>5 DEF CpuInv, TypeC
      <3>2. \A d \in CPUs : sw'[d] =>
              /\ cproc'[d] # null
              /\ pc'[cproc'[d]] \in Resting
              /\ state'[cproc'[d]] \in {"RUNNABLE", "SLEEPING", "ZOMBIE"}
        BY ZenonT(60), <1>p, <1>t, <2>1, <2>5 DEF CpuInv, TypeC, TypeT, TypeP
      <3>3. \A d \in CPUs : cproc'[d] # null /\ ~sw'[d] =>
              \/ state'[cproc'[d]] = "RUNNING" /\ pc'[cproc'[d]] # "exit_release"
              \/ state'[cproc'[d]] = "ZOMBIE" /\ pc'[cproc'[d]] = "exit_release"
        <4>1. ASSUME NEW d \in CPUs \ {c}, cproc'[d] # null, ~sw'[d]
              PROVE  \/ state'[cproc'[d]] = "RUNNING" /\ pc'[cproc'[d]] # "exit_release"
                     \/ state'[cproc'[d]] = "ZOMBIE" /\ pc'[cproc'[d]] = "exit_release"
          BY SMTT(30), <1>t, <2>1, <2>5, <4>1 DEF CpuInv, TypeC, TypeT, TypeP
        <4>2. ASSUME cproc'[c] # null, ~sw'[c]
              PROVE  \/ state'[cproc'[c]] = "RUNNING" /\ pc'[cproc'[c]] # "exit_release"
                     \/ state'[cproc'[c]] = "ZOMBIE" /\ pc'[cproc'[c]] = "exit_release"
          BY SMTT(30), <1>p, <1>t, <2>1, <2>3, <4>2 DEF CpuInv, TypeC, TypeT, TypeP, Resting, Preemptible
        <4>. QED BY ZenonT(60), <4>1, <4>2
      <3>4. \A q \in Procs : (\A d \in CPUs : cproc'[d] # q) =>
              state'[q] # "RUNNING" /\ pc'[q] \in Resting
        <4> SUFFICES ASSUME NEW q \in Procs, \A d \in CPUs : cproc'[d] # q
                     PROVE  state'[q] # "RUNNING" /\ pc'[q] \in Resting
          OBVIOUS
        <4>1. cproc'[c] = p
          BY Zenon, <1>t, <2>1 DEF TypeC
        <4>2. q # p
          BY Zenon, <4>1
        <4>3. \A d \in CPUs : cproc[d] # q
          BY Zenon, <1>p, <2>5, SlotFacts
        <4>4. state[q] # "RUNNING" /\ pc[q] \in Resting
          BY Zenon, <4>3 DEF CpuInv
        <4>5. state'[q] = state[q] /\ pc'[q] = pc[q]
          BY Zenon, <1>t, <2>1, <4>2 DEF TypeP, TypeT
        <4>. QED BY Zenon, <4>4, <4>5
      <3>5. \A q \in Procs : state'[q] \in {"UNUSED", "USED"} => pc'[q] \in {"none", "forkret"}
        BY Zenon, <1>p, <1>t, <2>1 DEF CpuInv, TypeT, TypeP
      <3>6. \A q \in Procs : state'[q] = "ZOMBIE" => pc'[q] \in {"none", "exit_release"}
        BY <1>p, <1>t, <2>1 DEF CpuInv, TypeT, TypeP
      <3>. QED BY Zenon, <3>1, <3>2, <3>3, <3>4, <3>5, <3>6 DEF CpuInv
    <2>. QED BY <2>7, <2>8, <2>9
  <1>. QED BY <1>1, <1>2

\* swtch back to a scheduler keeps them: the thread held p->lock and no other.
LEMMA SchedKeeps ==
  ASSUME TypeOK, LockInv, IntrInv, CpuInv, NEW c \in CPUs, sched(c)
  PROVE  LockInv' /\ IntrInv' /\ CpuInv'
  <1>t. TypeP /\ TypeC /\ TypeT
    BY TypeGroups
  <1>1. /\ cproc[c] \in Procs /\ sw[c] /\ ~InIntr(c)
        /\ pc[cproc[c]] \in Resting /\ state[cproc[c]] # "RUNNING"
    BY ZenonT(60), <1>t DEF sched, CpuInv, IntrInv, InIntr, TypeC
  <1>2. /\ sw' = [sw EXCEPT ![c] = FALSE]
        /\ cproc' = [cproc EXCEPT ![c] = null]
        /\ lock' = [lock EXCEPT ![cproc[c]] = Free]
        /\ UNCHANGED <<state, clk, pc, schan>>
    BY DEF sched, release, pvars, tvars, lvars
  <1>3. LockInv'
    <2> SUFFICES ASSUME NEW d \in CPUs, NEW l \in Locks
                 PROVE  lock'[l] = d <=> Owns(d, l)'
      BY Zenon DEF LockInv
    <2>c. lock[cproc[c]] = c /\ (lock[l] = c <=> Owns(c, l))
      BY Zenon, <1>1, SlotFacts DEF LockInv, Owns
    <2>1. CASE d = c
      <3>1. ~InIntr(c)' /\ cproc'[c] = null
        BY Zenon, <1>1, <1>2, <1>t DEF InIntr, TypeC
      <3>2. ~Owns(c, l)'
        BY Zenon, <3>1 DEF Owns
      <3>3. lock'[l] = IF l = cproc[c] THEN Free ELSE lock[l]
        BY Zenon, <1>1, <1>2, <1>t, SlotFacts DEF TypeC
      <3>4. lock[l] = c => l = cproc[c]
        BY Zenon, <2>c, <1>1 DEF Owns
      <3>. QED BY Zenon, <2>1, <3>2, <3>3, <3>4, CPUAssumption
    <2>2. CASE d # c
      <3>2. lock'[l] = d <=> lock[l] = d
        BY Zenon, <1>1, <1>2, <1>t, <2>2, <2>c, SlotFacts, CPUAssumption DEF TypeC
      <3>3. Owns(d, l)' <=> Owns(d, l)
        BY Zenon, <1>2, <1>t, <2>2 DEF Owns, InIntr, Holds, LockOf, TypeC
      <3>. QED BY Zenon, <3>2, <3>3 DEF LockInv
    <2>. QED BY Zenon, <2>1, <2>2
  <1>4. IntrInv'
    BY Zenon, <1>1, <1>2, <1>t, CPUAssumption DEF IntrInv, InIntr, Holds, LockOf, TypeC
  <1>5. CpuInv'
    BY ZenonT(60), <1>1, <1>2, <1>t, SlotFacts DEF CpuInv, TypeC
  <1>. QED BY Zenon, <1>3, <1>4, <1>5

\* clockintr() keeps them: it starts where its CPU holds no spinlock.
LEMMA ClockKeeps ==
  ASSUME TypeOK, LockInv, IntrInv, CpuInv, clock_start \/ clock_wake
  PROVE  LockInv' /\ IntrInv' /\ CpuInv'
  <1>t. TypeP /\ TypeC /\ TypeT
    BY TypeGroups
  <1> USE CPUAssumption, SlotFacts
  <1>1. UNCHANGED <<cproc, sw, pc, schan>>
    BY DEF clock_start, clock_wake, tvars, lvars
  <1>2. \A p, l : Holds(p, l)' <=> Holds(p, l)
    BY ZenonT(60), <1>1 DEF Holds, LockOf
  <1>3. CASE clock_start
    <2>1. /\ clk = NPROC /\ clk' # NPROC
          /\ lock' = [lock EXCEPT ![tickslock] = Cpu0] /\ lock[tickslock] = Free
          /\ \A l \in Locks : lock[l] # Cpu0
          /\ state' = state
      BY <1>3 DEF clock_start, acquire, Held, pvars
    <2>2. /\ ~sw[Cpu0]
          /\ cproc[Cpu0] # null => \A l \in Locks : ~Holds(cproc[Cpu0], l)
      <3>1. \A l \in Locks : ~Owns(Cpu0, l)
        BY SMTT(30), <2>1 DEF LockInv
      <3>2. ASSUME sw[Cpu0] PROVE FALSE
        <4>1. cproc[Cpu0] # null
          BY Zenon, <3>2, CPUAssumption DEF CpuInv
        <4>2. cproc[Cpu0] \in Locks
          BY Zenon, <4>1, <1>t, CPUAssumption, SlotFacts DEF TypeC
        <4>. QED BY Zenon, <3>1, <3>2, <4>1, <4>2 DEF Owns
      <3>3. ASSUME cproc[Cpu0] # null, NEW l \in Locks
            PROVE  ~Holds(cproc[Cpu0], l)
        BY Zenon, <3>1, <3>2, <3>3 DEF Owns
      <3>. QED BY Zenon, <3>2, <3>3
    <2>3. LockInv'
      BY <1>1, <1>2, <1>t, <2>1, <2>2 DEF LockInv, Owns, InIntr, TypeC
    <2>4. IntrInv'
      BY <1>1, <1>2, <2>2 DEF IntrInv
    <2>. QED BY Zenon, <1>1, <2>1, <2>3, <2>4 DEF CpuInv
  <1>4. CASE clock_wake
    <2>1. /\ clk # NPROC
          /\ \/ clk' # NPROC /\ lock' = lock
             \/ clk' = NPROC /\ lock' = [lock EXCEPT ![tickslock] = Free]
      BY SMTT(30), <1>4, <1>t DEF clock_wake, TypeC
    <2>2. /\ ~sw[Cpu0]
          /\ cproc[Cpu0] # null => \A l \in Locks : ~Holds(cproc[Cpu0], l)
      BY <2>1 DEF IntrInv
    <2>3. LockInv'
      <3>1. lock[tickslock] = Cpu0
        BY Zenon, <2>1 DEF LockInv, Owns, InIntr
      <3>2. CASE clk' # NPROC /\ lock' = lock
        BY Zenon, <1>1, <1>2, <2>1, <3>2 DEF LockInv, Owns, InIntr
      <3>3. CASE clk' = NPROC /\ lock' = [lock EXCEPT ![tickslock] = Free]
        BY SMTT(60), <1>1, <1>2, <1>t, <2>1, <2>2, <3>1, <3>3 DEF LockInv, Owns, InIntr, TypeC
      <3>. QED BY Zenon, <2>1, <3>2, <3>3
    <2>4. IntrInv'
      BY <1>1, <1>2, <2>2 DEF IntrInv
    <2>5. \A q \in Procs : \/ state'[q] = state[q]
                           \/ state[q] = "SLEEPING" /\ state'[q] = "RUNNABLE"
      BY Zenon, <1>4, <1>t DEF clock_wake, wakeup1, TypeP
    <2>6. CpuInv'
      <3>1. \A q \in Procs :
              /\ state[q] \in {"RUNNABLE", "SLEEPING", "ZOMBIE"} =>
                 state'[q] \in {"RUNNABLE", "SLEEPING", "ZOMBIE"}
              /\ state'[q] = "RUNNING" <=> state[q] = "RUNNING"
              /\ state'[q] = "ZOMBIE" <=> state[q] = "ZOMBIE"
              /\ state'[q] \in {"UNUSED", "USED"} => state[q] \in {"UNUSED", "USED"}
        BY Zenon, <2>5
      <3>2. \A d \in CPUs : cproc[d] # null => cproc[d] \in Procs
        BY Zenon, <1>t DEF TypeC
      <3> HIDE CPUAssumption, SlotFacts
      <3>. QED BY ZenonT(60), <1>1, <3>1, <3>2 DEF CpuInv
    <2>. QED BY <2>3, <2>4, <2>6
  <1>. QED BY <1>3, <1>4

-----------------------------------------------------------------------------

(* The process tree *)

Forking == {"fork_parent", "fork_run"}

Live == {"RUNNABLE", "RUNNING", "SLEEPING"}

\* A step that leaves the tree alone: no child, parent or zombie comes or goes,
\* except that a process past reparent() may become a zombie.
TreeKept ==
    /\ parent' = parent /\ np' = np
    /\ \A q \in Procs :
          /\ pc'[q] \in Forking => pc[q] \in Forking
          /\ pc'[q] \in Exiting => pc[q] \in Exiting
          /\ state[q] = "USED" => state'[q] = "USED"
          /\ state'[q] = "UNUSED" => state[q] = "UNUSED"
          /\ state'[q] = "ZOMBIE" => state[q] = "ZOMBIE" \/ pc[q] \in Exiting
          /\ state[q] \in Live => state'[q] \in Live \/ pc[q] \in Exiting
    /\ killed'[initproc] => killed[initproc]
    /\ pc'[initproc] = "exit_lock" => pc[initproc] = "exit_lock" \/ killed[initproc]

\* Such a step keeps the invariants of the tree.
LEMMA TreeKeeps ==
  ASSUME TypeOK, ForkInv, ParentInv, TreeKept
  PROVE  ForkInv' /\ ParentInv'
  <1> USE SlotFacts DEF TreeKept
  <1>1. ForkInv'
    BY Zenon DEF ForkInv, Forking
  <1>2. \A q \in Procs : Children(q)' = Children(q)
    BY Zenon DEF Children
  <1>3. \A q \in Procs : pc'[q] \in Exiting \/ state'[q] = "ZOMBIE" => Children(q)' = {}
    BY Zenon, <1>2 DEF ParentInv
  <1>4. \A q \in Procs : parent[q] # null => parent[q] \in Procs /\ pc[parent[q]] \notin Exiting
    BY ZenonT(60) DEF ParentInv, Children, TypeOK
  <1>5. ParentAlive'
    BY Zenon, <1>4 DEF ParentInv, ParentAlive, Live
  <1>6. /\ ~killed'[initproc]
        /\ pc'[initproc] \notin Exiting \cup {"exit_lock"}
        /\ state'[initproc] \in {"RUNNABLE", "RUNNING", "SLEEPING"}
    BY Zenon DEF ParentInv, Live
  <1>7. \A q \in Procs : state'[q] = "UNUSED" => parent'[q] = null
    BY Zenon DEF ParentInv
  <1>. QED BY Zenon, <1>1, <1>3, <1>5, <1>6, <1>7 DEF ParentInv

\* The steps of a thread outside fork(), reparent() and freeproc() are such.
LEMMA ThreadKeepsTree ==
  ASSUME TypeOK, CpuInv, ForkInv, ParentInv, NEW c \in CPUs, NEW p \in Procs, cproc[c] = p,
         ThreadStep(c, p) \/ UserTimer(c, p) \/ KernelTimer(c, p),
         \A t \in Procs : ~fork_alloc(c, p, t) /\ ~fork_fail(c, p, t),
         ~fork_parent(c, p), ~fork_run(c, p), ~exit_lock(c, p), ~wait_reap(c, p)
  PROVE  TreeKept
  <1>t. TypeP /\ TypeC /\ TypeT
    BY ZenonT(60), TypeGroups
  <1>r. ~sw[c] => \/ state[p] = "RUNNING"
                  \/ state[p] = "ZOMBIE" /\ pc[p] = "exit_release"
    BY ZenonT(60), SlotFacts DEF CpuInv
  <1> USE SlotFacts, <1>t, <1>r DEF TypeP, TypeC, TypeT, TreeKept, Forking, Exiting, Live, At
  <1>1. CASE UserRet(c, p)
    BY ZenonT(60), <1>1 DEF UserRet, Goto, lvars, pvars
  <1>2. CASE UserTimer(c, p)
    BY ZenonT(60), <1>2 DEF UserTimer, Goto, lvars, pvars
  <1>3. CASE UserYield(c, p)
    BY ZenonT(60), <1>3 DEF UserYield, yield, Goto, lvars, pvars
  <1>4. CASE KernelTimer(c, p)
    <2>1. PICK l \in Preemptible : yield(c, p, l, l)
      BY Zenon, <1>4 DEF KernelTimer
    <2>2. /\ state' = [state EXCEPT ![p] = "RUNNABLE"] /\ ~sw[c]
          /\ pc[p] = l /\ pc' = [pc EXCEPT ![p] = l]
          /\ killed' = killed /\ parent' = parent /\ np' = np
      BY Zenon, <2>1 DEF yield, Goto, lvars
    <2>3. state[p] = "RUNNING" /\ pc' = pc
      BY Zenon, <2>2 DEF Preemptible
    <2>4. \A q \in Procs : state'[q] = IF q = p THEN "RUNNABLE" ELSE state[q]
      BY Zenon, <2>2
    <2>5. state'[p] = "RUNNABLE" /\ \A q \in Procs \ {p} : state'[q] = state[q]
      BY Zenon, <2>4
    <2> HIDE SlotFacts, <1>t, <1>r DEF TypeP, TypeC, TypeT, Forking, Exiting, At
    <2>. QED BY ZenonT(60), <2>2, <2>3, <2>5
  <1>5. CASE syscall(c, p)
    BY ZenonT(120), <1>5 DEF syscall, Goto, lvars, pvars, SyscallEntry
  <1>6. CASE syscall_killed(c, p)
    BY <1>6 DEF syscall_killed, Goto, lvars, pvars
  <1>7. CASE sleep_lock(c, p)
    BY ZenonT(60), <1>7 DEF sleep_lock, Goto, lvars, pvars
  <1>8. CASE sleep_release(c, p)
    BY ZenonT(60), <1>8 DEF sleep_release, Goto, lvars, pvars
  <1>9. CASE sleep_sched(c, p)
    BY ZenonT(60), <1>9 DEF sleep_sched, Goto, lvars, pvars
  <1>10. CASE sleep_relock(c, p)
    BY ZenonT(60), <1>10 DEF sleep_relock, Goto, lvars, pvars
  <1>11. CASE fork_full(c, p)
    BY ZenonT(60), <1>11 DEF fork_full, Goto, lvars, pvars, SyscallEntry
  <1>12. CASE exit_wakeinit(c, p)
    BY ZenonT(60), <1>12 DEF exit_wakeinit, exit_wake, wakeup1, Goto, lvars, pvars
  <1>13. CASE exit_wakeparent(c, p)
    BY ZenonT(60), <1>13 DEF exit_wakeparent, exit_wake, wakeup1, Goto, lvars, pvars
  <1>14. CASE exit_zombie(c, p)
    BY ZenonT(60), <1>14 DEF exit_zombie, Goto, lvars, pvars
  <1>15. CASE exit_release(c, p)
    BY ZenonT(60), <1>15 DEF exit_release, Goto, lvars, pvars
  <1>16. CASE wait_enter(c, p)
    BY ZenonT(60), <1>16 DEF wait_enter, Goto, lvars, pvars
  <1>17. CASE wait_skip(c, p)
    BY ZenonT(60), <1>17 DEF wait_skip, lvars, pvars
  <1>18. CASE wait_copyfail(c, p)
    BY ZenonT(60), <1>18 DEF wait_copyfail, WaitDone, Goto, lvars, pvars
  <1>19. CASE wait_none(c, p)
    BY ZenonT(60), <1>19 DEF wait_none, WaitDone, Goto, lvars, pvars
  <1>20. CASE wait_sleep(c, p)
    BY ZenonT(60), <1>20 DEF wait_sleep, Goto, lvars, pvars
  <1>21. ASSUME NEW t \in Procs, kill(c, p, t)
        PROVE  TreeKept
    BY ZenonT(60), <1>21 DEF kill, Goto, lvars, pvars, SyscallEntry
  <1>22. CASE kill_none(c, p)
    BY ZenonT(60), <1>22 DEF kill_none, Goto, lvars, pvars, SyscallEntry
  <1>23. CASE tick_lock(c, p)
    <2>1. pc[p] = "tick_lock" /\ UNCHANGED <<state, killed, parent, np>>
      BY ZenonT(60), <1>23 DEF tick_lock, pvars
    <2>2. pc' = [pc EXCEPT ![p] = "tick_check"]
      BY ZenonT(60), <1>23 DEF tick_lock, Goto
    <2>. QED BY ZenonT(60), <2>1, <2>2
  <1>24. CASE tick_done(c, p)
    BY ZenonT(60), <1>24 DEF tick_done, Goto, lvars, pvars
  <1>25. CASE tick_sleep(c, p)
    BY ZenonT(60), <1>25 DEF tick_sleep, Goto, lvars, pvars
  <1> HIDE <1>t, <1>r DEF TypeP, TypeC, TypeT, TreeKept, Forking, Exiting, Live, At
  <1>. QED
    BY ZenonT(60), <1>1, <1>2, <1>3, <1>4, <1>5, <1>6, <1>7, <1>8, <1>9, <1>10, <1>11, <1>12,
       <1>13, <1>14, <1>15, <1>16, <1>17, <1>18, <1>19, <1>20, <1>21, <1>22, <1>23,
       <1>24, <1>25
    DEF ThreadStep

\* The steps of a thread keep the invariants of the tree.
LEMMA ThreadTree ==
  ASSUME TypeOK, LockInv, CpuInv, ForkInv, ParentInv, NEW c \in CPUs, NEW p \in Procs,
         cproc[c] = p, ThreadStep(c, p) \/ UserTimer(c, p) \/ KernelTimer(c, p)
  PROVE  ForkInv' /\ ParentInv'
  <1>t. TypeP /\ TypeC /\ TypeT
    BY ZenonT(60), TypeGroups
  <1>r. ~sw[c] => \/ state[p] = "RUNNING" /\ pc[p] # "exit_release"
                  \/ state[p] = "ZOMBIE" /\ pc[p] = "exit_release"
    BY ZenonT(60), SlotFacts DEF CpuInv
  <1> USE SlotFacts
  <1>1. ASSUME NEW t \in Procs, fork_alloc(c, p, t)
        PROVE  ForkInv' /\ ParentInv'
    <2>1. /\ state[p] = "RUNNING" /\ state[t] = "UNUSED" /\ t # initproc /\ pc[p] = "user"
          /\ state' = [state EXCEPT ![t] = "USED"]
          /\ pc' = [pc EXCEPT ![p] = "fork_parent", ![t] = "forkret"]
          /\ np' = [np EXCEPT ![p] = t]
          /\ UNCHANGED <<killed, parent>>
      BY ZenonT(60), <1>1, <1>r DEF fork_alloc, SyscallEntry, At, ParentInv
    <2>2. ForkInv'
      BY ZenonT(60), <2>1, <1>t DEF ForkInv, TypeP, TypeT
    <2>3. \A q \in Procs : Children(q)' = Children(q)
      BY ZenonT(60), <2>1 DEF Children
    <2>4. ParentAlive'
      BY <2>1, <1>t DEF ParentInv, ParentAlive, TypeP
    <2>. QED BY ZenonT(60), <2>1, <2>2, <2>3, <2>4, <1>t DEF ParentInv, Exiting, TypeP, TypeT
  <1>2. ASSUME NEW t \in Procs, fork_fail(c, p, t)
        PROVE  ForkInv' /\ ParentInv'
    <2>1. /\ state[t] = "UNUSED" /\ parent[t] = null /\ pc[p] = "user" /\ t # initproc
          /\ state' = [state EXCEPT ![t] = "UNUSED"]
          /\ parent' = [parent EXCEPT ![t] = null]
          /\ killed' = [killed EXCEPT ![t] = FALSE]
          /\ pc' = [pc EXCEPT ![p] = "ret"]
          /\ np' = np
      BY ZenonT(60), <1>2 DEF fork_fail, freeproc, SyscallEntry, At, ParentInv, Goto, lvars
    <2>2. parent' = parent /\ state' = state
      BY ZenonT(60), <2>1, <1>t DEF TypeP
    <2>3. TreeKept
      <3>1. killed'[initproc] = killed[initproc]
        BY ZenonT(60), <2>1, <1>t DEF TypeP
      <3>2. pc'[p] = "ret" /\ \A q \in Procs : q # p => pc'[q] = pc[q]
        BY ZenonT(60), <2>1, <1>t DEF TypeT
      <3>3. \A q \in Procs : /\ pc'[q] \in Forking => pc[q] \in Forking
                             /\ pc'[q] \in Exiting => pc[q] \in Exiting
                             /\ pc'[q] = "exit_lock" => pc[q] = "exit_lock"
        BY ZenonT(60), <3>2 DEF Forking, Exiting
      <3>. QED BY ZenonT(60), <2>1, <2>2, <3>1, <3>3 DEF TreeKept
    <2>. QED BY ZenonT(60), <2>3, TreeKeeps
  <1>3. CASE fork_parent(c, p)
    <2>1. /\ state[p] = "RUNNING" /\ pc[p] = "fork_parent"
          /\ np[p] \in Procs /\ state[np[p]] = "USED"
          /\ parent' = [parent EXCEPT ![np[p]] = p]
          /\ pc' = [pc EXCEPT ![p] = "fork_run"]
          /\ UNCHANGED <<state, killed, np>>
      BY ZenonT(60), <1>3, <1>r DEF fork_parent, At, Goto, ForkInv, lvars
    <2>2. ForkInv'
      <3>1. \A q \in Procs : pc'[q] \in {"fork_parent", "fork_run"} =>
                             pc[q] \in {"fork_parent", "fork_run"}
        BY ZenonT(60), <2>1, <1>t DEF TypeT
      <3>. QED BY ZenonT(60), <2>1, <3>1 DEF ForkInv
    <2>3. \A q \in Procs : q # p => Children(q)' \subseteq Children(q)
      BY ZenonT(60), <2>1, <1>t DEF Children, TypeP
    <2>4. \A q \in Procs : pc'[q] \in Exiting \/ state'[q] = "ZOMBIE" => q # p
      BY ZenonT(60), <2>1, <1>t DEF Exiting, TypeT
    <2>5. \A q \in Procs : pc'[q] \in Exiting \/ state'[q] = "ZOMBIE" => Children(q)' = {}
      BY ZenonT(60), <2>1, <2>3, <2>4, <1>t DEF ParentInv, TypeT
    <2>6. ParentAlive'
      BY ZenonT(60), <2>1, <1>t DEF ParentInv, ParentAlive, TypeP
    <2>7. \A q \in Procs : state'[q] = "UNUSED" => parent'[q] = null
      BY ZenonT(60), <2>1, <1>t DEF ParentInv, TypeP
    <2>. QED BY ZenonT(60), <2>1, <2>2, <2>5, <2>6, <2>7, <1>t DEF ParentInv, Exiting, TypeT
  <1>4. CASE fork_run(c, p)
    <2>1. /\ np[p] \in Procs /\ state[np[p]] = "USED" /\ pc[p] = "fork_run"
          /\ state' = [state EXCEPT ![np[p]] = "RUNNABLE"]
          /\ np' = [np EXCEPT ![p] = null]
          /\ pc' = [pc EXCEPT ![p] = "ret"]
          /\ UNCHANGED <<killed, parent>>
      BY ZenonT(60), <1>4 DEF fork_run, At, Goto, ForkInv
    <2>2. ForkInv'
      BY ZenonT(60), <2>1, <1>t DEF ForkInv, TypeP, TypeT
    <2>3. \A q \in Procs : Children(q)' = Children(q)
      BY ZenonT(60), <2>1 DEF Children
    <2>4. ParentAlive'
      BY ZenonT(60), <2>1, <1>t DEF ParentInv, ParentAlive, TypeP
    <2>. QED BY ZenonT(60), <2>1, <2>2, <2>3, <2>4, <1>t DEF ParentInv, Exiting, TypeP, TypeT
  <1>5. CASE exit_lock(c, p)
    <2>1. /\ state[p] = "RUNNING" /\ pc[p] = "exit_lock" /\ p # initproc
          /\ parent' = [t \in Procs |-> IF parent[t] = p THEN initproc ELSE parent[t]]
          /\ pc' \in {[pc EXCEPT ![p] = "exit_wakeinit"], [pc EXCEPT ![p] = "exit_wakeparent"]}
          /\ UNCHANGED <<state, killed, np>>
      BY ZenonT(60), <1>5, <1>r DEF exit_lock, At, Goto, ParentInv, lvars
    <2>p. /\ pc'[p] \in {"exit_wakeinit", "exit_wakeparent"}
          /\ \A q \in Procs : q # p => pc'[q] = pc[q]
      BY ZenonT(60), <2>1, <1>t DEF TypeT
    <2>2. ForkInv'
      <3>1. \A q \in Procs : pc'[q] \in {"fork_parent", "fork_run"} =>
                             pc[q] \in {"fork_parent", "fork_run"}
        BY ZenonT(60), <2>p
      <3>. QED BY ZenonT(60), <2>1, <3>1 DEF ForkInv
    <2>3. Children(p)' = {}
      BY ZenonT(60), <2>1, <1>t DEF Children
    <2>4. \A q \in Procs \ {p, initproc} : Children(q)' = Children(q)
      BY ZenonT(60), <2>1, <1>t DEF Children, TypeP
    <2>5. \A q \in Procs : pc'[q] \in Exiting \/ state'[q] = "ZOMBIE" => Children(q)' = {}
      <3>1. ASSUME NEW q \in Procs, q # p, pc'[q] \in Exiting \/ state'[q] = "ZOMBIE"
            PROVE  Children(q)' = {}
        <4>1. q # initproc /\ Children(q) = {}
          BY ZenonT(60), <2>1, <2>p, <3>1 DEF ParentInv
        <4>. QED BY ZenonT(60), <2>4, <3>1, <4>1
      <3>. QED BY ZenonT(60), <2>3, <3>1
    <2>6. ParentAlive'
      BY ZenonT(60), <2>1, <1>t DEF ParentInv, ParentAlive, TypeP
    <2>7. \A q \in Procs : state'[q] = "UNUSED" => parent'[q] = null
      BY ZenonT(60), <2>1, <1>t DEF ParentInv, TypeP
    <2>. QED BY ZenonT(60), <2>1, <2>2, <2>5, <2>6, <2>7, <1>t DEF ParentInv, TypeT
  <1>6. CASE wait_reap(c, p)
    <2>1. PICK t \in Procs : t = NextChild(p)
      BY ZenonT(60), <1>6, NextChildIn DEF wait_reap
    <2>2. /\ state[t] = "ZOMBIE" /\ pc[p] = "wait_scan"
          /\ state' = [state EXCEPT ![t] = "UNUSED"]
          /\ parent' = [parent EXCEPT ![t] = null]
          /\ killed' = [killed EXCEPT ![t] = FALSE]
          /\ pc' = [pc EXCEPT ![p] = "ret"]
          /\ np' = np
      BY ZenonT(60), <1>6, <2>1 DEF wait_reap, At, freeproc, WaitDone, Goto
    <2>3. t # initproc /\ Children(t) = {}
      BY ZenonT(60), <2>2 DEF ParentInv
    <2>4. ForkInv'
      BY ZenonT(60), <2>2, <1>t DEF ForkInv, TypeP, TypeT
    <2>5. \A q \in Procs : Children(q)' \subseteq Children(q)
      BY ZenonT(60), <2>2, <1>t DEF Children, TypeP
    <2>6. \A q \in Procs : pc'[q] \in Exiting \/ state'[q] = "ZOMBIE" => Children(q)' = {}
      BY ZenonT(60), <2>2, <2>5, <1>t DEF ParentInv, TypeP, TypeT, Exiting
    <2>7. ParentAlive'
      BY ZenonT(60), <2>2, <2>3, <1>t DEF ParentInv, ParentAlive, Children, TypeP
    <2>8. \A q \in Procs : state'[q] = "UNUSED" => parent'[q] = null
      BY ZenonT(60), <2>2, <1>t DEF ParentInv, TypeP
    <2>9. /\ ~killed'[initproc]
          /\ pc'[initproc] \notin Exiting \cup {"exit_lock"}
          /\ state'[initproc] \in {"RUNNABLE", "RUNNING", "SLEEPING"}
      <3>1. killed'[initproc] = killed[initproc] /\ state'[initproc] = state[initproc]
        BY ZenonT(60), <2>2, <2>3, <1>t DEF TypeP
      <3>2. pc'[initproc] = pc[initproc] \/ pc'[initproc] = "ret"
        BY ZenonT(60), <2>2, <1>t DEF TypeT
      <3>. QED BY ZenonT(60), <3>1, <3>2 DEF ParentInv, Exiting
    <2>. QED BY ZenonT(60), <2>4, <2>6, <2>7, <2>8, <2>9 DEF ParentInv
  <1>7. CASE TreeKept
    BY <1>7, TreeKeeps
  <1>. QED BY <1>1, <1>2, <1>3, <1>4, <1>5, <1>6, <1>7, ThreadKeepsTree

\* So do the schedulers and the clock.
LEMMA CpuTree ==
  ASSUME TypeOK, CpuInv, ForkInv, ParentInv,
         (\E c \in CPUs : scheduler(c) \/ sched(c)) \/ clock_start \/ clock_wake
  PROVE  ForkInv' /\ ParentInv'
  <1>t. TypeP /\ TypeC /\ TypeT
    BY ZenonT(60), TypeGroups
  <1> USE SlotFacts, <1>t DEF TypeP, TypeC, TypeT, TreeKept, Forking, Exiting, Live
  <1>1. ASSUME NEW c \in CPUs, scheduler(c)
        PROVE  TreeKept
    BY <1>1 DEF scheduler, scheduler1, Resume, lvars
  <1>2. ASSUME NEW c \in CPUs, sched(c)
        PROVE  TreeKept
    BY Zenon, <1>2 DEF sched, pvars, tvars, lvars
  <1>3. ASSUME clock_start
        PROVE  TreeKept
    BY Zenon, <1>3 DEF clock_start, pvars
  <1>4. ASSUME clock_wake
        PROVE  TreeKept
    BY ZenonT(60), <1>4 DEF clock_wake, wakeup1, tvars, lvars
  <1> HIDE <1>t DEF TypeP, TypeC, TypeT, TreeKept, Forking, Exiting, Live
  <1>. QED BY <1>1, <1>2, <1>3, <1>4, TreeKeeps

-----------------------------------------------------------------------------

(* The theorems *)

\* The table that procinit() and userinit() leave satisfies the invariant.
LEMMA Initial == Init => IInv
  <1> SUFFICES ASSUME Init
               PROVE  IInv
    OBVIOUS
  <1> USE SlotFacts, CPUAssumption, MaxSleepAssumption DEF Init
  <1>1. TypeOK
    <2>1. TypeP
      BY Zenon DEF TypeP, procstate
    <2>2. TypeC
      BY DEF TypeC
    <2>3. TypeT
      BY DEF TypeT, Labels
    <2>. QED BY Zenon, <2>1, <2>2, <2>3, TypeGroups
  <1>2. LockInv
    BY Zenon DEF LockInv, Owns, InIntr
  <1>3. IntrInv
    BY Zenon DEF IntrInv
  <1>4. CpuInv
    BY Zenon DEF CpuInv, Resting, Preemptible
  <1>5. ForkInv
    BY ZenonT(60) DEF ForkInv
  <1>6. ParentInv
    BY DEF ParentInv, ParentAlive, Exiting, Children
  <1>. QED BY <1>1, <1>2, <1>3, <1>4, <1>5, <1>6 DEF IInv

\* Every step preserves it.
LEMMA Inductive == IInv /\ [Next]_vars => IInv'
  <1> SUFFICES ASSUME IInv, [Next]_vars
               PROVE  IInv'
    OBVIOUS
  <1>i. TypeOK /\ LockInv /\ IntrInv /\ CpuInv /\ ForkInv /\ ParentInv
    BY DEF IInv
  <1>1. TypeOK'
    BY Zenon, <1>i, TypeInductive
  <1>2. ASSUME NEW c \in CPUs, NEW p \in Procs, cproc[c] = p,
               ThreadStep(c, p) \/ UserTimer(c, p) \/ KernelTimer(c, p)
        PROVE  IInv'
    BY Zenon, <1>1, <1>2, <1>i, ThreadEffects, ThreadKeeps, ThreadTree DEF IInv
  <1>3. ASSUME NEW c \in CPUs, scheduler(c)
        PROVE  IInv'
    BY Zenon, <1>1, <1>3, <1>i, SchedulerKeeps, CpuTree DEF IInv
  <1>4. ASSUME NEW c \in CPUs, sched(c)
        PROVE  IInv'
    BY <1>1, <1>4, <1>i, SchedKeeps, CpuTree DEF IInv
  <1>5. CASE clock_start \/ clock_wake
    BY <1>1, <1>5, <1>i, ClockKeeps, CpuTree DEF IInv
  <1>6. CASE UNCHANGED vars
    <2>1. LockInv' /\ IntrInv'
      <3>1. \A p \in Procs \cup {null} : \A l \in Locks : Holds(p, l)' <=> Holds(p, l)
        BY Zenon, <1>6 DEF vars, Holds, LockOf
      <3>2. UNCHANGED <<lock, cproc, sw, clk>>
        BY Zenon, <1>6 DEF vars
      <3>3. \A c \in CPUs : cproc[c] \in Procs \cup {null}
        BY Zenon, <1>i, TypeGroups DEF TypeC
      <3>4. \A c \in CPUs, l \in Locks : Owns(c, l)' <=> Owns(c, l)
        BY ZenonT(60), <3>1, <3>2, <3>3 DEF Owns, InIntr
      <3>5. LockInv'
        BY Zenon, <3>2, <3>4, <1>i DEF LockInv
      <3>6. IntrInv'
        BY Zenon, <3>1, <3>2, <3>3, <1>i, CPUAssumption DEF IntrInv
      <3>. QED BY Zenon, <3>5, <3>6
    <2>2. CpuInv' /\ ForkInv'
      BY ZenonT(60), <1>6, <1>i DEF vars, CpuInv, ForkInv
    <2>3. ParentInv'
      BY Zenon, <1>6, <1>i DEF vars, ParentInv, ParentAlive, Children
    <2>. QED BY ZenonT(60), <1>1, <2>1, <2>2, <2>3 DEF IInv
  <1>. QED BY <1>2, <1>3, <1>4, <1>5, <1>6 DEF Next, myproc

\* Every reachable state satisfies it.
LEMMA Invariance == Spec => []IInv
  BY Initial, Inductive, PTL DEF Spec

\* The variables keep their types, for any number of slots and CPUs.
THEOREM TypeCorrect == Spec => []TypeOK
  <1>1. IInv => TypeOK
    BY Zenon DEF IInv
  <1>. QED BY <1>1, Invariance, PTL

\* sched() cannot panic: its caller holds p->lock and nothing else.
THEOREM SchedNeverPanics == Spec => []SchedLocks
  <1>1. IInv => SchedLocks
    <2> SUFFICES ASSUME IInv, NEW c \in CPUs, sw[c]
                 PROVE  /\ cproc[c] # null
                        /\ Held(c) = {cproc[c]}
                        /\ state[cproc[c]] # "RUNNING"
      BY Zenon DEF SchedLocks
    <2>1. /\ cproc[c] # null /\ cproc[c] \in Locks /\ ~InIntr(c)
          /\ state[cproc[c]] # "RUNNING"
      <3>1. cproc[c] # null /\ state[cproc[c]] \in {"RUNNABLE", "SLEEPING", "ZOMBIE"}
        BY Zenon DEF IInv, CpuInv
      <3>2. cproc[c] \in Procs \cup {null}
        BY Zenon DEF IInv, TypeOK, TypeC
      <3>3. cproc[c] \in Locks
        BY Zenon, <3>1, <3>2, SlotFacts
      <3>4. ~InIntr(c)
        BY Zenon DEF IInv, IntrInv, InIntr
      <3>. QED BY <3>1, <3>3, <3>4
    <2>2. \A l \in Locks : lock[l] = c <=> l = cproc[c]
      BY Zenon, <2>1 DEF IInv, LockInv, Owns
    <2>. QED BY Zenon, <2>1, <2>2 DEF Held
  <1>. QED BY <1>1, Invariance, PTL

\* No two CPUs run on one kernel stack, and no stack in use is given away.
THEOREM StackNeverShared == Spec => []StackInUse
  <1>1. IInv => StackInUse
    <2> SUFFICES ASSUME IInv, NEW c \in CPUs, cproc[c] # null
                 PROVE  /\ \A d \in CPUs \ {c} : cproc[d] # cproc[c]
                        /\ state[cproc[c]] \notin {"UNUSED", "USED"}
                        /\ state[cproc[c]] # "RUNNING" => lock[cproc[c]] = c
      BY Zenon DEF StackInUse
    <2>1. cproc[c] \in Procs /\ cproc[c] \in Locks
      BY Zenon, SlotFacts DEF IInv, TypeOK
    <2>2. \A d \in CPUs \ {c} : cproc[d] # cproc[c]
      BY Zenon DEF IInv, CpuInv
    <2>3. state[cproc[c]] \notin {"UNUSED", "USED"}
      BY Zenon DEF IInv, CpuInv
    <2>4. state[cproc[c]] # "RUNNING" => Owns(c, cproc[c])
      BY Zenon DEF IInv, CpuInv, Owns, Holds
    <2>. QED BY Zenon, <2>1, <2>2, <2>3, <2>4 DEF IInv, LockInv
  <1>. QED BY <1>1, Invariance, PTL

\* p->parent always names a process that can still call wait().
THEOREM ParentNeverDead == Spec => []ParentAlive
  <1>1. IInv => ParentAlive
    BY DEF IInv, ParentInv
  <1>. QED BY <1>1, Invariance, PTL

-----------------------------------------------------------------------------

(* sleep() and wakeup() *)

GoingToSleep == {"sleep_lock", "sleep_release", "sleep_sched"}

\* p sleeps on ch, or has decided to and is in sleep().
SleepsOn(p, ch) ==
    \/ pc[p] \in GoingToSleep /\ schan[p] = ch
    \/ state[p] = "SLEEPING" /\ chan[p] = ch

Zombies(p) == {t \in Children(p) : state[t] = "ZOMBIE"}

\* The loop index of wakeup() and of wait() starts from 0.
IndexInv ==
    \A p \in Procs :
        /\ pc[p] \in {"exit_wakeinit", "exit_wakeparent"} => i[p] \in Procs
        /\ pc[p] \notin {"exit_wakeinit", "exit_wakeparent", "wait_scan"} => i[p] = 0

\* A zombie that becomes a child of a process in wait() is still ahead of its scan.
ScanInv ==
    \A p \in Procs : pc[p] = "wait_scan" => \A t \in Zombies(p) : i[p] <= t

\* A sleeper in wait() has no zombie child, unless reparent() has just given init
\* one and is on its way to wake it.
WaitInv ==
    \A p \in Procs : SleepsOn(p, p) /\ Zombies(p) # {} =>
        p = initproc /\ \E q \in Procs : pc[q] = "exit_wakeinit" /\ i[q] <= p

\* From wakeup(p->parent) on, the parent of an exiting process does not sleep.
WakeInv ==
    \A q, r \in Procs :
        /\ parent[q] = r
        /\ pc[q] = "exit_zombie" \/ (pc[q] = "exit_wakeparent" /\ r < i[q])
        => ~SleepsOn(r, r)

\* A sleeper on &ticks whose time has come is ahead of clockintr().
TickInv == \A p \in Procs : SleepsOn(p, ticks) /\ n[p] = 0 => clk <= p

SleepInv == IndexInv /\ ScanInv /\ WaitInv /\ WakeInv /\ TickInv

Waking == {"exit_wakeinit", "exit_wakeparent", "exit_zombie", "wait_scan"}

\* What a step of a thread does to the sleep of another process q.
OtherQuiet(q) ==
    /\ i'[q] = i[q] /\ n'[q] = n[q]
    /\ \/ /\ pc'[q] = pc[q] /\ schan'[q] = schan[q] /\ chan'[q] = chan[q]
          /\ state'[q] = state[q] \/ state'[q] = "RUNNABLE"
       \/ /\ pc[q] \notin Waking /\ pc'[q] \notin Waking \cup GoingToSleep
          /\ state'[q] \in {"UNUSED", "USED"}

\* A thread's step disturbs the sleep of no other process, but to wake it.
LEMMA ThreadOthers ==
  ASSUME TypeOK, CpuInv, ForkInv, NEW c \in CPUs, NEW p \in Procs, cproc[c] = p,
         ThreadStep(c, p) \/ UserTimer(c, p) \/ KernelTimer(c, p),
         NEW q \in Procs \ {p}
  PROVE  OtherQuiet(q)
  <1>t. TypeP /\ TypeC /\ TypeT
    BY ZenonT(60), TypeGroups
  <1> USE <1>t DEF TypeP, TypeT, OtherQuiet, Waking, GoingToSleep
  <1>1. CASE UserRet(c, p)
    BY ZenonT(60), <1>1 DEF UserRet, Goto, lvars, pvars
  <1>2. CASE UserTimer(c, p)
    BY ZenonT(60), <1>2 DEF UserTimer, Goto, lvars, pvars
  <1>3. CASE UserYield(c, p)
    BY ZenonT(60), <1>3 DEF UserYield, yield, Goto, lvars, pvars
  <1>4. CASE KernelTimer(c, p)
    BY ZenonT(60), <1>4 DEF KernelTimer, yield, Goto, Preemptible, lvars, pvars
  <1>5. CASE syscall(c, p)
    BY ZenonT(60), <1>5 DEF syscall, SyscallEntry, Goto, lvars, pvars
  <1>6. CASE syscall_killed(c, p)
    BY ZenonT(60), <1>6 DEF syscall_killed, Goto, lvars, pvars
  <1>7. CASE sleep_lock(c, p)
    BY ZenonT(60), <1>7 DEF sleep_lock, Goto, lvars, pvars
  <1>8. CASE sleep_release(c, p)
    BY ZenonT(60), <1>8 DEF sleep_release, Goto, lvars, pvars
  <1>9. CASE sleep_sched(c, p)
    BY ZenonT(60), <1>9 DEF sleep_sched, Goto, lvars, pvars
  <1>10. CASE sleep_relock(c, p)
    BY ZenonT(60), <1>10 DEF sleep_relock, Goto, lvars, pvars
  <1>11. ASSUME NEW t \in Procs, fork_alloc(c, p, t)
        PROVE  OtherQuiet(q)
    BY ZenonT(60), <1>11 DEF fork_alloc, SyscallEntry, Goto, CpuInv, lvars, pvars
  <1>12. ASSUME NEW t \in Procs, fork_fail(c, p, t)
        PROVE  OtherQuiet(q)
    BY ZenonT(60), <1>12 DEF fork_fail, SyscallEntry, freeproc, Goto, CpuInv, lvars, pvars
  <1>13. CASE fork_full(c, p)
    BY ZenonT(60), <1>13 DEF fork_full, SyscallEntry, Goto, lvars, pvars
  <1>14. CASE fork_parent(c, p)
    BY ZenonT(60), <1>14 DEF fork_parent, Goto, lvars, pvars
  <1>15. CASE fork_run(c, p)
    BY ZenonT(60), <1>15 DEF fork_run, Goto, lvars, pvars
  <1>16. CASE exit_lock(c, p)
    BY ZenonT(60), <1>16 DEF exit_lock, Goto, lvars, pvars
  <1>17. CASE exit_wakeinit(c, p)
    BY ZenonT(60), <1>17 DEF exit_wakeinit, exit_wake, wakeup1, Goto, lvars, pvars
  <1>18. CASE exit_wakeparent(c, p)
    BY ZenonT(60), <1>18 DEF exit_wakeparent, exit_wake, wakeup1, Goto, lvars, pvars
  <1>19. CASE exit_zombie(c, p)
    BY ZenonT(60), <1>19 DEF exit_zombie, Goto, lvars, pvars
  <1>20. CASE exit_release(c, p)
    BY ZenonT(60), <1>20 DEF exit_release, Goto, lvars, pvars
  <1>21. CASE wait_enter(c, p)
    BY ZenonT(60), <1>21 DEF wait_enter, Goto, lvars, pvars
  <1>22. CASE wait_skip(c, p)
    BY ZenonT(60), <1>22 DEF wait_skip, lvars, pvars
  <1>23. CASE wait_reap(c, p)
    BY ZenonT(60), <1>23 DEF wait_reap, freeproc, WaitDone, Goto, CpuInv, lvars, pvars
  <1>24. CASE wait_copyfail(c, p)
    BY ZenonT(60), <1>24 DEF wait_copyfail, WaitDone, Goto, lvars, pvars
  <1>25. CASE wait_none(c, p)
    BY ZenonT(60), <1>25 DEF wait_none, WaitDone, Goto, lvars, pvars
  <1>26. CASE wait_sleep(c, p)
    BY ZenonT(60), <1>26 DEF wait_sleep, Goto, lvars, pvars
  <1>27. ASSUME NEW t \in Procs, kill(c, p, t)
        PROVE  OtherQuiet(q)
    BY ZenonT(60), <1>27 DEF kill, SyscallEntry, Goto, lvars, pvars
  <1>28. CASE kill_none(c, p)
    BY ZenonT(60), <1>28 DEF kill_none, SyscallEntry, Goto, lvars, pvars
  <1>29. CASE tick_lock(c, p)
    BY ZenonT(60), <1>29 DEF tick_lock, Goto, lvars, pvars
  <1>30. CASE tick_done(c, p)
    BY ZenonT(60), <1>30 DEF tick_done, Goto, lvars, pvars
  <1>31. CASE tick_sleep(c, p)
    BY ZenonT(60), <1>31 DEF tick_sleep, Goto, lvars, pvars
  <1> HIDE <1>t DEF TypeP, TypeT, OtherQuiet, Waking, GoingToSleep
  <1>. QED
    BY ZenonT(60), <1>1, <1>2, <1>3, <1>4, <1>5, <1>6, <1>7, <1>8, <1>9, <1>10, <1>11,
       <1>12, <1>13, <1>14, <1>15, <1>16, <1>17, <1>18, <1>19, <1>20, <1>21,
       <1>22, <1>23, <1>24, <1>25, <1>26, <1>27, <1>28, <1>29, <1>30, <1>31
    DEF ThreadStep

\* What a step of a thread does to its own sleep, outside the loops of exit() and wait().
OwnQuiet(p) ==
    /\ \/ pc'[p] = pc[p] /\ i'[p] = i[p]
       \/ pc[p] \notin Waking /\ pc'[p] \notin Waking \ {"wait_scan"} /\ i'[p] = i[p]
       \/ pc[p] = "wait_scan" /\ pc'[p] \notin Waking /\ i'[p] = 0
    /\ state'[p] = "ZOMBIE" => state[p] = "ZOMBIE"
    /\ SleepsOn(p, p)' => SleepsOn(p, p)
    /\ SleepsOn(p, ticks)' /\ n'[p] = 0 => SleepsOn(p, ticks) /\ n[p] = 0

\* A thread's step begins no sleep in wait() and no wakeup loop, but for the six
\* actions of exit() and wait() that are treated one by one.
LEMMA ThreadOwn ==
  ASSUME TypeOK, CpuInv, NEW c \in CPUs, NEW p \in Procs, cproc[c] = p,
         ThreadStep(c, p) \/ UserTimer(c, p) \/ KernelTimer(c, p),
         ~exit_lock(c, p), ~exit_wakeinit(c, p), ~exit_wakeparent(c, p),
         ~exit_zombie(c, p), ~wait_skip(c, p), ~wait_sleep(c, p)
  PROVE  OwnQuiet(p)
  <1>t. TypeP /\ TypeC /\ TypeT
    BY ZenonT(60), TypeGroups
  <1>r. ~sw[c] => \/ state[p] = "RUNNING"
                  \/ state[p] = "ZOMBIE" /\ pc[p] = "exit_release"
    BY ZenonT(60), SlotFacts DEF CpuInv
  <1> USE SlotFacts, <1>t, <1>r DEF TypeP, TypeT, OwnQuiet, SleepsOn, Waking, GoingToSleep, At
  <1>1. CASE UserRet(c, p)
    BY ZenonT(60), <1>1 DEF UserRet, Goto, lvars, pvars
  <1>2. CASE UserTimer(c, p)
    BY ZenonT(60), <1>2 DEF UserTimer, Goto, lvars, pvars
  <1>3. CASE UserYield(c, p)
    BY ZenonT(60), <1>3 DEF UserYield, yield, Goto, lvars, pvars
  <1>4. CASE KernelTimer(c, p)
    BY ZenonT(60), <1>4 DEF KernelTimer, yield, Goto, Preemptible, lvars, pvars
  <1>5. CASE syscall(c, p)
    BY ZenonT(60), <1>5 DEF syscall, SyscallEntry, Goto, lvars, pvars
  <1>6. CASE syscall_killed(c, p)
    BY ZenonT(60), <1>6 DEF syscall_killed, Goto, lvars, pvars
  <1>7. CASE sleep_lock(c, p)
    BY ZenonT(60), <1>7 DEF sleep_lock, Goto, lvars, pvars
  <1>8. CASE sleep_release(c, p)
    BY ZenonT(60), <1>8 DEF sleep_release, Goto, lvars, pvars
  <1>9. CASE sleep_sched(c, p)
    BY ZenonT(60), <1>9 DEF sleep_sched, Goto, lvars, pvars
  <1>10. CASE sleep_relock(c, p)
    BY ZenonT(60), <1>10 DEF sleep_relock, Goto, lvars, pvars
  <1>11. ASSUME NEW t \in Procs, fork_alloc(c, p, t)
        PROVE  OwnQuiet(p)
    BY ZenonT(60), <1>11 DEF fork_alloc, SyscallEntry, Goto, CpuInv, lvars, pvars
  <1>12. ASSUME NEW t \in Procs, fork_fail(c, p, t)
        PROVE  OwnQuiet(p)
    BY ZenonT(60), <1>12 DEF fork_fail, SyscallEntry, freeproc, Goto, CpuInv, lvars, pvars
  <1>13. CASE fork_full(c, p)
    BY ZenonT(60), <1>13 DEF fork_full, SyscallEntry, Goto, lvars, pvars
  <1>14. CASE fork_run(c, p)
    BY ZenonT(60), <1>14 DEF fork_run, Goto, lvars, pvars
  <1>15. CASE exit_release(c, p)
    BY ZenonT(60), <1>15 DEF exit_release, Goto, lvars, pvars
  <1>16. CASE wait_enter(c, p)
    BY ZenonT(60), <1>16 DEF wait_enter, Goto, lvars, pvars
  <1>17. CASE wait_reap(c, p)
    BY ZenonT(60), <1>17 DEF wait_reap, freeproc, WaitDone, Goto, CpuInv, lvars, pvars
  <1>18. CASE wait_copyfail(c, p)
    BY ZenonT(60), <1>18 DEF wait_copyfail, WaitDone, Goto, lvars, pvars
  <1>19. CASE wait_none(c, p)
    BY ZenonT(60), <1>19 DEF wait_none, WaitDone, Goto, lvars, pvars
  <1>20. ASSUME NEW t \in Procs, kill(c, p, t)
        PROVE  OwnQuiet(p)
    BY ZenonT(60), <1>20 DEF kill, SyscallEntry, Goto, lvars, pvars
  <1>21. CASE kill_none(c, p)
    BY ZenonT(60), <1>21 DEF kill_none, SyscallEntry, Goto, lvars, pvars
  <1>22. CASE tick_lock(c, p)
    BY ZenonT(60), <1>22 DEF tick_lock, Goto, lvars, pvars
  <1>23. CASE tick_done(c, p)
    BY ZenonT(60), <1>23 DEF tick_done, Goto, lvars, pvars
  <1>24. CASE tick_sleep(c, p)
    <2>1. /\ n[p] > 0 /\ n' = n /\ i' = i /\ state' = state /\ chan' = chan
          /\ pc[p] = "tick_check" /\ pc' = [pc EXCEPT ![p] = "sleep_lock"]
          /\ schan' = [schan EXCEPT ![p] = ticks] /\ ~sw[c]
      BY ZenonT(60), <1>24 DEF tick_sleep, Goto, pvars
    <2>2. n'[p] # 0 /\ pc'[p] = "sleep_lock" /\ schan'[p] = ticks /\ ticks # p
      <3>1. n'[p] # 0
        BY Zenon, <2>1, Positive
      <3>2. pc'[p] = "sleep_lock" /\ schan'[p] = ticks
        BY ZenonT(60), <2>1
      <3>3. ticks # p
        BY Zenon
      <3>. QED BY <3>1, <3>2, <3>3
    <2>3. state[p] = "RUNNING" /\ state'[p] = "RUNNING"
      BY Zenon, <2>1
    <2>. QED BY ZenonT(60), <2>1, <2>2, <2>3
  <1>25. CASE fork_parent(c, p)
    BY ZenonT(60), <1>25 DEF fork_parent, Goto, lvars, pvars
  <1> HIDE SlotFacts, <1>t, <1>r DEF TypeP, TypeT, OwnQuiet, SleepsOn, Waking, GoingToSleep, At
  <1>. QED
    BY ZenonT(60), <1>1, <1>2, <1>3, <1>4, <1>5, <1>6, <1>7, <1>8, <1>9, <1>10, <1>11,
       <1>12, <1>13, <1>14, <1>15, <1>16, <1>17, <1>18, <1>19, <1>20, <1>21,
       <1>22, <1>23, <1>24, <1>25
    DEF ThreadStep

\* A step that wakes processes at most, and turns none into a zombie.
WakeKept ==
    /\ clk' = clk
    /\ \A q, r \in Procs : parent'[q] = r =>
          parent[q] = r \/ (state'[q] # "ZOMBIE" /\ pc'[q] \notin Waking)
    /\ \A q \in Procs : OwnQuiet(q)

\* A step that only wakes processes keeps every sleeper's wakeup on its way.
LEMMA WakeKeeps ==
  ASSUME TypeOK, SleepInv, WakeKept
  PROVE  SleepInv'
  <1>1. \A q \in Procs : OwnQuiet(q) /\ Zombies(q)' \subseteq Zombies(q)
    BY Zenon DEF WakeKept, OwnQuiet, Zombies, Children
  <1>2. IndexInv'
    BY <1>1 DEF SleepInv, IndexInv, OwnQuiet, Waking
  <1>3. ScanInv'
    <2>1. ASSUME NEW p \in Procs, pc'[p] = "wait_scan", NEW t \in Zombies(p)'
          PROVE  i'[p] <= t
      <3>1. t \in Zombies(p) /\ t \in Nat
        BY <1>1, NPROCAssumption DEF Zombies, Children, Procs
      <3>2. CASE pc[p] = "wait_scan" /\ i'[p] = i[p]
        BY <3>1, <3>2 DEF SleepInv, ScanInv
      <3>3. CASE pc[p] \notin Waking /\ i'[p] = i[p]
        BY <3>1, <3>3 DEF SleepInv, IndexInv, Waking
      <3>. QED BY Zenon, <1>1, <2>1, <3>2, <3>3 DEF OwnQuiet, Waking
    <2>. QED BY Zenon, <2>1 DEF ScanInv
  <1>4. WaitInv'
    <2>1. ASSUME NEW p \in Procs, SleepsOn(p, p)', Zombies(p)' # {}
          PROVE  p = initproc /\ \E q \in Procs : pc'[q] = "exit_wakeinit" /\ i'[q] <= p
      <3>1. SleepsOn(p, p) /\ Zombies(p) # {}
        BY Zenon, <1>1, <2>1 DEF OwnQuiet
      <3>2. PICK q \in Procs : p = initproc /\ pc[q] = "exit_wakeinit" /\ i[q] <= p
        BY Zenon, <3>1 DEF SleepInv, WaitInv
      <3>3. pc'[q] = "exit_wakeinit" /\ i'[q] = i[q]
        BY <1>1, <3>2 DEF OwnQuiet, Waking
      <3>. QED BY Zenon, <3>2, <3>3
    <2>. QED BY Zenon, <2>1 DEF WaitInv
  <1>5. WakeInv'
    <2>1. ASSUME NEW q \in Procs, NEW r \in Procs, parent'[q] = r,
                 pc'[q] = "exit_zombie" \/ (pc'[q] = "exit_wakeparent" /\ r < i'[q])
          PROVE  ~SleepsOn(r, r)'
      <3>1. parent[q] = r /\ pc[q] = pc'[q] /\ i[q] = i'[q]
        BY Zenon, <1>1, <2>1 DEF OwnQuiet, WakeKept, Waking
      <3>2. ~SleepsOn(r, r)
        BY Zenon, <2>1, <3>1 DEF SleepInv, WakeInv
      <3>. QED BY Zenon, <1>1, <3>2 DEF OwnQuiet
    <2>. QED BY Zenon, <2>1 DEF WakeInv
  <1>6. TickInv'
    BY Zenon, <1>1 DEF SleepInv, TickInv, OwnQuiet, WakeKept
  <1>. QED BY Zenon, <1>2, <1>3, <1>4, <1>5, <1>6 DEF SleepInv

\* What leaves another process alone is quiet for it, too.
LEMMA OtherOwn ==
  ASSUME NEW q \in Procs, OtherQuiet(q)
  PROVE  OwnQuiet(q)
  <1>1. CASE /\ pc'[q] = pc[q] /\ schan'[q] = schan[q] /\ chan'[q] = chan[q]
             /\ state'[q] = state[q] \/ state'[q] = "RUNNABLE"
    BY Zenon, <1>1 DEF OtherQuiet, OwnQuiet, SleepsOn
  <1>2. CASE /\ pc[q] \notin Waking /\ pc'[q] \notin Waking \cup GoingToSleep
             /\ state'[q] \in {"UNUSED", "USED"}
    BY Zenon, <1>2 DEF OtherQuiet, OwnQuiet, SleepsOn
  <1>. QED BY Zenon, <1>1, <1>2 DEF OtherQuiet

\* Who holds a spinlock is on a CPU, and nobody else holds it.
LEMMA HolderOnCpu ==
  ASSUME TypeOK, LockInv, CpuInv, NEW p \in Procs, NEW l \in Locks, Holds(p, l)
  PROVE  \E c \in CPUs : cproc[c] = p /\ ~sw[c] /\ lock[l] = c
  <1>1. pc[p] \notin Resting
    BY DEF Holds, Resting, Preemptible
  <1>2. PICK c \in CPUs : cproc[c] = p
    BY Zenon, <1>1 DEF CpuInv
  <1>3. ~sw[c]
    BY Zenon, <1>1, <1>2 DEF CpuInv
  <1>4. p # null
    BY SlotFacts
  <1>5. Owns(c, l)
    BY Zenon, <1>2, <1>3, <1>4 DEF Owns
  <1>. QED BY Zenon, <1>2, <1>3, <1>5 DEF LockInv

\* A lock that a thread holds at its label has an owner, and no other thread holds it.
LEMMA Exclusive ==
  ASSUME TypeOK, LockInv, CpuInv, NEW p \in Procs, NEW l \in Locks, Holds(p, l)
  PROVE  /\ lock[l] # Free
         /\ \A q \in Procs : Holds(q, l) => q = p
  <1>1. PICK c \in CPUs : cproc[c] = p /\ lock[l] = c
    BY HolderOnCpu
  <1>2. ASSUME NEW q \in Procs, Holds(q, l)
        PROVE  q = p
    <2>1. PICK d \in CPUs : cproc[d] = q /\ lock[l] = d
      BY <1>2, HolderOnCpu
    <2>. QED BY Zenon, <1>1, <2>1
  <1>. QED BY Zenon, <1>1, <1>2, CPUAssumption

\* The steps of a thread outside the loops of exit() and wait().
LEMMA ThreadKeepsWake ==
  ASSUME IInv, SleepInv, NEW c \in CPUs, NEW p \in Procs, cproc[c] = p,
         ThreadStep(c, p) \/ UserTimer(c, p) \/ KernelTimer(c, p),
         ~exit_lock(c, p), ~exit_wakeinit(c, p), ~exit_wakeparent(c, p),
         ~exit_zombie(c, p), ~wait_skip(c, p), ~wait_sleep(c, p)
  PROVE  SleepInv'
  <1>i. TypeOK /\ LockInv /\ CpuInv /\ ForkInv /\ ParentInv
    BY DEF IInv
  <1>t. TypeP /\ TypeT
    BY Zenon, <1>i, TypeGroups
  <1>1. clk' = clk
    BY Zenon, <1>i, ThreadEffects DEF ThreadEffect, OwnEffect
  <1>2. ASSUME NEW q \in Procs PROVE OwnQuiet(q)
    BY Zenon, <1>i, ThreadOthers, ThreadOwn, OtherOwn
  <1>3. ASSUME NEW q \in Procs, NEW r \in Procs, parent'[q] = r
        PROVE  parent[q] = r \/ (state'[q] # "ZOMBIE" /\ pc'[q] \notin Waking)
    <2>1. ASSUME NEW t \in Procs, fork_alloc(c, p, t) PROVE parent' = parent
      BY Zenon, <2>1 DEF fork_alloc
    <2>2. ASSUME NEW t \in Procs, parent' = [parent EXCEPT ![t] = null] PROVE parent[q] = r
      BY Zenon, <1>3, <1>t, <2>2, SlotFacts DEF TypeP
    <2>3. ASSUME NEW t \in Procs, fork_fail(c, p, t) PROVE parent[q] = r
      BY Zenon, <2>2, <2>3 DEF fork_fail, freeproc
    <2>4. CASE fork_run(c, p)
      BY Zenon, <1>3, <2>4 DEF fork_run
    <2>5. CASE wait_reap(c, p)
      BY Zenon, <2>2, <2>5, NextChildIn DEF wait_reap, freeproc
    <2>6. CASE fork_parent(c, p)
      <3>1. /\ pc[p] = "fork_parent" /\ parent' = [parent EXCEPT ![np[p]] = p]
            /\ state' = state /\ pc' = [pc EXCEPT ![p] = "fork_run"]
        BY Zenon, <2>6 DEF fork_parent, At, Goto
      <3>2. np[p] \in Procs /\ state[np[p]] = "USED"
        BY Zenon, <1>i, <3>1 DEF ForkInv
      <3>3. pc[np[p]] \in {"none", "forkret"}
        BY Zenon, <1>i, <3>2 DEF CpuInv
      <3>4. pc'[np[p]] \in {"none", "forkret", "fork_run"} /\ state'[np[p]] = "USED"
        BY Zenon, <1>t, <3>1, <3>2, <3>3 DEF TypeT
      <3>5. pc'[np[p]] \notin Waking /\ state'[np[p]] # "ZOMBIE"
        BY <3>4 DEF Waking
      <3>6. q # np[p] => parent[q] = r
        BY Zenon, <1>3, <1>t, <3>1, <3>2 DEF TypeP
      <3>. QED BY Zenon, <3>5, <3>6
    <2>. QED BY Zenon, <1>3, <1>i, <2>1, <2>3, <2>4, <2>5, <2>6, ThreadKeepsTree DEF TreeKept
  <1>4. WakeKept
    BY Zenon, <1>1, <1>2, <1>3 DEF WakeKept
  <1>. QED BY Zenon, <1>4, <1>i, WakeKeeps

\* The schedulers put running processes on CPUs and take them off.
LEMMA CpuKeepsWake ==
  ASSUME IInv, SleepInv, NEW c \in CPUs, scheduler(c) \/ sched(c)
  PROVE  SleepInv'
  <1>i. TypeOK
    BY DEF IInv
  <1>t. TypeP /\ TypeC /\ TypeT
    BY Zenon, <1>i, TypeGroups
  <1>1. clk' = clk /\ parent' = parent /\ i' = i /\ n' = n /\ schan' = schan
    BY Zenon DEF scheduler, scheduler1, sched, pvars, tvars, lvars
  <1>2. ASSUME NEW q \in Procs PROVE OwnQuiet(q)
    <2>1. CASE pc'[q] = pc[q] /\ state'[q] = state[q] /\ chan'[q] = chan[q]
      BY Zenon, <1>1, <2>1 DEF OwnQuiet, SleepsOn
    <2>2. CASE /\ state'[q] = "RUNNING" /\ pc'[q] = Resume(pc[q])
      <3>1. \/ pc'[q] = pc[q]
            \/ pc[q] \in {"sleep_wake", "forkret"} /\ pc'[q] \in {"sleep_relock", "user"}
        BY <2>2 DEF Resume
      <3>2. pc'[q] \in GoingToSleep => pc[q] = pc'[q]
        BY <3>1 DEF GoingToSleep
      <3>3. pc'[q] = pc[q] \/ (pc[q] \notin Waking /\ pc'[q] \notin Waking)
        BY <3>1 DEF Waking
      <3>. QED BY Zenon, <1>1, <2>2, <3>2, <3>3 DEF OwnQuiet, SleepsOn
    <2>3. ASSUME scheduler(c)
          PROVE  \/ pc'[q] = pc[q] /\ state'[q] = state[q] /\ chan'[q] = chan[q]
                 \/ state'[q] = "RUNNING" /\ pc'[q] = Resume(pc[q])
      <3>1. next[c] \in Procs
        BY Zenon, <1>t DEF TypeC
      <3>2. \/ UNCHANGED <<state, chan, pc>>
            \/ /\ state' = [state EXCEPT ![next[c]] = "RUNNING"]
               /\ chan' = chan \/ chan' = [chan EXCEPT ![next[c]] = null]
               /\ pc' = [pc EXCEPT ![next[c]] = Resume(@)]
        BY Zenon, <2>3 DEF scheduler, scheduler1
      <3>3. CASE UNCHANGED <<state, chan, pc>>
        BY Zenon, <3>3
      <3>4. CASE /\ state' = [state EXCEPT ![next[c]] = "RUNNING"]
                 /\ chan' = chan \/ chan' = [chan EXCEPT ![next[c]] = null]
                 /\ pc' = [pc EXCEPT ![next[c]] = Resume(@)]
        <4>1. CASE q = next[c]
          BY Zenon, <1>t, <3>1, <3>4, <4>1 DEF TypeP, TypeT
        <4>2. CASE q # next[c]
          BY Zenon, <1>t, <3>1, <3>4, <4>2 DEF TypeP, TypeT
        <4>. QED BY Zenon, <4>1, <4>2
      <3>. QED BY Zenon, <3>2, <3>3, <3>4
    <2>4. CASE sched(c)
      BY Zenon, <2>1, <2>4 DEF sched, pvars, tvars
    <2>. QED BY Zenon, <2>1, <2>2, <2>3, <2>4
  <1>3. WakeKept
    BY Zenon, <1>1, <1>2 DEF WakeKept
  <1>. QED BY Zenon, <1>3, <1>i, WakeKeeps

\* What a step in the loops of exit() and wait() does to the others.
LEMMA LoopOthers ==
  ASSUME IInv, NEW c \in CPUs, NEW p \in Procs, cproc[c] = p, ThreadStep(c, p)
  PROVE  /\ clk' = clk /\ ~sw[c]
         /\ \A q \in Procs \ {p} :
               /\ OtherQuiet(q) /\ OwnQuiet(q) /\ i'[q] = i[q]
               /\ pc'[q] \in Waking <=> pc[q] \in Waking
               /\ pc[q] \in Waking => pc'[q] = pc[q]
  <1>i. TypeOK /\ LockInv /\ CpuInv /\ ForkInv /\ ParentInv
    BY DEF IInv
  <1>1. clk' = clk /\ ~sw[c]
    BY Zenon, <1>i, ThreadEffects DEF ThreadEffect, OwnEffect
  <1>2. ASSUME NEW q \in Procs \ {p} PROVE OtherQuiet(q) /\ OwnQuiet(q)
    BY Zenon, <1>i, ThreadOthers, OtherOwn
  <1>. QED BY Zenon, <1>1, <1>2 DEF OtherQuiet

\* wait_lock is held at these labels, by one process.
LEMMA OneWaking ==
  ASSUME IInv, NEW p \in Procs, NEW q \in Procs,
         pc[p] \in Waking, pc[q] \in Waking
  PROVE  p = q /\ lock[wait_lock] # Free
  <1>1. Holds(p, wait_lock) /\ Holds(q, wait_lock)
    BY DEF Holds, Waking
  <1>2. TypeOK /\ LockInv /\ CpuInv /\ wait_lock \in Locks
    BY SlotFacts DEF IInv
  <1>. QED BY Zenon, <1>1, <1>2, Exclusive

\* Whoever is in sleep() with wait_lock given up holds its p->lock.
LEMMA NotGoing ==
  ASSUME IInv, NEW p \in Procs, NEW r \in Procs, r # p, pc[p] \in Waking, lock[r] = Free
  PROVE  ~(pc[r] \in GoingToSleep /\ schan[r] = r)
  <1> SUFFICES ASSUME pc[r] \in GoingToSleep, schan[r] = r PROVE FALSE
    OBVIOUS
  <1>1. TypeOK /\ LockInv /\ CpuInv /\ wait_lock \in Locks /\ r \in Locks /\ r # ticks
    BY SlotFacts DEF IInv
  <1>2. Holds(p, wait_lock)
    BY DEF Holds, Waking
  <1>3. Holds(r, wait_lock) \/ Holds(r, r)
    BY Zenon, <1>1 DEF Holds, LockOf, GoingToSleep
  <1>. QED BY Zenon, <1>1, <1>2, <1>3, Exclusive

\* The next child of a scan is the first that is left.
LEMMA NextChildLeast ==
  ASSUME NEW p \in Procs, RestOfScan(p) # {}
  PROVE  NextChild(p) \in RestOfScan(p) /\ \A u \in RestOfScan(p) : NextChild(p) <= u
  <1>1. RestOfScan(p) \subseteq Nat
    BY NPROCAssumption DEF RestOfScan, Children, Procs
  <1>2. \E t \in RestOfScan(p) : \A u \in RestOfScan(p) : t <= u
    BY <1>1, LeastSlot
  <1>. QED BY Zenon, <1>2 DEF NextChild

\* wait() passes a child that is no zombie.
LEMMA SkipKeeps ==
  ASSUME IInv, SleepInv, NEW c \in CPUs, NEW p \in Procs, cproc[c] = p, wait_skip(c, p)
  PROVE  SleepInv'
  <1>1. /\ pc[p] = "wait_scan" /\ RestOfScan(p) # {} /\ state[NextChild(p)] # "ZOMBIE"
        /\ i' = [i EXCEPT ![p] = NextChild(p) + 1]
        /\ state' = state /\ parent' = parent /\ chan' = chan /\ pc' = pc
        /\ schan' = schan /\ n' = n /\ clk' = clk
    BY Zenon DEF wait_skip, At, pvars, cvars
  <1>2. i'[p] = NextChild(p) + 1 /\ \A q \in Procs \ {p} : i'[q] = i[q]
    BY Zenon, <1>1 DEF IInv, TypeOK
  <1>3. \A q \in Procs : Zombies(q)' = Zombies(q) /\ \A ch : SleepsOn(q, ch)' <=> SleepsOn(q, ch)
    BY Zenon, <1>1 DEF Zombies, Children, SleepsOn
  <1>4. IndexInv'
    BY Zenon, <1>1, <1>2 DEF SleepInv, IndexInv
  <1>5. ScanInv'
    <2>1. ASSUME NEW t \in Zombies(p) PROVE i'[p] <= t
      <3>1. i[p] <= t /\ t \in Children(p) /\ t \in Nat /\ i[p] \in Nat
        <4>1. i[p] <= t /\ t \in Children(p)
          BY Zenon, <1>1 DEF SleepInv, ScanInv, Zombies
        <4>2. t \in Procs /\ i[p] \in 0 .. NPROC
          BY Zenon, <4>1 DEF Children, IInv, TypeOK
        <4>. QED BY <4>1, <4>2, NPROCAssumption DEF Procs
      <3>2. t \in RestOfScan(p)
        BY <3>1 DEF RestOfScan
      <3>3. NextChild(p) <= t /\ NextChild(p) \in Nat
        BY <1>1, <3>2, NextChildLeast, NPROCAssumption DEF RestOfScan, Children, Procs
      <3>4. NextChild(p) # t
        BY Zenon, <1>1 DEF Zombies
      <3>. QED BY <1>2, <3>1, <3>3, <3>4
    <2>. QED BY Zenon, <1>1, <1>2, <1>3, <2>1 DEF SleepInv, ScanInv
  <1>6. WaitInv'
    BY Zenon, <1>1, <1>2, <1>3 DEF SleepInv, WaitInv
  <1>7. WakeInv'
    <2>1. ASSUME NEW q \in Procs, NEW r \in Procs, parent'[q] = r,
                 pc'[q] = "exit_zombie" \/ (pc'[q] = "exit_wakeparent" /\ r < i'[q])
          PROVE  ~SleepsOn(r, r)'
      <3>1. q # p
        BY Zenon, <1>1, <2>1
      <3>. QED BY Zenon, <1>1, <1>2, <1>3, <2>1, <3>1 DEF SleepInv, WakeInv
    <2>. QED BY Zenon, <2>1 DEF WakeInv
  <1>8. TickInv'
    BY Zenon, <1>1, <1>3 DEF SleepInv, TickInv
  <1>. QED BY Zenon, <1>4, <1>5, <1>6, <1>7, <1>8 DEF SleepInv

\* wait() goes to sleep with wait_lock, after a scan that found no zombie.
LEMMA WaitSleepKeeps ==
  ASSUME IInv, SleepInv, NEW c \in CPUs, NEW p \in Procs, cproc[c] = p, wait_sleep(c, p)
  PROVE  SleepInv'
  <1>1. /\ pc[p] = "wait_scan" /\ RestOfScan(p) = {} /\ ~sw[c]
        /\ i' = [i EXCEPT ![p] = 0] /\ schan' = [schan EXCEPT ![p] = p]
        /\ pc' = [pc EXCEPT ![p] = "sleep_lock"]
        /\ state' = state /\ parent' = parent /\ chan' = chan /\ n' = n /\ clk' = clk
    BY Zenon DEF wait_sleep, At, pvars, cvars, Goto
  <1>2. /\ i'[p] = 0 /\ schan'[p] = p /\ pc'[p] = "sleep_lock" /\ p # ticks
        /\ \A q \in Procs \ {p} : i'[q] = i[q] /\ schan'[q] = schan[q] /\ pc'[q] = pc[q]
    BY Zenon, <1>1, SlotFacts DEF IInv, TypeOK
  <1>3. state[p] = "RUNNING"
    BY Zenon, <1>1, SlotFacts DEF IInv, CpuInv
  <1>4. Zombies(p) = {}
    <2>1. ASSUME NEW t \in Zombies(p) PROVE FALSE
      <3>1. i[p] <= t /\ t \in Children(p)
        BY Zenon, <1>1 DEF SleepInv, ScanInv, Zombies
      <3>2. t \in RestOfScan(p)
        BY <3>1, NPROCAssumption DEF RestOfScan, Children, Procs, IInv, TypeOK
      <3>. QED BY Zenon, <1>1, <3>2
    <2>. QED BY Zenon, <2>1
  <1>5. /\ \A q \in Procs : Zombies(q)' = Zombies(q)
        /\ \A q \in Procs \ {p} : \A ch : SleepsOn(q, ch)' <=> SleepsOn(q, ch)
        /\ ~SleepsOn(p, ticks)'
    BY Zenon, <1>1, <1>2, <1>3 DEF Zombies, Children, SleepsOn
  <1>6. \A q \in Procs \ {p} : pc[q] \notin Waking
    <2>1. pc[p] \in Waking
      BY <1>1 DEF Waking
    <2>. QED BY Zenon, <2>1, OneWaking
  <1>7. IndexInv'
    BY Zenon, <1>1, <1>2 DEF SleepInv, IndexInv
  <1>8. ScanInv' /\ WakeInv'
    <2>1. \A q \in Procs : pc'[q] \notin Waking
      <3>1. pc'[p] \notin Waking
        BY <1>2 DEF Waking
      <3>. QED BY Zenon, <1>2, <1>6, <3>1
    <2>. QED BY Zenon, <2>1 DEF ScanInv, WakeInv, Waking
  <1>9. WaitInv'
    <2>1. ASSUME NEW q \in Procs, SleepsOn(q, q)', Zombies(q)' # {} PROVE FALSE
      <3>1. q # p /\ SleepsOn(q, q) /\ Zombies(q) # {}
        BY Zenon, <1>4, <1>5, <2>1
      <3>2. PICK r \in Procs : pc[r] = "exit_wakeinit"
        BY Zenon, <3>1 DEF SleepInv, WaitInv
      <3>3. pc[r] \in Waking /\ r # p
        BY <1>1, <3>2 DEF Waking
      <3>. QED BY Zenon, <1>6, <3>3
    <2>. QED BY Zenon, <2>1 DEF WaitInv
  <1>10. TickInv'
    BY Zenon, <1>1, <1>5 DEF SleepInv, TickInv
  <1>. QED BY Zenon, <1>7, <1>8, <1>9, <1>10 DEF SleepInv

\* exit() takes wait_lock and hands its children to init, whom it is to wake.
LEMMA ReparentKeeps ==
  ASSUME IInv, SleepInv, NEW c \in CPUs, NEW p \in Procs, cproc[c] = p, exit_lock(c, p)
  PROVE  SleepInv'
  <1>1. /\ pc[p] = "exit_lock" /\ lock[wait_lock] = Free
        /\ parent' = [t \in Procs |-> IF parent[t] = p THEN initproc ELSE parent[t]]
        /\ pc' = [pc EXCEPT ![p] = IF Children(p) # {} THEN "exit_wakeinit"
                                                       ELSE "exit_wakeparent"]
        /\ state' = state /\ i' = i
    BY Zenon DEF exit_lock, At, acquire, Goto, lvars
  <1>2. /\ clk' = clk /\ ~sw[c] /\ \A q \in Procs \ {p} : OwnQuiet(q) /\ pc'[q] = pc[q]
    <2>1. ThreadStep(c, p)
      BY Zenon DEF ThreadStep
    <2>2. \A q \in Procs \ {p} : pc'[q] = pc[q]
      BY Zenon, <1>1 DEF IInv, TypeOK
    <2>. QED BY Zenon, <2>1, <2>2, LoopOthers
  <1>3. p # initproc /\ initproc \in Procs /\ initproc = 0
    BY Zenon, <1>1, SlotFacts DEF IInv, ParentInv, initproc
  <1>4. /\ i'[p] = 0
        /\ Children(p) # {} => pc'[p] = "exit_wakeinit"
        /\ Children(p) = {} => pc'[p] = "exit_wakeparent"
    BY <1>1 DEF SleepInv, IndexInv, IInv, TypeOK
  <1>5. \A q \in Procs : pc[q] \notin Waking
    BY Zenon, <1>1, OneWaking
  <1>6. state[p] = "RUNNING" /\ ~SleepsOn(p, p)' /\ ~SleepsOn(p, ticks)'
    <2>1. state[p] = "RUNNING"
      BY Zenon, <1>1, <1>2, SlotFacts DEF IInv, CpuInv
    <2>2. pc'[p] \notin GoingToSleep
      BY <1>4 DEF GoingToSleep
    <2>. QED BY Zenon, <1>1, <2>1, <2>2 DEF SleepsOn
  <1>7. IndexInv'
    BY Zenon, <1>1, <1>2, <1>3, <1>4 DEF SleepInv, IndexInv
  <1>8. ScanInv'
    <2>1. \A q \in Procs : pc'[q] # "wait_scan"
      BY Zenon, <1>2, <1>4, <1>5 DEF Waking
    <2>. QED BY Zenon, <2>1 DEF ScanInv
  <1>9. WaitInv'
    <2>1. ASSUME NEW q \in Procs, SleepsOn(q, q)', Zombies(q)' # {}
          PROVE  q = initproc /\ pc'[p] = "exit_wakeinit"
      <3>1. q # p /\ SleepsOn(q, q)
        BY Zenon, <1>2, <1>6, <2>1 DEF OwnQuiet
      <3>2. Zombies(q) = {}
        <4>1. ASSUME NEW r \in Procs, pc[r] = "exit_wakeinit" PROVE FALSE
          BY <1>5, <4>1 DEF Waking
        <4>. QED BY Zenon, <3>1, <4>1 DEF SleepInv, WaitInv
      <3>3. PICK t \in Procs : parent'[t] = q /\ state[t] = "ZOMBIE"
        BY Zenon, <1>1, <2>1 DEF Zombies, Children
      <3>4. parent[t] # q
        BY Zenon, <3>2, <3>3 DEF Zombies, Children
      <3>5. parent[t] = p /\ q = initproc
        BY Zenon, <1>1, <3>3, <3>4
      <3>. QED BY Zenon, <1>4, <3>5 DEF Children
    <2>2. i'[p] <= initproc
      BY <1>3, <1>4
    <2>. QED BY Zenon, <2>1, <2>2 DEF WaitInv
  <1>10. WakeInv'
    <2>1. ASSUME NEW q \in Procs, NEW r \in Procs, parent'[q] = r,
                 pc'[q] = "exit_zombie" \/ (pc'[q] = "exit_wakeparent" /\ r < i'[q])
          PROVE  FALSE
      <3>1. q = p
        BY Zenon, <1>2, <1>5, <2>1 DEF Waking
      <3>. QED BY <1>4, <2>1, <3>1, NPROCAssumption DEF Procs
    <2>. QED BY Zenon, <2>1 DEF WakeInv
  <1>11. TickInv'
    BY Zenon, <1>2, <1>6 DEF SleepInv, TickInv, OwnQuiet
  <1>. QED BY Zenon, <1>7, <1>8, <1>9, <1>10, <1>11 DEF SleepInv

\* One iteration of wakeup(ch) in exit(): the process of slot ch no longer sleeps
\* on itself when its turn is over.
LEMMA WakeIteration ==
  ASSUME IInv, SleepInv, NEW c \in CPUs, NEW p \in Procs, cproc[c] = p, ThreadStep(c, p),
         NEW l \in {"exit_wakeinit", "exit_wakeparent"}, NEW ch,
         NEW l2 \in {"exit_wakeparent", "exit_zombie"}, exit_wake(c, p, l, ch, l2)
  PROVE  /\ pc[p] = l /\ i[p] \in Procs /\ parent' = parent /\ clk' = clk
         /\ \/ i[p] = NPROC - 1 /\ i'[p] = 0 /\ pc'[p] = l2
            \/ i[p] # NPROC - 1 /\ i'[p] = i[p] + 1 /\ pc'[p] = l
         /\ \A q \in Procs : /\ Zombies(q)' \subseteq Zombies(q)
                             /\ SleepsOn(q, q)' => SleepsOn(q, q)
                             /\ q # p => pc[q] \notin Waking /\ pc'[q] \notin Waking
         /\ i[p] = ch => ~SleepsOn(ch, ch)'
         /\ IndexInv' /\ ScanInv' /\ TickInv'
  <1>1. /\ pc[p] = l /\ wakeup1(c, ch, i[p]) /\ ~sw[c]
        /\ i' = [i EXCEPT ![p] = (@ + 1) % NPROC]
        /\ pc' = [pc EXCEPT ![p] = IF i[p] = NPROC - 1 THEN l2 ELSE l]
        /\ parent' = parent /\ clk' = clk /\ chan' = chan /\ schan' = schan /\ n' = n
    BY Zenon DEF exit_wake, At, Goto, cvars
  <1>2. i[p] \in Procs
    BY Zenon, <1>1 DEF SleepInv, IndexInv
  <1>3. /\ \/ i[p] = NPROC - 1 /\ i'[p] = 0 /\ pc'[p] = l2
           \/ i[p] # NPROC - 1 /\ i'[p] = i[p] + 1 /\ pc'[p] = l
        /\ i'[p] \in Procs
    <2>1. i'[p] = (i[p] + 1) % NPROC /\ pc'[p] = IF i[p] = NPROC - 1 THEN l2 ELSE l
      BY Zenon, <1>1 DEF IInv, TypeOK
    <2>2. (i[p] + 1) % NPROC = IF i[p] = NPROC - 1 THEN 0 ELSE i[p] + 1
      BY <1>2, NPROCAssumption DEF Procs
    <2>3. (IF i[p] = NPROC - 1 THEN 0 ELSE i[p] + 1) \in Procs
      BY <1>2, NPROCAssumption DEF Procs
    <2>. QED BY <2>1, <2>2, <2>3
  <1>4. pc[p] \in Waking /\ pc'[p] \notin GoingToSleep /\ pc'[p] # "wait_scan"
    BY <1>1, <1>3 DEF Waking, GoingToSleep
  <1>5. \A q \in Procs \ {p} : /\ OtherQuiet(q) /\ OwnQuiet(q) /\ i'[q] = i[q]
                               /\ pc[q] \notin Waking /\ pc'[q] \notin Waking /\ pc'[q] = pc[q]
    <2>1. \A q \in Procs \ {p} : pc[q] \notin Waking
      BY Zenon, <1>4, OneWaking
    <2>2. \A q \in Procs \ {p} : pc'[q] = pc[q]
      BY Zenon, <1>1 DEF IInv, TypeOK
    <2>. QED BY Zenon, <2>1, <2>2, LoopOthers
  <1>6. /\ state[p] = "RUNNING"
        /\ \A q \in Procs : state'[q] = state[q] \/ (state[q] = "SLEEPING" /\ state'[q] = "RUNNABLE")
    <2>1. state[p] = "RUNNING"
      BY Zenon, <1>1, SlotFacts DEF IInv, CpuInv
    <2>2. state' = state \/ (state[i[p]] = "SLEEPING" /\ state' = [state EXCEPT ![i[p]] = "RUNNABLE"])
      BY Zenon, <1>1 DEF wakeup1
    <2>. QED BY Zenon, <1>2, <2>1, <2>2 DEF IInv, TypeOK
  <1>7. state'[p] = "RUNNING" /\ ~SleepsOn(p, p)' /\ ~SleepsOn(p, ticks)'
    BY Zenon, <1>4, <1>6 DEF SleepsOn
  <1>8. \A q \in Procs : Zombies(q)' \subseteq Zombies(q) /\ (SleepsOn(q, q)' => SleepsOn(q, q))
    BY Zenon, <1>1, <1>5, <1>6, <1>7 DEF Zombies, Children, OwnQuiet
  <1>9. ASSUME i[p] = ch PROVE ~SleepsOn(ch, ch)'
    <2>1. CASE ch = p
      BY Zenon, <1>7, <2>1
    <2>2. CASE ch # p
      <3>1. /\ lock[ch] = Free
            /\ state' = IF state[ch] = "SLEEPING" /\ chan[ch] = ch
                        THEN [state EXCEPT ![ch] = "RUNNABLE"] ELSE state
        BY Zenon, <1>1, <1>9, <2>2 DEF wakeup1
      <3>2. ch \in Procs /\ pc'[ch] = pc[ch]
        BY Zenon, <1>2, <1>5, <1>9, <2>2
      <3>3. ~(pc[ch] \in GoingToSleep /\ schan[ch] = ch)
        BY Zenon, <1>4, <2>2, <3>1, <3>2, NotGoing
      <3>4. ~(state'[ch] = "SLEEPING" /\ chan[ch] = ch)
        BY Zenon, <3>1, <3>2 DEF IInv, TypeOK
      <3>. QED BY Zenon, <1>1, <3>2, <3>3, <3>4 DEF SleepsOn
    <2>. QED BY Zenon, <2>1, <2>2
  <1>10. IndexInv'
    <2>1. ASSUME NEW q \in Procs \ {p}
          PROVE  pc'[q] \notin {"exit_wakeinit", "exit_wakeparent"} /\ i'[q] = 0
      <3>1. pc[q] \notin {"exit_wakeinit", "exit_wakeparent", "wait_scan"} /\ pc'[q] = pc[q]
        BY <1>5 DEF Waking
      <3>. QED BY Zenon, <1>5, <3>1 DEF SleepInv, IndexInv
    <2>2. pc'[p] \notin {"exit_wakeinit", "exit_wakeparent", "wait_scan"} => i'[p] = 0
      BY Zenon, <1>3
    <2>. QED BY Zenon, <1>3, <2>1, <2>2 DEF IndexInv
  <1>11. ScanInv'
    BY Zenon, <1>4, <1>5 DEF ScanInv, Waking
  <1>12. TickInv'
    BY Zenon, <1>1, <1>5, <1>7 DEF SleepInv, TickInv, OwnQuiet
  <1>. QED BY Zenon, <1>1, <1>2, <1>3, <1>5, <1>8, <1>9, <1>10, <1>11, <1>12

\* wakeup(initproc): init, who may have got zombies, does not sleep past its turn.
LEMMA WakeInitKeeps ==
  ASSUME IInv, SleepInv, NEW c \in CPUs, NEW p \in Procs, cproc[c] = p, exit_wakeinit(c, p)
  PROVE  SleepInv'
  <1>1. /\ ThreadStep(c, p)
        /\ exit_wake(c, p, "exit_wakeinit", initproc, "exit_wakeparent")
    BY Zenon DEF ThreadStep, exit_wakeinit
  <1>2. /\ pc[p] = "exit_wakeinit" /\ i[p] \in Procs /\ parent' = parent
        /\ \/ i[p] = NPROC - 1 /\ i'[p] = 0 /\ pc'[p] = "exit_wakeparent"
           \/ i[p] # NPROC - 1 /\ i'[p] = i[p] + 1 /\ pc'[p] = "exit_wakeinit"
        /\ \A q \in Procs : /\ Zombies(q)' \subseteq Zombies(q)
                            /\ SleepsOn(q, q)' => SleepsOn(q, q)
                            /\ q # p => pc[q] \notin Waking /\ pc'[q] \notin Waking
        /\ i[p] = initproc => ~SleepsOn(initproc, initproc)'
        /\ IndexInv' /\ ScanInv' /\ TickInv'
    BY Zenon, <1>1, WakeIteration
  <1>3. WaitInv'
    <2>1. ASSUME NEW q \in Procs, SleepsOn(q, q)', Zombies(q)' # {} PROVE FALSE
      <3>1. PICK r \in Procs : q = initproc /\ pc[r] = "exit_wakeinit" /\ i[r] <= q
        BY Zenon, <1>2, <2>1 DEF SleepInv, WaitInv
      <3>2. r = p
        BY Zenon, <1>2, <3>1 DEF Waking
      <3>3. i[p] = initproc
        BY <1>2, <3>1, <3>2, NPROCAssumption DEF Procs, initproc
      <3>. QED BY Zenon, <1>2, <2>1, <3>1, <3>3
    <2>. QED BY Zenon, <2>1 DEF WaitInv
  <1>4. WakeInv'
    <2>1. ASSUME NEW q \in Procs, NEW r \in Procs, parent'[q] = r,
                 pc'[q] = "exit_zombie" \/ (pc'[q] = "exit_wakeparent" /\ r < i'[q])
          PROVE  FALSE
      <3>1. q = p
        BY Zenon, <1>2, <2>1 DEF Waking
      <3>. QED BY <1>2, <2>1, <3>1, NPROCAssumption DEF Procs
    <2>. QED BY Zenon, <2>1 DEF WakeInv
  <1>. QED BY Zenon, <1>2, <1>3, <1>4 DEF SleepInv

\* wakeup(p->parent): nor does the parent.
LEMMA WakeParentKeeps ==
  ASSUME IInv, SleepInv, NEW c \in CPUs, NEW p \in Procs, cproc[c] = p, exit_wakeparent(c, p)
  PROVE  SleepInv'
  <1>1. /\ ThreadStep(c, p)
        /\ exit_wake(c, p, "exit_wakeparent", parent[p], "exit_zombie")
    BY Zenon DEF ThreadStep, exit_wakeparent
  <1>2. /\ pc[p] = "exit_wakeparent" /\ i[p] \in Procs /\ parent' = parent
        /\ \/ i[p] = NPROC - 1 /\ i'[p] = 0 /\ pc'[p] = "exit_zombie"
           \/ i[p] # NPROC - 1 /\ i'[p] = i[p] + 1 /\ pc'[p] = "exit_wakeparent"
        /\ \A q \in Procs : /\ Zombies(q)' \subseteq Zombies(q)
                            /\ SleepsOn(q, q)' => SleepsOn(q, q)
                            /\ q # p => pc[q] \notin Waking /\ pc'[q] \notin Waking
        /\ IndexInv' /\ ScanInv' /\ TickInv'
    BY Zenon, <1>1, WakeIteration
  <1>3. i[p] = parent[p] => ~SleepsOn(parent[p], parent[p])'
    <2>1. PICK r : r = parent[p]
      OBVIOUS
    <2>2. exit_wake(c, p, "exit_wakeparent", r, "exit_zombie")
      BY Zenon, <1>1, <2>1
    <2>3. i[p] = r => ~SleepsOn(r, r)'
      BY Zenon, <1>1, <2>2, WakeIteration
    <2>4. parent'[p] = parent[p]
      BY Zenon, <1>2
    <2>. QED BY <2>1, <2>3, <2>4
  <1>4. WaitInv'
    <2>1. ASSUME NEW q \in Procs, SleepsOn(q, q)', Zombies(q)' # {} PROVE FALSE
      <3>1. PICK r \in Procs : q = initproc /\ pc[r] = "exit_wakeinit" /\ i[r] <= q
        BY Zenon, <1>2, <2>1 DEF SleepInv, WaitInv
      <3>. QED BY Zenon, <1>2, <3>1 DEF Waking
    <2>. QED BY Zenon, <2>1 DEF WaitInv
  <1>5. WakeInv'
    <2>1. ASSUME NEW q \in Procs, NEW r \in Procs, parent'[q] = r,
                 pc'[q] = "exit_zombie" \/ (pc'[q] = "exit_wakeparent" /\ r < i'[q])
          PROVE  ~SleepsOn(r, r)'
      <3>1. q = p /\ parent[p] = r
        BY Zenon, <1>2, <2>1 DEF Waking
      <3>2. r < i[p] \/ r = i[p]
        BY <1>2, <2>1, <3>1, NPROCAssumption DEF Procs
      <3>3. CASE r < i[p]
        BY Zenon, <1>2, <3>1, <3>3 DEF SleepInv, WakeInv
      <3>4. CASE r = i[p]
        BY Zenon, <1>2, <1>3, <3>1, <3>4
      <3>. QED BY Zenon, <3>2, <3>3, <3>4
    <2>. QED BY Zenon, <2>1 DEF WakeInv
  <1>. QED BY Zenon, <1>2, <1>4, <1>5 DEF SleepInv

\* The process becomes a zombie once its parent is awake.
LEMMA ZombieKeeps ==
  ASSUME IInv, SleepInv, NEW c \in CPUs, NEW p \in Procs, cproc[c] = p, exit_zombie(c, p)
  PROVE  SleepInv'
  <1>1. /\ pc[p] = "exit_zombie" /\ ThreadStep(c, p)
        /\ state' = [state EXCEPT ![p] = "ZOMBIE"] /\ pc' = [pc EXCEPT ![p] = "exit_release"]
        /\ parent' = parent /\ i' = i
    BY Zenon DEF exit_zombie, At, Goto, lvars, ThreadStep
  <1>2. /\ pc'[p] = "exit_release" /\ state'[p] = "ZOMBIE"
        /\ \A q \in Procs \ {p} : state'[q] = state[q] /\ pc'[q] = pc[q]
    BY Zenon, <1>1 DEF IInv, TypeOK
  <1>3. clk' = clk /\ \A q \in Procs \ {p} : OwnQuiet(q)
    BY Zenon, <1>1, LoopOthers
  <1>4. \A q \in Procs : pc'[q] \notin Waking /\ (q # p => pc[q] \notin Waking)
    <2>1. pc[p] \in Waking /\ pc'[p] \notin Waking
      BY <1>1, <1>2 DEF Waking
    <2>. QED BY Zenon, <1>2, <2>1, OneWaking
  <1>5. ~SleepsOn(p, p)' /\ ~SleepsOn(p, ticks)'
    BY Zenon, <1>2 DEF SleepsOn, GoingToSleep
  <1>6. IndexInv'
    BY Zenon, <1>1, <1>2 DEF SleepInv, IndexInv
  <1>7. ScanInv' /\ WakeInv'
    BY Zenon, <1>4 DEF ScanInv, WakeInv, Waking
  <1>8. WaitInv'
    <2>1. ASSUME NEW q \in Procs, SleepsOn(q, q)', Zombies(q)' # {} PROVE FALSE
      <3>1. q # p /\ SleepsOn(q, q)
        BY Zenon, <1>3, <1>5, <2>1 DEF OwnQuiet
      <3>2. parent[p] # q
        BY Zenon, <1>1, <3>1 DEF SleepInv, WakeInv
      <3>3. Zombies(q) # {}
        <4>1. PICK t \in Procs : parent'[t] = q /\ state'[t] = "ZOMBIE"
          BY Zenon, <2>1 DEF Zombies, Children
        <4>2. parent[t] = q /\ state[t] = "ZOMBIE"
          BY Zenon, <1>1, <1>2, <3>2, <4>1
        <4>. QED BY Zenon, <4>2 DEF Zombies, Children
      <3>4. PICK r \in Procs : pc[r] = "exit_wakeinit"
        BY Zenon, <3>1, <3>3 DEF SleepInv, WaitInv
      <3>. QED BY Zenon, <1>1, <1>4, <3>4 DEF Waking
    <2>. QED BY Zenon, <2>1 DEF WaitInv
  <1>9. TickInv'
    BY Zenon, <1>3, <1>5 DEF SleepInv, TickInv, OwnQuiet
  <1>. QED BY Zenon, <1>6, <1>7, <1>8, <1>9 DEF SleepInv

\* clockintr() starts from slot 0, and its loop passes nobody whose time has come:
\* whoever is on the way to sleep(&ticks) holds tickslock or its p->lock.
LEMMA ClockKeepsWake ==
  ASSUME IInv, SleepInv, clock_start \/ clock_wake
  PROVE  SleepInv'
  <1>i. TypeOK /\ LockInv /\ IntrInv /\ CpuInv
    BY DEF IInv
  <1>1. pc' = pc /\ i' = i /\ schan' = schan /\ chan' = chan /\ parent' = parent
    BY Zenon DEF clock_start, clock_wake, pvars, tvars, lvars
  <1>2. \A q \in Procs : \/ state'[q] = state[q]
                         \/ state[q] = "SLEEPING" /\ state'[q] = "RUNNABLE"
    BY Zenon, <1>i DEF clock_start, clock_wake, wakeup1, pvars, TypeOK
  <1>3. \A q \in Procs : /\ Zombies(q)' \subseteq Zombies(q)
                         /\ \A ch : SleepsOn(q, ch)' => SleepsOn(q, ch)
    BY Zenon, <1>1, <1>2 DEF Zombies, Children, SleepsOn
  <1>4. IndexInv' /\ ScanInv'
    BY Zenon, <1>1, <1>3 DEF SleepInv, IndexInv, ScanInv
  <1>5. WaitInv'
    BY Zenon, <1>1, <1>3 DEF SleepInv, WaitInv
  <1>6. WakeInv'
    BY Zenon, <1>1, <1>3 DEF SleepInv, WakeInv
  <1>7. CASE clock_start
    <2>1. clk' = 0
      BY Zenon, <1>7 DEF clock_start
    <2>2. TickInv'
      BY <2>1, NPROCAssumption DEF TickInv, Procs
    <2>. QED BY Zenon, <1>4, <1>5, <1>6, <2>2 DEF SleepInv
  <1>8. CASE clock_wake
    <2>1. clk # NPROC /\ wakeup1(Cpu0, ticks, clk) /\ clk' = clk + 1 /\ n' = n
      BY Zenon, <1>8 DEF clock_wake, tvars, lvars
    <2>2. clk \in Procs
      BY <2>1, <1>i, SlotFacts DEF TypeOK
    <2>3. /\ Cpu0 \in CPUs /\ ~sw[Cpu0] /\ lock[tickslock] = Cpu0 /\ tickslock \in Locks
          /\ cproc[Cpu0] # null => \A l \in Locks : ~Holds(cproc[Cpu0], l)
      BY Zenon, <1>i, <2>1, CPUAssumption, SlotFacts DEF IntrInv, LockInv, Owns, InIntr
    <2>4. ASSUME NEW p \in Procs, p = clk
          PROVE  ~SleepsOn(p, ticks)'
      <3>1. p \in Locks /\ p # null
        BY Zenon, SlotFacts
      <3>2. ASSUME pc[p] \in GoingToSleep, schan[p] = ticks
            PROVE  Holds(p, tickslock) \/ Holds(p, p)
        BY Zenon, <3>2 DEF Holds, LockOf, GoingToSleep
      <3>3. CASE p = cproc[Cpu0]
        <4>1. ~Holds(p, tickslock) /\ ~Holds(p, p)
          BY Zenon, <2>3, <3>1, <3>3
        <4>2. state[p] \in {"RUNNING", "ZOMBIE"}
          BY Zenon, <1>i, <2>3, <3>1, <3>3 DEF CpuInv
        <4>. QED BY Zenon, <1>1, <1>2, <2>4, <3>2, <4>1, <4>2 DEF SleepsOn
      <3>4. CASE p # cproc[Cpu0]
        <4>1. /\ lock[p] = Free
              /\ state' = IF state[p] = "SLEEPING" /\ chan[p] = ticks
                          THEN [state EXCEPT ![p] = "RUNNABLE"] ELSE state
          BY Zenon, <2>1, <2>4, <3>4 DEF wakeup1
        <4>2. ~Holds(p, p)
          BY Zenon, <1>i, <3>1, <4>1, Exclusive
        <4>3. ~Holds(p, tickslock)
          <5>1. ASSUME Holds(p, tickslock) PROVE FALSE
            <6>1. PICK c \in CPUs : cproc[c] = p /\ lock[tickslock] = c
              BY Zenon, <1>i, <2>3, <5>1, HolderOnCpu
            <6>. QED BY Zenon, <2>3, <3>4, <6>1
          <5>. QED BY Zenon, <5>1
        <4>4. ~(state'[p] = "SLEEPING" /\ chan[p] = ticks)
          BY Zenon, <1>i, <4>1 DEF TypeOK
        <4>. QED BY Zenon, <1>1, <2>4, <3>2, <4>2, <4>3, <4>4 DEF SleepsOn
      <3>. QED BY Zenon, <3>3, <3>4
    <2>5. TickInv'
      <3>1. ASSUME NEW p \in Procs, SleepsOn(p, ticks)', n'[p] = 0 PROVE clk' <= p
        <4>1. clk <= p /\ p # clk
          BY Zenon, <1>3, <2>1, <2>4, <3>1 DEF SleepInv, TickInv
        <4>. QED BY <2>1, <2>2, <4>1, NPROCAssumption DEF Procs
      <3>. QED BY Zenon, <3>1 DEF TickInv
    <2>. QED BY Zenon, <1>4, <1>5, <1>6, <2>5 DEF SleepInv
  <1>. QED BY Zenon, <1>7, <1>8

\* userinit(): nobody sleeps.
LEMMA SleepInitial == Init => SleepInv
  <1> SUFFICES ASSUME Init PROVE SleepInv
    OBVIOUS
  <1>1. \A p \in Procs : /\ pc[p] \in {"none", "forkret"} /\ state[p] \in {"RUNNABLE", "UNUSED"}
                         /\ i[p] = 0
    BY DEF Init
  <1>2. \A p \in Procs : \A ch : ~SleepsOn(p, ch)
    BY Zenon, <1>1 DEF SleepsOn, GoingToSleep
  <1>3. IndexInv /\ ScanInv
    BY Zenon, <1>1 DEF IndexInv, ScanInv
  <1>. QED BY Zenon, <1>1, <1>2, <1>3 DEF SleepInv, WaitInv, WakeInv, TickInv

\* Every step of the kernel keeps every sleeper's wakeup on its way.
LEMMA SleepInductive == IInv /\ SleepInv /\ [Next]_vars => SleepInv'
  <1> SUFFICES ASSUME IInv, SleepInv, [Next]_vars PROVE SleepInv'
    OBVIOUS
  <1>1. ASSUME NEW c \in CPUs, NEW p \in Procs, cproc[c] = p,
               ThreadStep(c, p) \/ UserTimer(c, p) \/ KernelTimer(c, p)
        PROVE  SleepInv'
    BY Zenon, <1>1, ThreadKeepsWake, ReparentKeeps, WakeInitKeeps, WakeParentKeeps,
       ZombieKeeps, SkipKeeps, WaitSleepKeeps
  <1>2. ASSUME NEW c \in CPUs, scheduler(c) \/ sched(c) PROVE SleepInv'
    BY Zenon, <1>2, CpuKeepsWake
  <1>3. CASE clock_start \/ clock_wake
    BY Zenon, <1>3, ClockKeepsWake
  <1>4. CASE UNCHANGED vars
    <2>1. \A q \in Procs : OwnQuiet(q)
      BY Zenon, <1>4 DEF vars, OwnQuiet, SleepsOn
    <2>2. WakeKept
      BY Zenon, <1>4, <2>1 DEF vars, WakeKept
    <2>. QED BY Zenon, <2>2, WakeKeeps DEF IInv
  <1>. QED BY Zenon, <1>1, <1>2, <1>3, <1>4 DEF Next, myproc

\* No wakeup is lost: between the test of the condition under wait_lock or tickslock
\* and the moment the sleeper's p->lock is released, no exiting child and no tick can
\* pass it by.
THEOREM WakeupNeverLost == Spec => []NoLostWakeup
  <1>1. Spec => []SleepInv
    BY SleepInitial, SleepInductive, Invariance, PTL DEF Spec
  <1>2. SleepInv => NoLostWakeup
    <2> SUFFICES ASSUME SleepInv, NEW p \in Procs, state[p] = "SLEEPING"
                 PROVE  /\ (chan[p] = p /\ \E t \in Children(p) : state[t] = "ZOMBIE") =>
                               /\ p = initproc
                               /\ \E q \in Procs : pc[q] = "exit_wakeinit" /\ i[q] <= p
                        /\ (chan[p] = ticks /\ n[p] = 0) => clk <= p
      BY Zenon DEF NoLostWakeup
    <2>1. ASSUME chan[p] = p, \E t \in Children(p) : state[t] = "ZOMBIE"
          PROVE  p = initproc /\ \E q \in Procs : pc[q] = "exit_wakeinit" /\ i[q] <= p
      BY Zenon, <2>1 DEF SleepInv, WaitInv, SleepsOn, Zombies
    <2>2. ASSUME chan[p] = ticks, n[p] = 0 PROVE clk <= p
      BY Zenon, <2>2 DEF SleepInv, TickInv, SleepsOn
    <2>. QED BY Zenon, <2>1, <2>2
  <1>. QED BY <1>1, <1>2, PTL

-----------------------------------------------------------------------------

(* The alarms *)

\* The saved frame is the one the pending alarm interrupted.
SavedFrame == trapframe_alarm = interrupted

\* The count is at least what the program has waited for the interval it is for.
CountReaches ==
    /\ ticks_of_alarm = IF asked = 1 THEN 0 ELSE asked
    /\ asked # 1 /\ panicked = 0 => waited <= current_ticks

AlarmInv == AlarmTypeOK /\ NoReentry /\ SavedFrame /\ CountReaches /\ AlarmInTime

\* A fresh process table satisfies the invariant.
LEMMA AlarmInitial == AlarmInit => AlarmInv
  BY PointsAssumption, ValuesAssumption, IntervalsAssumption
  DEF AlarmInit, AlarmInv, AlarmTypeOK, NoReentry, SavedFrame, CountReaches, AlarmInTime, Frames

\* The counts are natural numbers, and clockintr() does not lower one.
LEMMA AlarmCounts ==
  ASSUME AlarmTypeOK, NEW cpu \in 0 .. 1
  PROVE  /\ asked \in Nat /\ waited \in Nat /\ current_ticks \in Nat
         /\ asked <= MaxTicks /\ current_ticks <= MaxTicks /\ MaxTicks \in Nat
         /\ Clock(cpu) \in Nat /\ Clock(cpu) >= current_ticks
  <1>1. /\ asked \in Nat /\ waited \in Nat /\ current_ticks \in Nat
        /\ asked <= MaxTicks /\ current_ticks <= MaxTicks /\ MaxTicks \in Nat
    BY IntervalsAssumption DEF AlarmTypeOK
  <1>. QED BY <1>1 DEF Clock

\* An interrupt in user mode that calls no handler keeps the count ahead.
LEMMA TimerCountKeeps ==
  ASSUME AlarmInv, NEW cpu \in 0 .. 1, timer_count(cpu)
  PROVE  AlarmInv'
  <1>1. AlarmTypeOK /\ NoReentry /\ SavedFrame /\ CountReaches /\ AlarmInTime
    BY DEF AlarmInv
  <1>2. /\ asked \in Nat /\ waited \in Nat /\ current_ticks \in Nat
        /\ asked <= MaxTicks /\ current_ticks <= MaxTicks /\ MaxTicks \in Nat
        /\ Clock(cpu) \in Nat /\ Clock(cpu) >= current_ticks
    BY <1>1, AlarmCounts
  <1>3. slot = "RUNNING" /\ panicked = 0
    BY DEF timer_count, Running
  <1>4. ticks_of_alarm' = ticks_of_alarm /\ asked' = asked /\ panicked' = panicked
    BY DEF timer_count
  <1>5. AlarmTypeOK'
    BY <1>1, <1>2 DEF timer_count, AtMost, AlarmTypeOK
  <1>6. NoReentry' /\ SavedFrame'
    BY <1>1 DEF timer_count, NoReentry, SavedFrame
  <1>7. CASE asked > 1 /\ depth = 0
    <2>1. ticks_of_alarm = asked /\ waited <= current_ticks
      BY <1>1, <1>2, <1>3, <1>7 DEF CountReaches
    <2>2. Counting
      BY <1>1, <1>2, <1>3, <1>7, <2>1 DEF Counting, NoReentry, AlarmTypeOK
    <2>3. Clock(cpu) + 1 < asked
      BY <1>2, <2>1, <2>2 DEF timer_count, Due
    <2>4. current_ticks' = Clock(cpu) + 1 /\ waited' = waited + 1
      BY <1>2, <1>7, <2>1, <2>2, <2>3 DEF timer_count, AtMost
    <2>5. waited' <= current_ticks' /\ waited' < asked
      BY <1>2, <2>1, <2>3, <2>4
    <2>6. CountReaches' /\ AlarmInTime'
      BY <1>1, <1>4, <2>5 DEF CountReaches, AlarmInTime
    <2>. QED BY <1>5, <1>6, <2>6 DEF AlarmInv
  <1>8. CASE ~(asked > 1 /\ depth = 0)
    <2>1. asked # 1 => waited' = waited
      BY <1>2, <1>8 DEF timer_count
    <2>2. current_ticks' >= current_ticks /\ current_ticks' \in Nat
      BY <1>2 DEF timer_count, AtMost
    <2>3. CountReaches'
      BY <1>1, <1>2, <1>3, <1>4, <2>1, <2>2 DEF CountReaches
    <2>4. AlarmInTime'
      BY <1>1, <1>2, <1>4, <2>1 DEF AlarmInTime
    <2>. QED BY <1>5, <1>6, <2>3, <2>4 DEF AlarmInv
  <1>. QED BY <1>7, <1>8

\* So does one in kernel mode.
LEMMA KernelTimerKeeps ==
  ASSUME AlarmInv, NEW cpu \in 0 .. 1, kernel_timer(cpu)
  PROVE  AlarmInv'
  <1>1. AlarmTypeOK /\ NoReentry /\ SavedFrame /\ CountReaches /\ AlarmInTime
    BY DEF AlarmInv
  <1>2. /\ asked \in Nat /\ waited \in Nat /\ current_ticks \in Nat
        /\ asked <= MaxTicks /\ current_ticks <= MaxTicks /\ MaxTicks \in Nat
        /\ Clock(cpu) \in Nat /\ Clock(cpu) >= current_ticks
    BY <1>1, AlarmCounts
  <1>3. /\ ticks_of_alarm' = ticks_of_alarm /\ asked' = asked
        /\ panicked' = panicked /\ waited' = waited
    BY DEF kernel_timer
  <1>4. current_ticks' >= current_ticks /\ current_ticks' \in Nat
    BY <1>2 DEF kernel_timer, AtMost
  <1>5. AlarmTypeOK'
    BY <1>1, <1>2 DEF kernel_timer, AtMost, AlarmTypeOK
  <1>6. NoReentry' /\ SavedFrame'
    BY <1>1 DEF kernel_timer, NoReentry, SavedFrame
  <1>7. CountReaches'
    BY <1>1, <1>2, <1>3, <1>4 DEF CountReaches
  <1>8. AlarmInTime'
    BY <1>1, <1>3 DEF AlarmInTime
  <1>. QED BY <1>5, <1>6, <1>7, <1>8 DEF AlarmInv

\* Every system call, interrupt, exec, exit and fork preserves it.
LEMMA AlarmInductive ==
  ASSUME AlarmInv, [AlarmNext]_vars_alarm
  PROVE  AlarmInv'
  <1> USE PointsAssumption, ValuesAssumption, IntervalsAssumption, NoFrameAssumption
      DEF AlarmInv, AlarmTypeOK, NoReentry, SavedFrame, CountReaches, AlarmInTime,
          Running, alarm, ghosts, since
  <1>1. CASE user_step
    BY <1>1 DEF user_step
  <1>2. ASSUME NEW interval \in Intervals, sys_sigalarm(interval)
        PROVE  AlarmInv'
    BY <1>2 DEF sys_sigalarm, Frames
  <1>3. CASE sys_sigreturn
    BY <1>3 DEF sys_sigreturn, Frames
  <1>4. CASE sys_sigreturn_none
    BY <1>4 DEF sys_sigreturn_none, Frames
  <1>5. ASSUME NEW cpu \in 0 .. 1, timer_count(cpu)
        PROVE  AlarmInv'
    <2> HIDE DEF AlarmInv
    <2>. QED BY <1>5, TimerCountKeeps
  <1>6. ASSUME NEW cpu \in 0 .. 1, timer_alarm(cpu)
        PROVE  AlarmInv'
    BY <1>6 DEF timer_alarm, Due, Counting, Frames
  <1>7. ASSUME NEW cpu \in 0 .. 1, timer_nomem(cpu)
        PROVE  AlarmInv'
    BY <1>7 DEF timer_nomem
  <1>8. ASSUME NEW cpu \in 0 .. 1, kernel_timer(cpu)
        PROVE  AlarmInv'
    <2> HIDE DEF AlarmInv
    <2>. QED BY <1>8, KernelTimerKeeps
  <1>9. CASE exec
    BY <1>9 DEF exec
  <1>10. CASE exit
    BY <1>10 DEF exit
  <1>11. CASE fork
    BY <1>11 DEF fork
  <1>12. CASE UNCHANGED vars_alarm
    BY <1>12 DEF vars_alarm
  <1>. QED
    BY <1>1, <1>2, <1>3, <1>4, <1>5, <1>6, <1>7, <1>8, <1>9, <1>10, <1>11, <1>12
    DEF AlarmNext, timer

\* Alarm handlers never nest, and a saved frame exists exactly while one runs.
THEOREM NoNestedHandlers == AlarmSpec => []NoReentry
  <1>1. AlarmInit => AlarmInv
    BY AlarmInitial
  <1>2. AlarmInv /\ [AlarmNext]_vars_alarm => AlarmInv'
    BY AlarmInductive
  <1>3. AlarmInv => NoReentry
    BY DEF AlarmInv
  <1>. QED BY <1>1, <1>2, <1>3, PTL DEF AlarmSpec

\* An alarm is never late, for any set of intervals.
THEOREM AlarmNeverLate == AlarmSpec => []AlarmInTime
  <1>1. AlarmInit => AlarmInv
    BY AlarmInitial
  <1>2. AlarmInv /\ [AlarmNext]_vars_alarm => AlarmInv'
    BY AlarmInductive
  <1>3. AlarmInv => AlarmInTime
    BY DEF AlarmInv
  <1>. QED BY <1>1, <1>2, <1>3, PTL DEF AlarmSpec

\* sigreturn() goes back to what the alarm interrupted, but for a0.
THEOREM SigreturnResumes == AlarmSpec => ResumesInterrupted
  <1>1. AlarmInit => AlarmInv
    BY AlarmInitial
  <1>2. AlarmInv /\ [AlarmNext]_vars_alarm => AlarmInv'
    BY AlarmInductive
  <1>3. AlarmInv /\ [AlarmNext]_vars_alarm =>
          [(slot = "RUNNING" /\ slot' = "RUNNING" /\ depth = 1 /\ depth' = 0) =>
              /\ trapframe'.epc = interrupted.epc
              /\ trapframe'.reg = interrupted.reg]_vars_alarm
    <2> SUFFICES ASSUME AlarmInv, [AlarmNext]_vars_alarm, slot = "RUNNING", slot' = "RUNNING",
                        depth = 1, depth' = 0
                 PROVE  /\ trapframe'.epc = interrupted.epc
                        /\ trapframe'.reg = interrupted.reg
      OBVIOUS
    <2>1. sys_sigreturn
      BY DEF AlarmNext, timer, user_step, sys_sigalarm, sys_sigreturn_none, timer_count,
             timer_alarm, timer_nomem, kernel_timer, exec, exit, fork, ghosts, since, vars_alarm
    <2>2. trapframe_alarm \in Frames
      BY <2>1 DEF sys_sigreturn, AlarmInv, AlarmTypeOK
    <2>. QED BY <2>1, <2>2 DEF sys_sigreturn, AlarmInv, SavedFrame, Frames
  <1>. QED BY <1>1, <1>2, <1>3, PTL DEF AlarmSpec, ResumesInterrupted

=============================================================================
