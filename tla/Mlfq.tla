-------------------------------- MODULE Mlfq --------------------------------
(***************************************************************************)
(* The MLFQ scheduler: the MLFQ branch of scheduler() and pop()            *)
(* (kernel/proc.c), the demotion in usertrap() (kernel/trap.c) and what    *)
(* allocproc(), freeproc(), update_time() and yield() do to its fields.    *)
(*                                                                         *)
(* queue[q] is queue[q].mlfq_queue[0 .. tail-1]; tail and length always    *)
(* agree.  The queues have no lock.  A step is what the one CPU that the   *)
(* Makefile gives MLFQ does between two points where an interrupt that     *)
(* wakes a process matters: the loop over proc[] is one step, since it     *)
(* looks at every p->state once, and so is each pop(), the test after it   *)
(* and the switch.  More CPUs would interleave inside these steps too, so  *)
(* what is found there is real, and what is shown is for one CPU.          *)
(*                                                                         *)
(* The boost loop of usertrap() acts on wait_ticks >= 48.  Nothing ever    *)
(* increments wait_ticks (update_time() does so in the else branch of the  *)
(* same test), so the loop changes nothing and wait_ticks is left out.     *)
(***************************************************************************)
EXTENDS Sched, Sequences, FiniteSets

CONSTANTS
    Cpu0,           \* the hart that runs clockintr()
    queue_size,     \* number of queues
    Slice,          \* queue[q].priority_queue_ticks
    MaxProc         \* bound on the slots in use

ASSUME CPUAssumption == Cpu0 \in CPUs
ASSUME QueueAssumption ==
    /\ queue_size \in Nat \ {0}
    /\ Slice \in [0 .. queue_size - 1 -> Nat \ {0}]
ASSUME MaxProcAssumption == MaxProc \in 1 .. NPROC

Queues == 0 .. queue_size - 1

MaxSlice == Slice[queue_size - 1]

VARIABLES
    priority_queue_number, start_time, status_queue,    \* struct proc
    queue,
    cur,        \* the current_process_track of each CPU's scheduler()
    overflow    \* an entry was stored beyond mlfq_queue[NPROC-1]

pvars == <<state, priority_queue_number, start_time, status_queue>>

vars == <<state, priority_queue_number, start_time, status_queue, queue, cproc, spc, cur,
          overflow>>

\* no queue has more than k entries
AtMost(q, k) == \A r \in Queues : Len(q[r]) <= k

-----------------------------------------------------------------------------

(* scheduler() *)

\* A store beyond the array changes memory the model does not have: it ends there.
InScheduler(c) == ~overflow /\ cproc[c] = null

\* RUNNABLE processes that the loop over proc[] adds to queue q
Arrivals(q) ==
    {p \in Procs : state[p] = "RUNNABLE" /\ status_queue[p] = 0 /\ priority_queue_number[p] = q}

\* the kth slot of S in the order of proc[], and all of them
Slot(S, k) == CHOOSE p \in S : Cardinality({r \in S : r < p}) = k - 1

InOrder(S) == [k \in 1 .. Cardinality(S) |-> Slot(S, k)]

\* the loop over proc[], which goes through the slots in order
enqueue(c) ==
    /\ InScheduler(c)
    /\ spc[c] = "enqueue"
    /\ queue' = [q \in Queues |-> queue[q] \o InOrder(Arrivals(q))]
    /\ status_queue' = [p \in Procs |-> IF state[p] = "RUNNABLE" THEN 1 ELSE status_queue[p]]
    /\ overflow' = ~AtMost(queue', NPROC)
    /\ spc' = [spc EXCEPT ![c] = "pick"]
    /\ UNCHANGED <<state, priority_queue_number, start_time, cproc, cur>>

\* Mutant: the loop stops before the last queue.
IsFirst_short(q) ==
    q < queue_size - 1 /\ queue[q] # <<>> /\ \A r \in Queues : r < q => queue[r] = <<>>

\* the first queue that is not empty: the loop over the queues stops there
IsFirst(q) == queue[q] # <<>> /\ \A r \in Queues : r < q => queue[r] = <<>>

\* pop() of the entry at the head of queue q
Popped(q) == [queue EXCEPT ![q] = Tail(@)]

\* One turn of the loop that pops the queue, when the process p that it pops is
\* RUNNABLE: p goes back to the front of the queue of its priority, which is q
\* unless the slot has changed hands.  The loop that makes room moves one entry
\* more than there are.
pick(c) ==
    /\ InScheduler(c)
    /\ spc[c] = "pick"
    /\ \E q \in Queues :
          /\ IsFirst(q)
          /\ LET p   == Head(queue[q])
                 pri == priority_queue_number[p]
             IN  /\ state[p] = "RUNNABLE"
                 /\ queue' = [Popped(q) EXCEPT ![pri] = <<p>> \o @]
                 /\ status_queue' = [status_queue EXCEPT ![p] = 1]
                 /\ cur' = [cur EXCEPT ![c] = p]
    /\ overflow' = (Len(queue'[priority_queue_number[cur'[c]]]) >= NPROC)
    /\ spc' = [spc EXCEPT ![c] = "check"]
    /\ UNCHANGED <<state, priority_queue_number, start_time, cproc>>

\* Mutant: pop() leaves status_queue set.
pick_skip_marked(c) ==
    /\ InScheduler(c)
    /\ spc[c] = "pick"
    /\ \E q \in Queues :
          /\ IsFirst(q)
          /\ state[Head(queue[q])] # "RUNNABLE"
          /\ queue' = Popped(q)
          /\ cur' = [cur EXCEPT ![c] = Head(queue[q])]
          /\ spc' = [spc EXCEPT ![c] = IF queue'[q] = <<>> THEN "check" ELSE "pick"]
    /\ UNCHANGED <<pvars, cproc, overflow>>

\* The same when it is not: the process is dropped.  After the last one of the queue
\* no other queue is looked at, since current_process_track is not 0.
pick_skip(c) ==
    /\ InScheduler(c)
    /\ spc[c] = "pick"
    /\ \E q \in Queues :
          /\ IsFirst(q)
          /\ LET p == Head(queue[q])
             IN  /\ state[p] # "RUNNABLE"
                 /\ queue' = Popped(q)
                 /\ status_queue' = [status_queue EXCEPT ![p] = 0]
                 /\ cur' = [cur EXCEPT ![c] = p]
          /\ spc' = [spc EXCEPT ![c] = IF queue'[q] = <<>> THEN "check" ELSE "pick"]
    /\ UNCHANGED <<state, priority_queue_number, start_time, cproc, overflow>>

\* every queue is empty
pick_empty(c) ==
    /\ InScheduler(c)
    /\ spc[c] = "pick"
    /\ \A q \in Queues : queue[q] = <<>>
    /\ spc' = [spc EXCEPT ![c] = IF cur[c] = null THEN "enqueue" ELSE "check"]
    /\ UNCHANGED <<pvars, queue, cproc, cur, overflow>>

\* Mutant: no second test.
check_none(c) ==
    /\ InScheduler(c)
    /\ spc[c] = "check"
    /\ spc' = [spc EXCEPT ![c] = "switch"]
    /\ UNCHANGED <<pvars, queue, cproc, cur, overflow>>

\* the RUNNABLE test before acquire(&current_process_track->lock)
check(c) ==
    /\ InScheduler(c)
    /\ spc[c] = "check"
    /\ \/ /\ state[cur[c]] = "RUNNABLE"
          /\ spc' = [spc EXCEPT ![c] = "switch"]
          /\ UNCHANGED cur
       \/ /\ state[cur[c]] # "RUNNABLE"
          /\ spc' = [spc EXCEPT ![c] = "enqueue"]
          /\ cur' = [cur EXCEPT ![c] = null]
    /\ UNCHANGED <<pvars, queue, cproc, overflow>>

\* with the lock, and no further test
switch(c) ==
    /\ InScheduler(c)
    /\ spc[c] = "switch"
    /\ state' = [state EXCEPT ![cur[c]] = "RUNNING"]
    /\ cproc' = [cproc EXCEPT ![c] = cur[c]]
    /\ spc' = [spc EXCEPT ![c] = "enqueue"]
    /\ cur' = [cur EXCEPT ![c] = null]
    /\ UNCHANGED <<priority_queue_number, start_time, status_queue, queue, overflow>>

-----------------------------------------------------------------------------

(* The process on CPU c *)

Running(c, p) == ~overflow /\ cproc[c] = p

\* sched(), back into the loop of scheduler()
Leave(c, p, s) ==
    /\ state' = [state EXCEPT ![p] = s]
    /\ cproc' = [cproc EXCEPT ![c] = null]
    /\ UNCHANGED <<spc, cur, overflow>>

\* start_time after update_time(), which clockintr() calls on CPU 0 for all that
\* is RUNNING, here when CPU 0 runs a process; counted up to the longest slice,
\* since it is only compared with slices
Ticked(c) ==
    [p \in Procs |-> IF c = Cpu0 /\ state[p] = "RUNNING" /\ start_time[p] < MaxSlice
                     THEN start_time[p] + 1 ELSE start_time[p]]

SliceOver(c, p) == Ticked(c)[p] >= Slice[priority_queue_number[p]]

\* usertrap() on a timer interrupt, before the end of the slice
user_timer(c, p) ==
    /\ Running(c, p)
    /\ ~SliceOver(c, p)
    /\ start_time' = Ticked(c)
    /\ Leave(c, p, "RUNNABLE")
    /\ UNCHANGED <<priority_queue_number, status_queue, queue>>

\* the queue below q
Demoted(q) == IF q < queue_size - 1 THEN q + 1 ELSE q

\* at the end of it: pop() takes the head off p's queue, and p goes one down
user_timer_demote(c, p) ==
    LET pri == priority_queue_number[p] IN
    /\ Running(c, p)
    /\ SliceOver(c, p)
    /\ start_time' = [Ticked(c) EXCEPT ![p] = 0]
    /\ \/ /\ queue[pri] # <<>>
          /\ queue' = [queue EXCEPT ![pri] = Tail(@)]
          /\ status_queue' = [status_queue EXCEPT ![Head(queue[pri])] = 0, ![p] = 0]
       \/ /\ queue[pri] = <<>>
          /\ UNCHANGED <<queue, status_queue>>
    /\ priority_queue_number' = [priority_queue_number EXCEPT ![p] = Demoted(@)]
    /\ Leave(c, p, "RUNNABLE")

\* kerneltrap() on a timer interrupt
kernel_timer(c, p) ==
    /\ Running(c, p)
    /\ start_time' = Ticked(c)
    /\ Leave(c, p, "RUNNABLE")
    /\ UNCHANGED <<priority_queue_number, status_queue, queue>>

sleep(c, p) ==
    /\ Running(c, p)
    /\ Leave(c, p, "SLEEPING")
    /\ UNCHANGED <<priority_queue_number, start_time, status_queue, queue>>

\* the first process never exits
exit(c, p) ==
    /\ Running(c, p)
    /\ p # 0
    /\ Leave(c, p, "ZOMBIE")
    /\ UNCHANGED <<priority_queue_number, start_time, status_queue, queue>>

\* fork(): allocproc() takes the first UNUSED slot and resets its MLFQ fields
\* but start_time
fork(c, p, t) ==
    /\ Running(c, p)
    /\ state[t] = "UNUSED"
    /\ \A s \in 0 .. t - 1 : state[s] # "UNUSED"
    /\ t < MaxProc
    /\ state' = [state EXCEPT ![t] = "RUNNABLE"]
    /\ status_queue' = [status_queue EXCEPT ![t] = 0]
    /\ priority_queue_number' = [priority_queue_number EXCEPT ![t] = 0]
    /\ UNCHANGED <<start_time, queue, cproc, spc, cur, overflow>>

\* wait(): freeproc(), while entries of the slot may still be queued
wait(c, p, t) ==
    /\ Running(c, p)
    /\ state[t] = "ZOMBIE"
    /\ state' = [state EXCEPT ![t] = "UNUSED"]
    /\ status_queue' = [status_queue EXCEPT ![t] = 0]
    /\ UNCHANGED <<priority_queue_number, start_time, queue, cproc, spc, cur, overflow>>

\* wakeup() or kill(), by a process or by an interrupt handler
wakeup(t) ==
    /\ ~overflow
    /\ state[t] = "SLEEPING"
    /\ state' = [state EXCEPT ![t] = "RUNNABLE"]
    /\ UNCHANGED <<priority_queue_number, start_time, status_queue, queue, cproc, spc, cur, overflow>>

-----------------------------------------------------------------------------

\* userinit()
Init ==
    /\ state = [p \in Procs |-> IF p = 0 THEN "RUNNABLE" ELSE "UNUSED"]
    /\ priority_queue_number = [p \in Procs |-> 0]
    /\ start_time = [p \in Procs |-> 0]
    /\ status_queue = [p \in Procs |-> 0]
    /\ queue = [q \in Queues |-> <<>>]
    /\ cproc = [c \in CPUs |-> null]
    /\ spc = [c \in CPUs |-> "enqueue"]
    /\ cur = [c \in CPUs |-> null]
    /\ overflow = FALSE

scheduler(c) ==
    \/ enqueue(c) \/ pick(c) \/ pick_skip(c) \/ pick_empty(c) \/ check(c) \/ switch(c)

timer(c, p) == user_timer(c, p) \/ user_timer_demote(c, p)

Next ==
    \/ \E c \in CPUs : scheduler(c)
    \/ \E c \in CPUs : \E p \in myproc(c) :
          \/ timer(c, p) \/ kernel_timer(c, p) \/ sleep(c, p) \/ exit(c, p)
          \/ \E t \in Procs : fork(c, p, t) \/ wait(c, p, t)
    \/ \E t \in Procs : wakeup(t)

Spec == Init /\ [][Next]_vars

\* Every CPU runs its scheduler.
FairSpec == Spec /\ \A c \in CPUs : WF_vars(scheduler(c))

\* And a process that runs again and again does not do so only inside the
\* kernel: it is interrupted by the timer in user mode, or it sleeps.
StrongFairSpec ==
    FairSpec /\ \A p \in Procs : SF_vars(\E c \in CPUs : timer(c, p) \/ sleep(c, p))

-----------------------------------------------------------------------------

Queued(p) == \E q \in Queues : \E k \in 1 .. Len(queue[q]) : queue[q][k] = p

\* A process is RUNNING exactly on the one CPU that has switched to it, and the
\* unlocked test of p->state is still true when the switch is made.
TestedOneCpu ==
    /\ OneCpu
    /\ \A c \in CPUs : spc[c] = "switch" => state[cur[c]] = "RUNNABLE"

\* status_queue never hides a process from the scheduler: one that is marked as
\* queued really is in a queue, so it will be found or marked again.
NotForgotten ==
    \A p \in Procs : state[p] = "RUNNABLE" /\ status_queue[p] = 1 => Queued(p)

\* The queues stay within mlfq_queue[NPROC]: mlfq_push(), whose code scheduler()
\* repeats with another limit, panics when "tail >= NPROC".
QueueFits == ~overflow

\* As long as some process is RUNNABLE the CPUs do not idle for ever.
WorkConserving ==
    (\E p \in Procs : state[p] = "RUNNABLE") ~> (overflow \/ \E c \in CPUs : cproc[c] # null)

\* "Priority boosting ... to prevent starvation": who is RUNNABLE gets to run.
NoStarvation ==
    \A p \in Procs : state[p] = "RUNNABLE" ~> (overflow \/ state[p] # "RUNNABLE")

=============================================================================
