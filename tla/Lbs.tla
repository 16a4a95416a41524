-------------------------------- MODULE Lbs ---------------------------------
(***************************************************************************)
(* The lottery scheduler: the LBS branch of scheduler(), settickets() and  *)
(* rand() (kernel/proc.c), with what allocproc() and fork() do to the      *)
(* tickets, on several CPUs.  A lottery visits proc[] twice, one p->lock   *)
(* at a time, and keeps the lock of the process it favours; processes come *)
(* and go between any two visits.                                          *)
(***************************************************************************)
EXTENDS Sched

CONSTANTS
    Free,           \* owner of a lock nobody holds
    Tickets,        \* arguments of settickets(); negative ones are refused
    IntBits,        \* width of an int
    RandMax,        \* the largest value of rand()
    MaxTicks        \* bound on ticks

ASSUME FreeAssumption == Free \notin CPUs
ASSUME TicketsAssumption == Tickets \subseteq Int
ASSUME BoundsAssumption == IntBits \in Nat \ {0} /\ RandMax \in Nat /\ MaxTicks \in Nat

VARIABLES
    tickets, start_time_lbs, lock,      \* struct proc
    ticks,
    \* the local variables of each CPU's scheduler()
    idx, total_tickets, winner, current_tickets, chosen

pvars_lbs == <<state, tickets, start_time_lbs>>

svars == <<spc, idx, total_tickets, winner, current_tickets, chosen>>

vars_lbs == <<state, tickets, start_time_lbs, lock, ticks, cproc,
          spc, idx, total_tickets, winner, current_tickets, chosen>>

\* an int that wraps around
int(x) == ((x + 2 ^ (IntBits - 1)) % 2 ^ IntBits) - 2 ^ (IntBits - 1)

-----------------------------------------------------------------------------

(* scheduler() *)

\* the top of the for(;;) loop
Restart(c) ==
    /\ spc' = [spc EXCEPT ![c] = "sum"]
    /\ idx' = [idx EXCEPT ![c] = 0]
    /\ total_tickets' = [total_tickets EXCEPT ![c] = 0]
    /\ winner' = [winner EXCEPT ![c] = 0]
    /\ current_tickets' = [current_tickets EXCEPT ![c] = 0]
    /\ chosen' = [chosen EXCEPT ![c] = null]

\* total_tickets once the first loop has visited its current slot
Total(c) ==
    IF state[idx[c]] = "RUNNABLE"
    THEN int(total_tickets[c] + tickets[idx[c]]) ELSE total_tickets[c]

InLoop(c, s) == cproc[c] = null /\ spc[c] = s /\ lock[idx[c]] = Free

Last(c) == idx[c] = NPROC - 1

\* one visit of the first loop
sum(c) ==
    /\ InLoop(c, "sum")
    /\ ~Last(c)
    /\ total_tickets' = [total_tickets EXCEPT ![c] = Total(c)]
    /\ idx' = [idx EXCEPT ![c] = @ + 1]
    /\ UNCHANGED <<pvars_lbs, lock, ticks, cproc, spc, winner, current_tickets, chosen>>

\* Mutant: the draw includes total_tickets itself.
sum_draw_inclusive(c) ==
    /\ InLoop(c, "sum")
    /\ Last(c)
    /\ Total(c) > 0
    /\ total_tickets' = [total_tickets EXCEPT ![c] = Total(c)]
    /\ \E r \in 0 .. RandMax : winner' = [winner EXCEPT ![c] = r % (Total(c) + 1)]
    /\ spc' = [spc EXCEPT ![c] = "draw"]
    /\ idx' = [idx EXCEPT ![c] = 0]
    /\ UNCHANGED <<pvars_lbs, lock, ticks, cproc, current_tickets, chosen>>

\* the last one, and the draw
sum_draw(c) ==
    /\ InLoop(c, "sum")
    /\ Last(c)
    /\ Total(c) > 0
    /\ total_tickets' = [total_tickets EXCEPT ![c] = Total(c)]
    /\ \E r \in 0 .. RandMax : winner' = [winner EXCEPT ![c] = r % Total(c)]
    /\ spc' = [spc EXCEPT ![c] = "draw"]
    /\ idx' = [idx EXCEPT ![c] = 0]
    /\ UNCHANGED <<pvars_lbs, lock, ticks, cproc, current_tickets, chosen>>

\* the last one, with no tickets to draw from
sum_none(c) ==
    /\ InLoop(c, "sum")
    /\ Last(c)
    /\ Total(c) <= 0
    /\ Restart(c)
    /\ UNCHANGED <<pvars_lbs, lock, ticks, cproc>>

\* current_tickets once the second loop has visited its current slot
Current(c) ==
    IF state[idx[c]] = "RUNNABLE"
    THEN int(current_tickets[c] + tickets[idx[c]]) ELSE current_tickets[c]

\* the current slot becomes the chosen one
Favoured(c) ==
    /\ state[idx[c]] = "RUNNABLE"
    /\ Current(c) > winner[c]
    /\ \/ chosen[c] = null
       \/ /\ tickets[chosen[c]] = tickets[idx[c]]
          /\ start_time_lbs[idx[c]] < start_time_lbs[chosen[c]]

Choice(c) == IF Favoured(c) THEN idx[c] ELSE chosen[c]

\* Mutant: the former choice is not released.
Kept_both(c) == [lock EXCEPT ![idx[c]] = IF Favoured(c) THEN c ELSE Free]

\* Mutant: every visit releases the lock it took.
Kept_none(c) == lock

\* the locks after the visit: a choice is kept, the former one released
Kept(c) ==
    [p \in Procs |-> IF p = Choice(c) THEN c
                     ELSE IF p = chosen[c] THEN Free ELSE lock[p]]

\* one visit of the second loop
draw(c) ==
    /\ InLoop(c, "draw")
    /\ ~Last(c)
    /\ current_tickets' = [current_tickets EXCEPT ![c] = Current(c)]
    /\ chosen' = [chosen EXCEPT ![c] = Choice(c)]
    /\ lock' = Kept(c)
    /\ idx' = [idx EXCEPT ![c] = @ + 1]
    /\ UNCHANGED <<pvars_lbs, ticks, cproc, spc, total_tickets, winner>>

\* the last one, and the switch to the process, which releases its own lock
draw_switch(c) ==
    /\ InLoop(c, "draw")
    /\ Last(c)
    /\ Choice(c) # null
    /\ state' = [state EXCEPT ![Choice(c)] = "RUNNING"]
    /\ cproc' = [cproc EXCEPT ![c] = Choice(c)]
    /\ lock' = [Kept(c) EXCEPT ![Choice(c)] = Free]
    /\ Restart(c)
    /\ UNCHANGED <<tickets, start_time_lbs, ticks>>

\* the last one, with nobody left to choose
draw_none(c) ==
    /\ InLoop(c, "draw")
    /\ Last(c)
    /\ Choice(c) = null
    /\ Restart(c)
    /\ UNCHANGED <<pvars_lbs, lock, ticks, cproc>>

-----------------------------------------------------------------------------

(* The process on CPU c *)

\* yield(), sleep() and exit(), through sched()
leave(c, p, s) ==
    /\ lock[p] = Free
    /\ p = 0 => s # "ZOMBIE"
    /\ state' = [state EXCEPT ![p] = s]
    /\ cproc' = [cproc EXCEPT ![c] = null]
    /\ UNCHANGED <<tickets, start_time_lbs, lock, ticks, svars>>

settickets(p, number) ==
    /\ number >= 0
    /\ tickets' = [tickets EXCEPT ![p] = number]
    /\ UNCHANGED <<state, start_time_lbs, lock, ticks, cproc, svars>>

\* fork() in p: allocproc() stamps the arrival, the tickets are inherited
fork_lbs(p, t) ==
    /\ state[t] = "UNUSED"
    /\ lock[t] = Free
    /\ state' = [state EXCEPT ![t] = "RUNNABLE"]
    /\ tickets' = [tickets EXCEPT ![t] = tickets[p]]
    /\ start_time_lbs' = [start_time_lbs EXCEPT ![t] = ticks]
    /\ UNCHANGED <<lock, ticks, cproc, svars>>

\* wait(): freeproc()
wait_lbs(t) ==
    /\ state[t] = "ZOMBIE"
    /\ lock[t] = Free
    /\ state' = [state EXCEPT ![t] = "UNUSED"]
    /\ UNCHANGED <<tickets, start_time_lbs, lock, ticks, cproc, svars>>

wakeup_lbs(t) ==
    /\ state[t] = "SLEEPING"
    /\ lock[t] = Free
    /\ state' = [state EXCEPT ![t] = "RUNNABLE"]
    /\ UNCHANGED <<tickets, start_time_lbs, lock, ticks, cproc, svars>>

clockintr ==
    /\ ticks < MaxTicks
    /\ ticks' = ticks + 1
    /\ UNCHANGED <<pvars_lbs, lock, cproc, svars>>

-----------------------------------------------------------------------------

LbsInit ==
    /\ state = [p \in Procs |-> IF p = 0 THEN "RUNNABLE" ELSE "UNUSED"]
    /\ tickets = [p \in Procs |-> IF p = 0 THEN 1 ELSE 0]
    /\ start_time_lbs = [p \in Procs |-> 0]
    /\ lock = [p \in Procs |-> Free]
    /\ ticks = 0
    /\ cproc = [c \in CPUs |-> null]
    /\ spc = [c \in CPUs |-> "sum"]
    /\ idx = [c \in CPUs |-> 0]
    /\ total_tickets = [c \in CPUs |-> 0]
    /\ winner = [c \in CPUs |-> 0]
    /\ current_tickets = [c \in CPUs |-> 0]
    /\ chosen = [c \in CPUs |-> null]

scheduler_lbs(c) ==
    \/ sum(c) \/ sum_draw(c) \/ sum_none(c)
    \/ draw(c) \/ draw_switch(c) \/ draw_none(c)

LbsNext ==
    \/ \E c \in CPUs : scheduler_lbs(c)
    \/ \E c \in CPUs : \E p \in myproc(c) :
          \/ \E s \in {"RUNNABLE", "SLEEPING", "ZOMBIE"} : leave(c, p, s)
          \/ \E number \in Tickets : settickets(p, number)
          \/ \E t \in Procs : fork_lbs(p, t) \/ wait_lbs(t)
    \/ \E t \in Procs : wakeup_lbs(t)
    \/ clockintr

LbsSpec == LbsInit /\ [][LbsNext]_vars_lbs

\* Every CPU runs its scheduler.
LbsFairSpec == LbsSpec /\ \A c \in CPUs : WF_vars_lbs(scheduler_lbs(c))

-----------------------------------------------------------------------------

\* Through all its changes of mind a lottery holds the lock of the process it
\* favours and no other, so that swtch() is entered with noff = 1 and every
\* other process stays available to the other CPUs; and that process stays
\* RUNNABLE, and is behind the loop, until the switch.
HoldsChosen ==
    \A c \in CPUs :
        /\ {p \in Procs : lock[p] = c} = {chosen[c]} \ {null}
        /\ chosen[c] # null => state[chosen[c]] = "RUNNABLE" /\ chosen[c] < idx[c]

\* A process that holds tickets does not wait on idle CPUs for ever.
TicketsRun ==
    (\E p \in Procs : state[p] = "RUNNABLE" /\ tickets[p] > 0)
        ~> (\E c \in CPUs : cproc[c] # null)

\* "When processes have the same number of tickets, the one with earlier
\* arrival time wins": nobody loses a draw to a later arrival with equal tickets.
TieBreak ==
    \A c \in CPUs : chosen[c] # null => \A p \in Procs :
        (p < idx[c] /\ state[p] = "RUNNABLE" /\ tickets[p] = tickets[chosen[c]])
            => start_time_lbs[chosen[c]] <= start_time_lbs[p]

=============================================================================
