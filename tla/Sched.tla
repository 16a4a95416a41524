-------------------------------- MODULE Sched -------------------------------
(***************************************************************************)
(* What the LBS and the MLFQ branch of scheduler() (kernel/proc.c) share:  *)
(* the slots of proc[], the process each CPU runs, and where its loop is.  *)
(***************************************************************************)
EXTENDS Integers

CONSTANTS NPROC, CPUs

ASSUME NPROCAssumption == NPROC \in Nat \ {0}

Procs == 0 .. NPROC - 1

null == NPROC

VARIABLES
    state,      \* p->state
    cproc,      \* c->proc
    spc         \* where the scheduler() of each CPU stands

\* the process on CPU c
myproc(c) == Procs \cap {cproc[c]}

\* A process is RUNNING exactly on the one CPU that has switched to it.
OneCpu ==
    /\ \A c, d \in CPUs : c # d /\ cproc[c] # null => cproc[c] # cproc[d]
    /\ \A p \in Procs : state[p] = "RUNNING" <=> \E c \in CPUs : cproc[c] = p

=============================================================================
