------------------------------ MODULE AtomicFs ------------------------------
(***************************************************************************)
(* What the log of kernel/log.c promises to the file system: the blocks    *)
(* change on disk only as a whole, and only at moments when no system call *)
(* is between its begin_op() and its end_op().  A crash takes the system   *)
(* back to the last such moment.                                           *)
(***************************************************************************)
CONSTANTS Threads, Blocks, Data

VARIABLES
    durable,    \* the blocks a reboot would find
    mem,        \* the blocks the running system sees
    active      \* threads inside an operation

vars == <<durable, mem, active>>

Begin(t) ==
    /\ t \notin active
    /\ active' = active \cup {t}
    /\ UNCHANGED <<durable, mem>>

Write(t, b, v) ==
    /\ t \in active
    /\ mem' = [mem EXCEPT ![b] = v]
    /\ UNCHANGED <<durable, active>>

End(t) ==
    /\ t \in active
    /\ active' = active \ {t}
    /\ UNCHANGED <<durable, mem>>

Commit ==
    /\ active = {}
    /\ durable' = mem
    /\ UNCHANGED <<mem, active>>

Crash ==
    /\ mem' = durable
    /\ active' = {}
    /\ UNCHANGED durable

Init ==
    /\ durable \in [Blocks -> Data]
    /\ mem = durable
    /\ active = {}

Next ==
    \/ \E t \in Threads : Begin(t) \/ End(t)
    \/ \E t \in Threads, b \in Blocks, v \in Data : Write(t, b, v)
    \/ Commit
    \/ Crash

Spec == Init /\ [][Next]_vars

=============================================================================
