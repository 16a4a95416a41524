------------------------------- MODULE Alarm --------------------------------
(***************************************************************************)
(* sigalarm() and sigreturn() (kernel/sysproc.c) and the timer path of     *)
(* usertrap() that calls the handler (kernel/trap.c), for one slot of the  *)
(* process table.  The process runs now on CPU 0, whose clockintr() also   *)
(* counts its ticks, now on another CPU.                                   *)
(*                                                                         *)
(* A trap frame is abstracted to the user pc, the register a0 that carries *)
(* a system call's result, and one register that stands for all others.    *)
(* Every sigalarm() of the program names the same handler.                 *)
(***************************************************************************)
EXTENDS Naturals

CONSTANTS
    Points,         \* program points outside the handler
    handler,        \* the handler's entry point
    Values,         \* register contents; 0 is what sys_sigalarm returns
    Intervals,      \* arguments of sigalarm()
    MaxTicks,       \* bound on current_ticks, waited and passed
    NoFrame         \* the null pointer

ASSUME PointsAssumption == handler \notin Points /\ Points # {}
ASSUME ValuesAssumption == 0 \in Values /\ Values \subseteq Nat
ASSUME IntervalsAssumption ==
    MaxTicks \in Nat /\ Intervals \subseteq 0 .. MaxTicks   \* so the bound hides no alarm
ASSUME NoFrameAssumption ==
    NoFrame \notin [epc : Points \cup {handler}, a0 : Values, reg : Values]

Frames == [epc : Points \cup {handler}, a0 : Values, reg : Values]

VARIABLES
    slot,               \* its state: "UNUSED", or "RUNNING" from fork to exit
    trapframe,          \* the user registers
    trapframe_alarm,    \* the page that saves them, or NoFrame
    alarm_status, ticks_of_alarm, current_ticks,
    panicked,
    depth,              \* alarms whose handler has not called sigreturn()
    interrupted,        \* the registers the last of them interrupted
    asked,              \* the argument of the last sigalarm(), 0 before the first
    waited,             \* timer interrupts in user mode since sigalarm() or the last
                        \* alarm, outside the handler
    passed              \* all timer interrupts since then

alarm == <<trapframe_alarm, alarm_status, ticks_of_alarm, current_ticks>>

\* what the properties speak of and the code does not keep
since == <<asked, waited, passed>>
ghosts == <<depth, interrupted, asked, waited, passed>>

vars_alarm == <<slot, trapframe, trapframe_alarm, alarm_status, ticks_of_alarm,
                current_ticks, panicked, depth, interrupted, asked, waited, passed>>

Running == slot = "RUNNING" /\ panicked = 0

-----------------------------------------------------------------------------

\* The program computes, inside its handler or outside.
user_step ==
    /\ Running
    /\ trapframe' \in Frames
    /\ UNCHANGED <<slot, alarm, ghosts, panicked>>

\* sys_sigalarm(), whose result syscall() stores in a0
sys_sigalarm(interval) ==
    /\ Running
    /\ ticks_of_alarm' = IF interval = 1 THEN 0 ELSE interval
    /\ trapframe' = [trapframe EXCEPT !.a0 = 0]
    /\ asked' = interval /\ waited' = 0 /\ passed' = 0
    /\ UNCHANGED <<slot, trapframe_alarm, alarm_status, current_ticks, depth, interrupted, panicked>>

\* sys_sigreturn() with a saved frame; syscall() then stores its result in a0
sys_sigreturn ==
    /\ Running
    /\ trapframe_alarm # NoFrame
    /\ trapframe' = [trapframe_alarm EXCEPT !.a0 = 0]
    /\ trapframe_alarm' = NoFrame
    /\ alarm_status' = 0
    /\ depth' = depth - 1
    /\ interrupted' = NoFrame
    /\ UNCHANGED <<slot, ticks_of_alarm, current_ticks, since, panicked>>

\* sys_sigreturn() without one
sys_sigreturn_none ==
    /\ Running
    /\ trapframe_alarm = NoFrame
    /\ trapframe' = [trapframe EXCEPT !.a0 = 0]
    /\ UNCHANGED <<slot, alarm, ghosts, panicked>>

\* current_ticks after clockintr(), which only CPU 0 runs
Clock(cpu) == current_ticks + (IF cpu = 0 THEN 1 ELSE 0)

\* Mutant: a running handler is no reason not to count.
Counting_always == ticks_of_alarm > 0

\* usertrap() counts a tick, and the count has reached the interval
Counting == ticks_of_alarm > 0 /\ alarm_status = 0

\* Mutant: == for >=.
Due_exact(cpu) == Counting /\ Clock(cpu) + 1 = ticks_of_alarm

Due(cpu) == Counting /\ Clock(cpu) + 1 >= ticks_of_alarm

AtMost(k) == IF k > MaxTicks THEN MaxTicks ELSE k

\* A timer interrupt in user mode that does not call the handler
timer_count(cpu) ==
    /\ Running
    /\ ~Due(cpu)
    /\ current_ticks' = AtMost(Clock(cpu) + (IF Counting THEN 1 ELSE 0))
    /\ waited' = IF asked > 0 /\ depth = 0 THEN AtMost(waited + 1) ELSE waited
    /\ passed' = AtMost(passed + 1)
    /\ UNCHANGED <<slot, trapframe, trapframe_alarm, alarm_status, ticks_of_alarm,
                   depth, interrupted, asked, panicked>>

\* Mutant: the frame is saved after it has been redirected.
timer_alarm_late(cpu) ==
    /\ Running
    /\ Due(cpu)
    /\ current_ticks' = 0
    /\ trapframe' = [trapframe EXCEPT !.epc = handler]
    /\ trapframe_alarm' = trapframe'
    /\ alarm_status' = 1
    /\ depth' = depth + 1
    /\ interrupted' = trapframe
    /\ waited' = 0 /\ passed' = 0
    /\ UNCHANGED <<slot, ticks_of_alarm, asked, panicked>>

\* A timer interrupt in user mode that does
timer_alarm(cpu) ==
    /\ Running
    /\ Due(cpu)
    /\ current_ticks' = 0
    /\ trapframe_alarm' = trapframe
    /\ trapframe' = [trapframe EXCEPT !.epc = handler]
    /\ alarm_status' = 1
    /\ depth' = depth + 1
    /\ interrupted' = trapframe
    /\ waited' = 0 /\ passed' = 0
    /\ UNCHANGED <<slot, ticks_of_alarm, asked, panicked>>

\* The same when kalloc() returns 0: the memmove() faults in the kernel
timer_nomem(cpu) ==
    /\ Running
    /\ Due(cpu)
    /\ current_ticks' = 0
    /\ panicked' = 1
    /\ UNCHANGED <<slot, trapframe, trapframe_alarm, alarm_status, ticks_of_alarm, ghosts>>

\* A timer interrupt in kernel mode: only clockintr() counts
kernel_timer(cpu) ==
    /\ Running
    /\ current_ticks' = AtMost(Clock(cpu))
    /\ passed' = AtMost(passed + 1)
    /\ UNCHANGED <<slot, trapframe, trapframe_alarm, alarm_status, ticks_of_alarm,
                   depth, interrupted, asked, waited, panicked>>

\* exec() loads another program and leaves the alarm as it is.
exec ==
    /\ Running
    /\ trapframe' \in Frames
    /\ trapframe'.epc # handler
    /\ UNCHANGED <<slot, alarm, ghosts, panicked>>

\* exit(), and freeproc() by the parent, which leaves the alarm as it is
exit ==
    /\ Running
    /\ slot' = "UNUSED"
    /\ UNCHANGED <<trapframe, alarm, ghosts, panicked>>

\* allocproc() and fork() for the next process of this slot
fork ==
    /\ slot = "UNUSED"
    /\ slot' = "RUNNING"
    /\ trapframe' \in Frames
    /\ trapframe'.a0 = 0
    /\ trapframe_alarm' = NoFrame
    /\ alarm_status' = 0
    /\ ticks_of_alarm' = 0
    /\ current_ticks' = 0
    /\ depth' = 0
    /\ interrupted' = NoFrame
    /\ asked' = 0 /\ waited' = 0 /\ passed' = 0
    /\ UNCHANGED panicked

AlarmInit ==
    /\ slot = "UNUSED"
    /\ trapframe \in [epc : Points, a0 : {0}, reg : {0}]
    /\ trapframe_alarm = NoFrame
    /\ alarm_status = 0
    /\ ticks_of_alarm = 0
    /\ current_ticks = 0
    /\ panicked = 0
    /\ depth = 0
    /\ interrupted = NoFrame
    /\ asked = 0 /\ waited = 0 /\ passed = 0

timer(cpu) == timer_count(cpu) \/ timer_alarm(cpu) \/ timer_nomem(cpu) \/ kernel_timer(cpu)

AlarmNext ==
    \/ user_step
    \/ \E interval \in Intervals : sys_sigalarm(interval)
    \/ sys_sigreturn
    \/ sys_sigreturn_none
    \/ \E cpu \in 0 .. 1 : timer(cpu)
    \/ exec
    \/ exit
    \/ fork

AlarmSpec == AlarmInit /\ [][AlarmNext]_vars_alarm

-----------------------------------------------------------------------------

\* The variables keep the types of their declarations.
AlarmTypeOK ==
    /\ slot \in {"UNUSED", "RUNNING"}
    /\ trapframe \in Frames
    /\ trapframe_alarm \in Frames \cup {NoFrame}
    /\ alarm_status \in {0, 1}
    /\ ticks_of_alarm \in Intervals \cup {0}
    /\ current_ticks \in 0 .. MaxTicks
    /\ panicked \in {0, 1}
    /\ depth \in Nat
    /\ interrupted \in Frames \cup {NoFrame}
    /\ asked \in Intervals \cup {0}
    /\ waited \in 0 .. MaxTicks
    /\ passed \in 0 .. MaxTicks

\* The kernel never calls the handler of a program whose handler has not
\* returned (alarmtest's test2: "kernel does not allow reentrant alarm calls"),
\* and a saved frame exists for exactly as long: sigreturn() neither resumes a
\* frame twice nor frees a page twice, whatever fork, exec and exit do between.
NoReentry ==
    slot = "RUNNING" =>
        /\ depth \in {0, 1}
        /\ alarm_status = depth
        /\ trapframe_alarm # NoFrame <=> depth = 1

\* sigreturn() goes back to the interrupted instruction with every register but
\* a0 as the interrupt found it (alarmtest's test1).
ResumesInterrupted ==
    [][(slot = "RUNNING" /\ slot' = "RUNNING" /\ depth = 1 /\ depth' = 0) =>
          /\ trapframe'.epc = interrupted.epc
          /\ trapframe'.reg = interrupted.reg]_vars_alarm

\* sigreturn() restores all registers ("tests that the return from
\* sys_sigreturn() does not modify the a0 register", alarmtest's test3).
RestoresA0 ==
    [][(slot = "RUNNING" /\ slot' = "RUNNING" /\ depth = 1 /\ depth' = 0) =>
          trapframe'.a0 = interrupted.a0]_vars_alarm

\* An alarm is never late: outside its handler, a program that asked for an
\* interval of n > 1 takes fewer than n timer interrupts in user mode between
\* sigalarm() and the handler, or between two calls of the handler.  This holds
\* though clockintr() counts the same interrupts a second time on CPU 0 and those
\* in kernel mode too, a handler may set another interval, and sigalarm() leaves
\* the count where it is: the count may go past the interval without ever
\* being equal to it (trap.c:75-85, 228-231, sysproc.c:243-247).
AlarmInTime == asked > 1 => waited < asked

\* "Sets up a timer that triggers after the specified interval" (src/README.md:24)
\* for every interval.  It does not hold of 1, which sys_sigalarm() turns into 0,
\* no alarm (sysproc.c:245-247).
AlarmInTimeAll == asked > 0 => waited < asked

\* The same sentence, the other way round: the handler is not called before the
\* interval has passed.  It does not hold: clockintr() and usertrap() both count
\* an interrupt on CPU 0, and sigalarm() does not restart the count
\* (trap.c:75-76, 228-231, sysproc.c:243-247).
AlarmNotEarly == [][(slot = "RUNNING" /\ depth' > depth) => passed + 1 >= asked]_vars_alarm

=============================================================================
