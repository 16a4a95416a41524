----------------------------- MODULE SchedProofs ----------------------------
(***************************************************************************)
(* Proofs about the two schedulers that may replace xv6's own, for any     *)
(* number of slots.  Under the lottery (Lbs), on any number of CPUs, a CPU *)
(* holds the lock of the process it favours and no other, and no process   *)
(* is run by two CPUs.  Under the multi-level feedback queues (Mlfq), with *)
(* any number of queues and on one CPU, a process marked as queued is in a *)
(* queue, and the unlocked test of p->state does no harm.                  *)
(***************************************************************************)
EXTENDS Lbs, Mlfq, FiniteSetTheorems, FunctionTheorems, TLAPS

States == {"UNUSED", "SLEEPING", "RUNNABLE", "RUNNING", "ZOMBIE"}

TypeInv ==
    /\ state \in [Procs -> States]
    /\ lock \in [Procs -> CPUs \cup {Free}]
    /\ cproc \in [CPUs -> Procs \cup {null}]
    /\ spc \in [CPUs -> {"sum", "draw"}]
    /\ idx \in [CPUs -> Procs]
    /\ chosen \in [CPUs -> Procs \cup {null}]

\* A lock is held exactly by the lottery that favours its process.
LockInv == \A c \in CPUs, p \in Procs : lock[p] = c <=> chosen[c] = p

\* A favoured process stays RUNNABLE, and is behind the loop.
ChosenInv ==
    \A c \in CPUs : chosen[c] # null => state[chosen[c]] = "RUNNABLE" /\ chosen[c] < idx[c]

\* Nobody is favoured before the draw.
SumInv == \A c \in CPUs : spc[c] = "sum" => chosen[c] = null

IInv == TypeInv /\ LockInv /\ ChosenInv /\ SumInv /\ OneCpu

\* The null pointer is no slot of proc[], and proc[] has a first one.
LEMMA NullNoProc == null \notin Procs /\ 0 \in Procs
  BY NPROCAssumption DEF null, Procs

\* The lotteries start with no lock held and nobody running.
LEMMA Initial == LbsInit => IInv
  <1> SUFFICES ASSUME LbsInit PROVE IInv
    OBVIOUS
  <1>1. 0 \in Procs
    BY NPROCAssumption DEF Procs
  <1>2. TypeInv
    BY <1>1 DEF LbsInit, TypeInv, States
  <1>3. LockInv
    BY FreeAssumption, NullNoProc DEF LbsInit, LockInv
  <1>4. ChosenInv
    BY DEF LbsInit, ChosenInv
  <1>6. SumInv
    BY DEF LbsInit, SumInv
  <1>5. OneCpu
    BY NullNoProc DEF LbsInit, OneCpu
  <1>. QED BY <1>2, <1>3, <1>4, <1>5, <1>6 DEF IInv

\* What a visit of the second loop chooses is RUNNABLE, unlocked or its own, and no
\* other lottery's.
LEMMA ChoiceFacts ==
  ASSUME IInv, NEW c \in CPUs, InLoop(c, "draw")
  PROVE  /\ Choice(c) \in Procs \cup {null}
         /\ Choice(c) # null => /\ state[Choice(c)] = "RUNNABLE"
                                /\ Choice(c) <= idx[c]
                                /\ \A d \in CPUs \ {c} : chosen[d] # Choice(c)
  <1> USE DEF IInv, TypeInv
  <1>1. CASE Favoured(c)
    <2>1. Choice(c) = idx[c] /\ state[idx[c]] = "RUNNABLE" /\ lock[idx[c]] = Free
      BY <1>1 DEF Choice, Favoured, InLoop
    <2>2. idx[c] \in Procs
      OBVIOUS
    <2>3. \A d \in CPUs : chosen[d] # idx[c]
      BY <2>1, <2>2, FreeAssumption DEF LockInv
    <2>4. idx[c] <= idx[c]
      BY <2>2 DEF Procs
    <2>. QED BY <2>1, <2>2, <2>3, <2>4
  <1>2. CASE ~Favoured(c)
    <2>1. Choice(c) = chosen[c]
      BY <1>2 DEF Choice
    <2>2. ASSUME chosen[c] # null
          PROVE  /\ state[chosen[c]] = "RUNNABLE"
                 /\ chosen[c] <= idx[c]
                 /\ \A d \in CPUs \ {c} : chosen[d] # chosen[c]
      <3>1. chosen[c] \in Procs /\ idx[c] \in Procs /\ chosen[c] < idx[c]
        BY <2>2 DEF ChosenInv
      <3>2. state[chosen[c]] = "RUNNABLE"
        BY <2>2 DEF ChosenInv
      <3>3. lock[chosen[c]] = c
        BY <3>1 DEF LockInv
      <3>4. \A d \in CPUs \ {c} : chosen[d] # chosen[c]
        BY <3>1, <3>3 DEF LockInv
      <3>5. chosen[c] <= idx[c]
        BY <3>1 DEF Procs
      <3>. QED BY <3>2, <3>4, <3>5
    <2>. QED BY <2>1, <2>2
  <1>. QED BY <1>1, <1>2

\* After a visit the lottery holds the lock of its choice only.
LEMMA KeptLocks ==
  ASSUME IInv, NEW c \in CPUs, InLoop(c, "draw")
  PROVE  /\ Kept(c) \in [Procs -> CPUs \cup {Free}]
         /\ \A p \in Procs : Kept(c)[p] = c <=> Choice(c) = p
         /\ \A d \in CPUs \ {c}, p \in Procs : Kept(c)[p] = d <=> chosen[d] = p
  <1> USE DEF IInv, TypeInv
  <1>1. \A p \in Procs : Kept(c)[p] = IF p = Choice(c) THEN c
                                      ELSE IF p = chosen[c] THEN Free ELSE lock[p]
    BY Zenon DEF Kept
  <1>2. Kept(c) \in [Procs -> CPUs \cup {Free}]
    BY DEF Kept
  <1>3. ASSUME NEW p \in Procs
        PROVE  Kept(c)[p] = c <=> Choice(c) = p
    BY <1>1, FreeAssumption DEF LockInv
  <1>4. ASSUME NEW d \in CPUs \ {c}, NEW p \in Procs
        PROVE  Kept(c)[p] = d <=> chosen[d] = p
    <2>1. CASE p = Choice(c)
      <3>1. Choice(c) # null
        BY <2>1, NullNoProc
      <3>2. chosen[d] # p
        BY <2>1, <3>1, ChoiceFacts
      <3>. QED BY <1>1, <2>1, <3>2
    <2>2. CASE p # Choice(c) /\ p = chosen[c]
      <3>1. lock[p] = c
        BY <2>2 DEF LockInv
      <3>2. chosen[d] # p
        BY <3>1 DEF LockInv
      <3>. QED BY <1>1, <2>2, <3>2, FreeAssumption
    <2>3. CASE p # Choice(c) /\ p # chosen[c]
      BY <1>1, <2>3 DEF LockInv
    <2>. QED BY <2>1, <2>2, <2>3
  <1>. QED BY <1>2, <1>3, <1>4

\* A step of scheduler() on c that leaves locks and states alone, before it has
\* chosen anybody.
LEMMA LoopStep ==
  ASSUME IInv, NEW c \in CPUs, NEW i \in Procs, NEW s \in {"sum", "draw"},
         UNCHANGED <<state, lock, cproc, chosen>>,
         idx' = [idx EXCEPT ![c] = i], spc' = [spc EXCEPT ![c] = s],
         chosen[c] = null
  PROVE  IInv'
  <1>1. TypeInv'
    BY DEF IInv, TypeInv
  <1>2. LockInv'
    BY Zenon DEF IInv, LockInv
  <1>3. OneCpu'
    BY Zenon DEF IInv, OneCpu
  <1>4. ASSUME NEW d \in CPUs, chosen[d] # null
        PROVE  idx'[d] = idx[d] /\ spc'[d] = spc[d]
    BY <1>4 DEF IInv, TypeInv
  <1>5. ChosenInv'
    BY <1>4 DEF IInv, ChosenInv
  <1>6. SumInv'
    BY <1>4 DEF IInv, SumInv
  <1>. QED BY <1>1, <1>2, <1>3, <1>5, <1>6 DEF IInv

\* A lottery that has chosen nobody may go back to the top of the for(;;) loop.
LEMMA RestartStep ==
  ASSUME IInv, NEW c \in CPUs, Restart(c), chosen[c] = null,
         UNCHANGED <<state, lock, cproc>>
  PROVE  IInv'
  <1>1. 0 \in Procs
    BY NPROCAssumption DEF Procs
  <1>2. chosen' = chosen
    BY DEF Restart, IInv, TypeInv
  <1>3. idx' = [idx EXCEPT ![c] = 0] /\ spc' = [spc EXCEPT ![c] = "sum"]
    BY Zenon DEF Restart
  <1>. QED BY <1>1, <1>2, <1>3, LoopStep

\* The first loop, the draw and the lottery without tickets: nobody is chosen yet.
LEMMA SumStep ==
  ASSUME IInv, NEW c \in CPUs, sum(c) \/ sum_draw(c) \/ sum_none(c)
  PROVE  IInv'
  <1>1. spc[c] = "sum"
    BY Zenon DEF sum, sum_draw, sum_none, InLoop
  <1>2. chosen[c] = null
    BY <1>1, Zenon DEF IInv, SumInv
  <1>3. idx[c] \in Procs /\ 0 \in Procs
    BY NPROCAssumption DEF Procs, IInv, TypeInv
  <1>4. CASE sum(c)
    <2>1. idx[c] # NPROC - 1
      BY <1>4, Zenon DEF sum, Last
    <2>2. idx[c] + 1 \in Procs
      BY <1>3, <2>1, NPROCAssumption DEF Procs
    <2>3. UNCHANGED <<state, lock, cproc, chosen>> /\ idx' = [idx EXCEPT ![c] = idx[c] + 1]
      BY <1>4 DEF sum, pvars_lbs
    <2>4. spc' = [spc EXCEPT ![c] = "sum"]
      BY <1>1, <1>4 DEF sum, IInv, TypeInv
    <2>. QED BY <1>2, <2>2, <2>3, <2>4, LoopStep
  <1>5. CASE sum_draw(c)
    <2>1. UNCHANGED <<state, lock, cproc, chosen>>
      BY <1>5 DEF sum_draw, pvars_lbs
    <2>2. idx' = [idx EXCEPT ![c] = 0] /\ spc' = [spc EXCEPT ![c] = "draw"]
      BY <1>5, Zenon DEF sum_draw
    <2>. QED BY <1>2, <1>3, <2>1, <2>2, LoopStep
  <1>6. CASE sum_none(c)
    BY <1>2, <1>6, RestartStep DEF sum_none, pvars_lbs
  <1>. QED BY <1>4, <1>5, <1>6

\* A visit of the second loop.
LEMMA DrawStep ==
  ASSUME IInv, NEW c \in CPUs, draw(c)
  PROVE  IInv'
  <1>1. InLoop(c, "draw") /\ lock' = Kept(c) /\ UNCHANGED <<state, cproc, spc>>
    BY DEF draw, pvars_lbs
  <1>2. chosen' = [chosen EXCEPT ![c] = Choice(c)] /\ idx' = [idx EXCEPT ![c] = idx[c] + 1]
    BY DEF draw
  <1>3. spc[c] = "draw"
    BY <1>1, Zenon DEF InLoop
  <1>4. idx[c] \in Procs /\ idx[c] # NPROC - 1
    BY DEF draw, Last, IInv, TypeInv
  <1>5. idx[c] + 1 \in Procs
    BY <1>4, NPROCAssumption DEF Procs
  <1>6. /\ chosen'[c] = Choice(c) /\ idx'[c] = idx[c] + 1
        /\ \A d \in CPUs \ {c} : chosen'[d] = chosen[d] /\ idx'[d] = idx[d]
    BY <1>2 DEF IInv, TypeInv
  <1>7. TypeInv'
    <2>1. Choice(c) \in Procs \cup {null}
      BY <1>1, ChoiceFacts
    <2>2. lock' \in [Procs -> CPUs \cup {Free}]
      BY <1>1, KeptLocks
    <2>. QED BY <1>1, <1>2, <1>5, <2>1, <2>2 DEF IInv, TypeInv
  <1>8. LockInv'
    BY <1>1, <1>6, KeptLocks DEF LockInv
  <1>9. ChosenInv'
    <2>1. ASSUME Choice(c) # null
          PROVE  state[Choice(c)] = "RUNNABLE" /\ Choice(c) < idx[c] + 1
      <3>1. Choice(c) \in Procs /\ state[Choice(c)] = "RUNNABLE" /\ Choice(c) <= idx[c]
        BY <1>1, <2>1, ChoiceFacts
      <3>. QED BY <1>4, <3>1 DEF Procs
    <2>. QED BY <1>1, <1>6, <2>1 DEF IInv, ChosenInv
  <1>10. SumInv'
    BY <1>1, <1>3, <1>6, Zenon DEF IInv, SumInv
  <1>11. OneCpu'
    BY <1>1, Zenon DEF IInv, OneCpu
  <1>. QED BY <1>7, <1>8, <1>9, <1>10, <1>11 DEF IInv

\* The switch: the process chosen was not running anywhere.
LEMMA SwitchStep ==
  ASSUME IInv, NEW c \in CPUs, draw_switch(c)
  PROVE  IInv'
  <1> DEFINE p == Choice(c)
  <1>1. InLoop(c, "draw") /\ p # null
    BY DEF draw_switch
  <1>2. /\ p \in Procs /\ state[p] = "RUNNABLE"
        /\ \A d \in CPUs \ {c} : chosen[d] # p
    BY <1>1, ChoiceFacts
  <1> HIDE DEF p
  <1>3. /\ state' = [state EXCEPT ![p] = "RUNNING"]
        /\ cproc' = [cproc EXCEPT ![c] = p]
        /\ lock' = [Kept(c) EXCEPT ![p] = Free]
        /\ Restart(c)
    BY DEF draw_switch, p
  <1>4. /\ chosen' = [chosen EXCEPT ![c] = null]
        /\ idx' = [idx EXCEPT ![c] = 0]
        /\ spc' = [spc EXCEPT ![c] = "sum"]
    BY <1>3 DEF Restart
  <1>5. /\ chosen'[c] = null
        /\ \A d \in CPUs \ {c} : /\ chosen'[d] = chosen[d]
                                 /\ idx'[d] = idx[d] /\ spc'[d] = spc[d]
    BY <1>4 DEF IInv, TypeInv
  <1>6. /\ Kept(c) \in [Procs -> CPUs \cup {Free}]
        /\ \A q \in Procs : Kept(c)[q] = c <=> p = q
        /\ \A d \in CPUs \ {c}, q \in Procs : Kept(c)[q] = d <=> chosen[d] = q
    BY <1>1, KeptLocks DEF p
  <1>7. /\ lock'[p] = Free
        /\ \A q \in Procs \ {p} : lock'[q] = Kept(c)[q]
    BY <1>2, <1>3, <1>6
  <1>8. /\ state'[p] = "RUNNING"
        /\ \A q \in Procs \ {p} : state'[q] = state[q]
    BY <1>2, <1>3 DEF IInv, TypeInv
  <1>9. /\ cproc'[c] = p
        /\ \A d \in CPUs \ {c} : cproc'[d] = cproc[d]
    BY <1>3 DEF IInv, TypeInv
  <1>10. TypeInv'
    <2>1. 0 \in Procs
      BY NPROCAssumption DEF Procs
    <2>. QED BY <1>2, <1>3, <1>4, <1>6, <2>1 DEF IInv, TypeInv, States
  <1>11. LockInv'
    <2>1. ASSUME NEW d \in CPUs, NEW q \in Procs
          PROVE  lock'[q] = d <=> chosen'[d] = q
      <3>1. CASE d = c
        BY <1>5, <1>6, <1>7, <3>1, NullNoProc, FreeAssumption
      <3>2. CASE d # c
        BY <1>2, <1>5, <1>6, <1>7, <3>2, FreeAssumption
      <3>. QED BY <3>1, <3>2
    <2>. QED BY <2>1 DEF LockInv
  <1>12. ChosenInv'
    <2>1. ASSUME NEW d \in CPUs, chosen'[d] # null
          PROVE  state'[chosen'[d]] = "RUNNABLE" /\ chosen'[d] < idx'[d]
      <3>1. d # c /\ chosen'[d] = chosen[d] /\ idx'[d] = idx[d] /\ chosen[d] # p
        BY <1>2, <1>5, <2>1
      <3>2. chosen[d] \in Procs
        BY <2>1, <3>1 DEF IInv, TypeInv
      <3>. QED BY <1>8, <2>1, <3>1, <3>2 DEF IInv, ChosenInv
    <2>. QED BY <2>1 DEF ChosenInv
  <1>13. SumInv'
    BY <1>5, Zenon DEF IInv, SumInv
  <1>14. OneCpu'
    <2>1. \A d \in CPUs : cproc[d] # p
      BY <1>2 DEF IInv, OneCpu
    <2>2. cproc[c] = null
      BY <1>1, Zenon DEF InLoop
    <2>3. ASSUME NEW d \in CPUs, NEW e \in CPUs, d # e, cproc'[d] # null
          PROVE  cproc'[d] # cproc'[e]
      BY <1>9, <2>1, <2>3 DEF IInv, OneCpu
    <2>4. ASSUME NEW q \in Procs
          PROVE  state'[q] = "RUNNING" <=> \E d \in CPUs : cproc'[d] = q
      <3>1. CASE q = p
        BY <1>8, <1>9, <3>1
      <3>2. CASE q # p
        <4>1. \A d \in CPUs : cproc'[d] = q <=> cproc[d] = q
          BY <1>9, <2>2, <3>2, NullNoProc
        <4>. QED BY <1>8, <3>2, <4>1 DEF IInv, OneCpu
      <3>. QED BY <3>1, <3>2
    <2>. QED BY <2>3, <2>4 DEF OneCpu
  <1>. QED BY <1>10, <1>11, <1>12, <1>13, <1>14 DEF IInv

\* A lottery that ends with nobody chosen had chosen nobody before.
LEMMA NoneStep ==
  ASSUME IInv, NEW c \in CPUs, draw_none(c)
  PROVE  IInv'
  <1>1. chosen[c] = null
    <2>1. Choice(c) = null
      BY DEF draw_none
    <2>2. idx[c] # null
      BY NullNoProc DEF IInv, TypeInv
    <2>. QED BY <2>1, <2>2 DEF Choice
  <1>. QED BY <1>1, RestartStep DEF draw_none, pvars_lbs

\* A change of state under a lock no lottery keeps disturbs no lottery.
LEMMA StateStep ==
  ASSUME IInv, NEW t \in Procs, NEW s \in States, lock[t] = Free,
         state' = [state EXCEPT ![t] = s], UNCHANGED <<lock, svars>>,
         cproc' \in [CPUs -> Procs \cup {null}]
  PROVE  TypeInv' /\ LockInv' /\ ChosenInv' /\ SumInv'
  <1>1. UNCHANGED <<spc, idx, chosen>>
    BY DEF svars
  <1>2. TypeInv'
    BY <1>1 DEF IInv, TypeInv
  <1>3. LockInv'
    BY <1>1, Zenon DEF IInv, LockInv
  <1>4. SumInv'
    BY <1>1, Zenon DEF IInv, SumInv
  <1>5. ASSUME NEW c \in CPUs, chosen[c] # null
        PROVE  state'[chosen[c]] = state[chosen[c]]
    <2>1. chosen[c] \in Procs
      BY <1>5 DEF IInv, TypeInv
    <2>2. chosen[c] # t
      BY <2>1, FreeAssumption DEF IInv, LockInv
    <2>. QED BY <2>1, <2>2 DEF IInv, TypeInv
  <1>6. ChosenInv'
    BY <1>1, <1>5 DEF IInv, ChosenInv
  <1>. QED BY <1>2, <1>3, <1>4, <1>6

\* yield(), sleep() and exit(): the CPU and its process part together.
LEMMA LeaveStep ==
  ASSUME IInv, NEW c \in CPUs, NEW p \in myproc(c),
         NEW s \in {"RUNNABLE", "SLEEPING", "ZOMBIE"}, leave(c, p, s)
  PROVE  IInv'
  <1>1. p \in Procs /\ p = cproc[c]
    BY DEF myproc
  <1>2. /\ lock[p] = Free /\ UNCHANGED <<lock, svars>>
        /\ state' = [state EXCEPT ![p] = s]
        /\ cproc' = [cproc EXCEPT ![c] = null]
    BY DEF leave
  <1>3. cproc' \in [CPUs -> Procs \cup {null}]
    BY <1>2 DEF IInv, TypeInv
  <1>4. s \in States
    BY DEF States
  <1>5. TypeInv' /\ LockInv' /\ ChosenInv' /\ SumInv'
    BY <1>1, <1>2, <1>3, <1>4, StateStep
  <1>6. /\ cproc'[c] = null
        /\ \A d \in CPUs \ {c} : cproc'[d] = cproc[d]
    BY <1>2 DEF IInv, TypeInv
  <1>7. /\ state'[p] # "RUNNING"
        /\ \A q \in Procs \ {p} : state'[q] = state[q]
    BY <1>1, <1>2 DEF IInv, TypeInv
  <1>8. \A d \in CPUs \ {c} : cproc[d] # p
    BY <1>1, NullNoProc DEF IInv, OneCpu
  <1>9. OneCpu'
    <2>1. ASSUME NEW d \in CPUs, NEW e \in CPUs, d # e, cproc'[d] # null
          PROVE  cproc'[d] # cproc'[e]
      BY <1>6, <2>1 DEF IInv, OneCpu
    <2>2. ASSUME NEW q \in Procs
          PROVE  state'[q] = "RUNNING" <=> \E d \in CPUs : cproc'[d] = q
      <3>1. CASE q = p
        BY <1>6, <1>7, <1>8, <3>1, NullNoProc
      <3>2. CASE q # p
        <4>1. \A d \in CPUs : cproc'[d] = q <=> cproc[d] = q
          BY <1>1, <1>6, <3>2, NullNoProc
        <4>. QED BY <1>7, <3>2, <4>1 DEF IInv, OneCpu
      <3>. QED BY <3>1, <3>2
    <2>. QED BY <2>1, <2>2 DEF OneCpu
  <1>. QED BY <1>5, <1>9 DEF IInv

\* fork(), wait() and wakeup() take a process that does not run to another
\* such state.
LEMMA OthersStep ==
  ASSUME IInv, NEW t \in Procs,
         (\E p \in Procs : fork_lbs(p, t)) \/ wait_lbs(t) \/ wakeup_lbs(t)
  PROVE  IInv'
  <1>1. PICK s \in States \ {"RUNNING"} : state' = [state EXCEPT ![t] = s]
    BY DEF fork_lbs, wait_lbs, wakeup_lbs, States
  <1>2. state[t] # "RUNNING" /\ lock[t] = Free /\ UNCHANGED <<lock, cproc, svars>>
    BY DEF fork_lbs, wait_lbs, wakeup_lbs
  <1>3. cproc' \in [CPUs -> Procs \cup {null}]
    BY <1>2 DEF IInv, TypeInv
  <1>4. TypeInv' /\ LockInv' /\ ChosenInv' /\ SumInv'
    BY <1>1, <1>2, <1>3, StateStep
  <1>5. \A q \in Procs : state'[q] = "RUNNING" <=> state[q] = "RUNNING"
    BY <1>1, <1>2 DEF IInv, TypeInv
  <1>6. OneCpu'
    BY <1>2, <1>5 DEF IInv, OneCpu
  <1>. QED BY <1>4, <1>6 DEF IInv

\* Steps that change none of what the invariant mentions.
LEMMA FrameStep ==
  ASSUME IInv, UNCHANGED <<state, lock, cproc, spc, idx, chosen>>
  PROVE  IInv'
  <1>1. TypeInv' /\ LockInv'
    BY Zenon DEF IInv, TypeInv, LockInv
  <1>2. ChosenInv' /\ SumInv'
    BY Zenon DEF IInv, ChosenInv, SumInv
  <1>3. OneCpu'
    BY Zenon DEF IInv, OneCpu
  <1>. QED BY <1>1, <1>2, <1>3 DEF IInv

\* Every step of the lotteries, of the processes and of the clock keeps the invariant.
LEMMA Inductive == IInv /\ [LbsNext]_vars_lbs => IInv'
  <1> SUFFICES ASSUME IInv, [LbsNext]_vars_lbs PROVE IInv'
    OBVIOUS
  <1>1. ASSUME NEW c \in CPUs, scheduler_lbs(c) PROVE IInv'
    BY <1>1, SumStep, DrawStep, SwitchStep, NoneStep DEF scheduler_lbs
  <1>2. ASSUME NEW c \in CPUs, NEW p \in myproc(c),
               NEW s \in {"RUNNABLE", "SLEEPING", "ZOMBIE"}, leave(c, p, s)
        PROVE  IInv'
    BY <1>2, LeaveStep
  <1>3. ASSUME NEW p, NEW number \in Tickets, settickets(p, number) PROVE IInv'
    BY <1>3, FrameStep DEF settickets, svars
  <1>4. ASSUME NEW c \in CPUs, NEW p \in myproc(c), NEW t \in Procs, fork_lbs(p, t) \/ wait_lbs(t)
        PROVE  IInv'
    <2>1. p \in Procs
      BY DEF myproc
    <2>. QED BY <1>4, <2>1, OthersStep
  <1>5. ASSUME NEW t \in Procs, wakeup_lbs(t) PROVE IInv'
    BY <1>5, OthersStep
  <1>6. CASE clockintr
    BY <1>6, FrameStep DEF clockintr, pvars_lbs, svars
  <1>7. CASE UNCHANGED vars_lbs
    BY <1>7, FrameStep DEF vars_lbs
  <1>. QED BY <1>1, <1>2, <1>3, <1>4, <1>5, <1>6, <1>7, Zenon DEF LbsNext

\* The invariant holds in every reachable state.
LEMMA Invariance == LbsSpec => []IInv
  BY Initial, Inductive, PTL DEF LbsSpec

\* The second loop of scheduler() keeps the lock of the process it favours and no
\* other, whatever the other CPUs, fork(), wait() and wakeup() do between two visits.
THEOREM LotteryHoldsChosen == LbsSpec => []HoldsChosen
  <1>1. ASSUME IInv PROVE HoldsChosen
    <2>1. ASSUME NEW c \in CPUs
          PROVE  {p \in Procs : lock[p] = c} = {chosen[c]} \ {null}
      <3>1. chosen[c] \in Procs \cup {null}
        BY <1>1 DEF IInv, TypeInv
      <3>2. \A p \in Procs : lock[p] = c <=> chosen[c] = p
        BY <1>1 DEF IInv, LockInv
      <3>. QED BY <3>1, <3>2, NullNoProc
    <2>. QED BY <1>1, <2>1 DEF IInv, ChosenInv, HoldsChosen
  <1>. QED BY <1>1, Invariance, PTL

\* No process is ever run by two CPUs, and RUNNING names exactly those switched to.
THEOREM LotteryOneCpu == LbsSpec => []OneCpu
  <1>1. IInv => OneCpu
    BY DEF IInv
  <1>. QED BY <1>1, Invariance, PTL

-----------------------------------------------------------------------------

(* The MLFQ scheduler *)

In(p, s) == \E k \in 1 .. Len(s) : s[k] = p

\* The types of the variables of Mlfq; scheduler() has a process in hand between
\* pop() and the switch, and a CPU that runs a process is at the top of the loop.
QueueTypes ==
    /\ state \in [Procs -> States]
    /\ priority_queue_number \in [Procs -> Queues]
    /\ status_queue \in [Procs -> {0, 1}]
    /\ queue \in [Queues -> Seq(Procs)]
    /\ cproc \in [CPUs -> Procs \cup {null}]
    /\ cur \in [CPUs -> Procs \cup {null}]
    /\ spc \in [CPUs -> {"enqueue", "pick", "check", "switch"}]
    /\ \A c \in CPUs : /\ spc[c] \in {"check", "switch"} => cur[c] \in Procs
                       /\ cproc[c] # null => spc[c] = "enqueue"

\* A process marked as queued is in a queue, whatever its state.
MarkedQueued == \A p \in Procs : status_queue[p] = 1 => Queued(p)

QueueInv == QueueTypes /\ MarkedQueued

\* The elements below an element of S are fewer than those of S, and more for a
\* larger element.
LEMMA RankRange ==
  ASSUME NEW S \in SUBSET Nat, IsFiniteSet(S), NEW p \in S
  PROVE  /\ Cardinality({r \in S : r < p}) \in 0 .. Cardinality(S) - 1
         /\ \A s \in S : p < s => Cardinality({r \in S : r < p}) < Cardinality({r \in S : r < s})
  <1> DEFINE B(s) == {r \in S : r < s}
  <1>1. \A s : IsFiniteSet(B(s)) /\ Cardinality(B(s)) \in Nat
    <2>1. \A s : B(s) \in SUBSET S
      BY Zenon
    <2>2. \A s : IsFiniteSet(B(s))
      BY Zenon, <2>1, FS_Subset
    <2>. QED BY Zenon, <2>2, FS_CardinalityType
  <1>2. p \notin B(p) /\ B(p) \in SUBSET S
    BY SMT
  <1>3. Cardinality(B(p)) <= Cardinality(S) /\ Cardinality(S) # Cardinality(B(p))
    <2>1. B(p) # S
      BY Zenon, <1>2
    <2> HIDE DEF B
    <2>. QED BY Zenon, <1>2, <2>1, FS_Subset
  <1>4. Cardinality(S) \in Nat
    BY Zenon, FS_CardinalityType
  <1>5. ASSUME NEW s \in S, p < s
        PROVE  Cardinality(B(p)) < Cardinality(B(s))
    <2>1. B(p) \subseteq B(s) /\ p \in B(s)
      <3>1. p \in Nat /\ s \in Nat /\ \A r \in S : r \in Nat
        BY Zenon
      <3>2. \A r \in S : r < p => r < s
        BY <1>5, <3>1
      <3>. QED BY Zenon, <1>5, <3>2
    <2>2. B(p) # B(s)
      BY Zenon, <1>2, <2>1
    <2> HIDE DEF B
    <2>3. Cardinality(B(p)) <= Cardinality(B(s)) /\ Cardinality(B(s)) # Cardinality(B(p))
      BY Zenon, <1>1, <2>1, <2>2, FS_Subset
    <2>. QED BY <1>1, <2>3
  <1> HIDE DEF B
  <1>6. Cardinality(B(p)) \in 0 .. Cardinality(S) - 1
    BY <1>1, <1>3, <1>4
  <1>. QED BY Zenon, <1>5, <1>6 DEF B

\* InOrder lists the elements of a set of slots, each of them once.
LEMMA InOrderLists ==
  ASSUME NEW S \in SUBSET Nat, IsFiniteSet(S)
  PROVE  InOrder(S) \in Seq(S) /\ \A p \in S : In(p, InOrder(S))
  <1> DEFINE n == Cardinality(S)
             R(p) == Cardinality({r \in S : r < p})
             f == [p \in S |-> R(p)]
             s == InOrder(S)
  <1>1. n \in Nat
    BY Zenon, FS_CardinalityType
  <1>2. \A p \in S : R(p) \in 0 .. n - 1
    BY Zenon, RankRange
  <1>3. \A p, q \in S : p < q => R(p) < R(q)
    BY Zenon, RankRange
  <1>4. s = [k \in 1 .. n |-> Slot(S, k)]
    BY Zenon DEF InOrder
  <1>a. \A k : (\E p \in S : R(p) = k - 1) => Slot(S, k) \in S /\ R(Slot(S, k)) = k - 1
    <2> DEFINE Q(p, k) == R(p) = k - 1
    <2>1. \A k : Slot(S, k) = CHOOSE p \in S : Q(p, k)
      BY Zenon DEF Slot
    <2>2. \A k : (\E p \in S : Q(p, k)) =>
                   (CHOOSE p \in S : Q(p, k)) \in S /\ Q(CHOOSE p \in S : Q(p, k), k)
      BY Zenon
    <2>. QED BY Zenon, <2>1, <2>2
  <1> HIDE DEF n, R, s
  <1>5. \A p, q \in S : R(p) = R(q) => p = q
    <2> SUFFICES ASSUME NEW p \in S, NEW q \in S, R(p) = R(q), p # q
                 PROVE  FALSE
      BY Zenon
    <2>1. p \in Nat /\ q \in Nat
      BY Zenon
    <2>2. p < q \/ q < p
      BY <2>1
    <2>3. ~(R(p) < R(q)) /\ ~(R(q) < R(p))
      BY <1>1, <1>2
    <2>. QED BY Zenon, <1>3, <2>2, <2>3
  <1>6. f \in Injection(S, 0 .. n - 1)
    BY Zenon, <1>2, <1>5 DEF Injection, IsInjective
  <1>7. IsFiniteSet(0 .. n - 1) /\ Cardinality(0 .. n - 1) = n
    BY <1>1, FS_Interval
  <1>8. f \in Surjection(S, 0 .. n - 1)
    BY Zenon, <1>6, <1>7, FS_Injection DEF n
  <1>9. \A i \in 0 .. n - 1 : \E p \in S : R(p) = i
    BY Zenon, <1>8 DEF Surjection
  <1>10. \A k \in 1 .. n : s[k] \in S /\ R(s[k]) = k - 1
    <2> TAKE k \in 1 .. n
    <2>1. k - 1 \in 0 .. n - 1
      BY <1>1
    <2>2. s[k] = Slot(S, k)
      BY Zenon, <1>4
    <2>. QED BY Zenon, <1>9, <1>a, <2>1, <2>2
  <1>11. s \in Seq(S) /\ Len(s) = n
    BY <1>1, <1>4, <1>10
  <1>12. ASSUME NEW p \in S
         PROVE  In(p, s)
    <2>1. R(p) + 1 \in 1 .. n /\ (R(p) + 1) - 1 = R(p)
      BY <1>1, <1>2
    <2>2. s[R(p) + 1] = p
      BY Zenon, <1>5, <1>10, <2>1
    <2>. QED BY Zenon, <1>11, <2>1, <2>2 DEF In
  <1>. QED BY Zenon, <1>11, <1>12 DEF s

\* What is in a sequence is in each of its extensions; what is added is there too.
LEMMA InConcat ==
  ASSUME NEW T, NEW s \in Seq(T), NEW t \in Seq(T), NEW p
  PROVE  /\ s \o t \in Seq(T)
         /\ In(p, s) => In(p, s \o t)
         /\ In(p, t) => In(p, s \o t)
  <1>1. /\ s \o t \in Seq(T) /\ Len(s \o t) = Len(s) + Len(t)
        /\ Len(s) \in Nat /\ Len(t) \in Nat
        /\ \A k \in 1 .. Len(s) : (s \o t)[k] = s[k]
        /\ \A k \in 1 .. Len(t) : (s \o t)[Len(s) + k] = t[k]
    OBVIOUS
  <1> DEFINE u == s \o t
  <1> HIDE DEF u
  <1>2. /\ Len(u) = Len(s) + Len(t)
        /\ \A k \in 1 .. Len(s) : u[k] = s[k]
        /\ \A k \in 1 .. Len(t) : u[Len(s) + k] = t[k]
    BY Zenon, <1>1 DEF u
  <1>3. ASSUME NEW k \in 1 .. Len(s), s[k] = p
        PROVE  In(p, u)
    <2>1. k \in 1 .. Len(u) /\ u[k] = p
      BY <1>1, <1>2, <1>3
    <2>. QED BY Zenon, <2>1 DEF In
  <1>4. ASSUME NEW k \in 1 .. Len(t), t[k] = p
        PROVE  In(p, u)
    <2>1. Len(s) + k \in 1 .. Len(u) /\ u[Len(s) + k] = p
      BY <1>1, <1>2, <1>4
    <2>. QED BY Zenon, <2>1 DEF In
  <1>. QED BY Zenon, <1>1, <1>3, <1>4 DEF In, u

\* Tail drops the head only.
LEMMA InTail ==
  ASSUME NEW T, NEW s \in Seq(T), s # <<>>
  PROVE  /\ Head(s) \in T /\ Tail(s) \in Seq(T)
         /\ \A p : In(p, s) => p = Head(s) \/ In(p, Tail(s))
  <1>1. /\ Len(s) \in Nat /\ Len(s) >= 1 /\ Head(s) = s[1] /\ Head(s) \in T
        /\ Tail(s) \in Seq(T) /\ Len(Tail(s)) = Len(s) - 1
        /\ \A i \in 1 .. Len(s) - 1 : Tail(s)[i] = s[i + 1]
    OBVIOUS
  <1>2. ASSUME NEW p, NEW k \in 1 .. Len(s), s[k] = p, p # Head(s)
        PROVE  In(p, Tail(s))
    <2>1. k # 1
      BY Zenon, <1>1, <1>2
    <2>2. k - 1 \in 1 .. Len(s) - 1 /\ (k - 1) + 1 = k
      BY <1>1, <2>1
    <2>3. k - 1 \in 1 .. Len(Tail(s)) /\ Tail(s)[k - 1] = p
      BY Zenon, <1>1, <1>2, <2>2
    <2>. QED BY Zenon, <2>3 DEF In
  <1>. QED BY Zenon, <1>1, <1>2 DEF In

\* Every queue is finite, and so is what the loop over proc[] adds to it.
LEMMA ArrivalsFinite ==
  ASSUME NEW q
  PROVE  Arrivals(q) \in SUBSET Nat /\ IsFiniteSet(Arrivals(q)) /\ Arrivals(q) \subseteq Procs
  <1>1. IsFiniteSet(Procs) /\ Procs \subseteq Nat
    BY NPROCAssumption, FS_Interval DEF Procs
  <1>2. Arrivals(q) \subseteq Procs
    BY Zenon DEF Arrivals
  <1>. QED BY Zenon, <1>1, <1>2, FS_Subset

\* At boot no process is marked.
LEMMA QueueInitial ==
  ASSUME Init
  PROVE  QueueInv
  <1>1. 0 \in Queues
    BY QueueAssumption DEF Queues
  <1>2. \A q \in Queues : <<>> \in Seq(Procs)
    OBVIOUS
  <1>3. QueueTypes
    BY Zenon, <1>1, <1>2 DEF Init, QueueTypes, States
  <1>4. \A p \in Procs : status_queue[p] # 1
    BY DEF Init
  <1>. QED BY Zenon, <1>3, <1>4 DEF QueueInv, MarkedQueued

\* A queue that keeps p keeps it queued.
LEMMA StillQueued ==
  ASSUME NEW p, Queued(p),
         \A q \in Queues : In(p, queue[q]) => In(p, queue'[q])
  PROVE  Queued(p)'
  BY Zenon DEF Queued, In

\* The loop over proc[] marks what it appends.
LEMMA EnqueueStep ==
  ASSUME QueueInv, NEW c \in CPUs, enqueue(c)
  PROVE  QueueInv'
  <1>1. /\ queue \in [Queues -> Seq(Procs)] /\ status_queue \in [Procs -> {0, 1}]
        /\ priority_queue_number \in [Procs -> Queues]
    BY Zenon DEF QueueInv, QueueTypes
  <1>2. \A q \in Queues : queue'[q] = queue[q] \o InOrder(Arrivals(q))
    BY Zenon DEF enqueue
  <1>3. \A q \in Queues : /\ InOrder(Arrivals(q)) \in Seq(Procs)
                          /\ \A p \in Arrivals(q) : In(p, InOrder(Arrivals(q)))
    <2> TAKE q \in Queues
    <2>1. /\ InOrder(Arrivals(q)) \in Seq(Arrivals(q))
          /\ \A p \in Arrivals(q) : In(p, InOrder(Arrivals(q)))
      BY Zenon, ArrivalsFinite, InOrderLists
    <2>2. Arrivals(q) \subseteq Procs
      BY Zenon, ArrivalsFinite
    <2>3. InOrder(Arrivals(q)) \in Seq(Procs)
      BY <2>1, <2>2
    <2>. QED BY Zenon, <2>1, <2>3
  <1>4. \A q \in Queues : queue'[q] \in Seq(Procs)
    BY Zenon, <1>1, <1>2, <1>3, InConcat
  <1>5. \A q \in Queues : \A p : /\ In(p, queue[q]) => In(p, queue'[q])
                                 /\ p \in Arrivals(q) => In(p, queue'[q])
    <2> TAKE q \in Queues
    <2> TAKE p
    <2>1. queue[q] \in Seq(Procs)
      BY Zenon, <1>1
    <2>. QED BY Zenon, <1>2, <1>3, <2>1, InConcat
  <1>6. \A p \in Procs : status_queue'[p] = IF state[p] = "RUNNABLE" THEN 1 ELSE status_queue[p]
    BY Zenon DEF enqueue
  <1>7. MarkedQueued'
    <2> SUFFICES ASSUME NEW p \in Procs, status_queue'[p] = 1
                 PROVE  Queued(p)'
      BY Zenon DEF MarkedQueued
    <2>1. CASE status_queue[p] = 1
      <3>1. Queued(p)
        BY Zenon, <2>1 DEF QueueInv, MarkedQueued
      <3>. QED BY Zenon, <1>5, <3>1, StillQueued
    <2>2. CASE status_queue[p] # 1
      <3>1. state[p] = "RUNNABLE"
        BY Zenon, <1>6, <2>2
      <3>2. status_queue[p] = 0
        BY Zenon, <1>1, <2>2
      <3>3. p \in Arrivals(priority_queue_number[p]) /\ priority_queue_number[p] \in Queues
        BY Zenon, <1>1, <3>1, <3>2 DEF Arrivals
      <3>4. In(p, queue'[priority_queue_number[p]])
        BY Zenon, <1>5, <3>3
      <3>. QED BY Zenon, <3>3, <3>4 DEF Queued, In
    <2>. QED BY Zenon, <2>1, <2>2
  <1>8. QueueTypes'
    <2>1. queue' \in [Queues -> Seq(Procs)]
      <3>1. queue' = [q \in Queues |-> queue[q] \o InOrder(Arrivals(q))]
        BY Zenon DEF enqueue
      <3>2. \A q \in Queues : queue[q] \o InOrder(Arrivals(q)) \in Seq(Procs)
        BY Zenon, <1>2, <1>4
      <3>. QED BY Zenon, <3>1, <3>2
    <2>2. status_queue' \in [Procs -> {0, 1}]
      BY Zenon, <1>1 DEF enqueue
    <2>3. /\ spc' = [spc EXCEPT ![c] = "pick"] /\ cproc[c] = null
          /\ UNCHANGED <<state, priority_queue_number, cproc, cur>>
      BY Zenon DEF enqueue, InScheduler
    <2>. QED BY <2>1, <2>2, <2>3 DEF QueueInv, QueueTypes
  <1>. QED BY Zenon, <1>7, <1>8 DEF QueueInv

\* pop() takes off the head of queue q, and nothing else.
LEMMA PoppedKeeps ==
  ASSUME QueueInv, NEW q \in Queues, queue[q] # <<>>
  PROVE  /\ Head(queue[q]) \in Procs /\ Popped(q) \in [Queues -> Seq(Procs)]
         /\ \A r \in Queues : \A s : In(s, queue[r]) => s = Head(queue[q]) \/ In(s, Popped(q)[r])
  <1>1. queue \in [Queues -> Seq(Procs)] /\ queue[q] \in Seq(Procs)
    BY Zenon DEF QueueInv, QueueTypes
  <1>2. /\ Head(queue[q]) \in Procs /\ Tail(queue[q]) \in Seq(Procs)
        /\ \A s : In(s, queue[q]) => s = Head(queue[q]) \/ In(s, Tail(queue[q]))
    BY Zenon, <1>1, InTail
  <1>3. /\ Popped(q) \in [Queues -> Seq(Procs)] /\ Popped(q)[q] = Tail(queue[q])
        /\ \A r \in Queues \ {q} : Popped(q)[r] = queue[r]
    BY Zenon, <1>1, <1>2 DEF Popped
  <1>4. ASSUME NEW r \in Queues, NEW s, In(s, queue[r]), s # Head(queue[q])
        PROVE  In(s, Popped(q)[r])
    <2>1. CASE r = q
      BY Zenon, <1>2, <1>3, <1>4, <2>1
    <2>2. CASE r # q
      BY Zenon, <1>3, <1>4, <2>2
    <2>. QED BY Zenon, <2>1, <2>2
  <1>. QED BY Zenon, <1>2, <1>3, <1>4

\* The process that is popped and RUNNABLE is marked, and goes back to a queue.
LEMMA PickStep ==
  ASSUME QueueInv, NEW c \in CPUs, pick(c)
  PROVE  QueueInv'
  <1>1. /\ queue \in [Queues -> Seq(Procs)] /\ status_queue \in [Procs -> {0, 1}]
        /\ priority_queue_number \in [Procs -> Queues]
    BY Zenon DEF QueueInv, QueueTypes
  <1>2. PICK q \in Queues :
          /\ queue[q] # <<>>
          /\ queue' = [Popped(q) EXCEPT ![priority_queue_number[Head(queue[q])]] = <<Head(queue[q])>> \o @]
          /\ status_queue' = [status_queue EXCEPT ![Head(queue[q])] = 1]
          /\ cur' = [cur EXCEPT ![c] = Head(queue[q])]
    BY Zenon DEF pick, IsFirst
  <1> DEFINE p    == Head(queue[q])
             rest == Popped(q)
             pri  == priority_queue_number[p]
  <1>3. /\ p \in Procs /\ rest \in [Queues -> Seq(Procs)]
        /\ \A r \in Queues : \A s : In(s, queue[r]) => s = p \/ In(s, rest[r])
    BY Zenon, <1>2, PoppedKeeps
  <1>4. pri \in Queues
    BY Zenon, <1>1, <1>3
  <1>5. /\ queue' = [rest EXCEPT ![pri] = <<p>> \o @]
        /\ status_queue' = [status_queue EXCEPT ![p] = 1]
        /\ cur' = [cur EXCEPT ![c] = p]
    BY Zenon, <1>2
  <1> HIDE DEF p, pri, rest
  <1>6. <<p>> \in Seq(Procs) /\ In(p, <<p>>)
    BY <1>3 DEF In
  <1>7. <<p>> \o rest[pri] \in Seq(Procs) /\ In(p, <<p>> \o rest[pri])
        /\ \A s : In(s, rest[pri]) => In(s, <<p>> \o rest[pri])
    <2>1. rest[pri] \in Seq(Procs)
      BY Zenon, <1>3, <1>4
    <2>. QED BY Zenon, <1>6, <2>1, InConcat
  <1>8. /\ queue' \in [Queues -> Seq(Procs)]
        /\ queue'[pri] = <<p>> \o rest[pri]
        /\ \A r \in Queues \ {pri} : queue'[r] = rest[r]
    BY Zenon, <1>3, <1>4, <1>5, <1>7
  <1>9. \A r \in Queues : \A s : In(s, rest[r]) => In(s, queue'[r])
    BY Zenon, <1>7, <1>8
  <1>10. MarkedQueued'
    <2> SUFFICES ASSUME NEW s \in Procs, status_queue'[s] = 1
                 PROVE  Queued(s)'
      BY Zenon DEF MarkedQueued
    <2>1. CASE s = p
      <3>1. In(p, queue'[pri])
        BY Zenon, <1>7, <1>8
      <3>. QED BY Zenon, <1>4, <2>1, <3>1 DEF Queued, In
    <2>2. CASE s # p
      <3>1. status_queue[s] = 1
        BY Zenon, <1>1, <1>3, <1>5, <2>2
      <3>2. Queued(s)
        BY Zenon, <3>1 DEF QueueInv, MarkedQueued
      <3>3. \A r \in Queues : In(s, queue[r]) => In(s, queue'[r])
        BY Zenon, <1>3, <1>9, <2>2
      <3>. QED BY Zenon, <3>2, <3>3, StillQueued
    <2>. QED BY Zenon, <2>1, <2>2
  <1>11. QueueTypes'
    <2>1. status_queue' \in [Procs -> {0, 1}]
      BY Zenon, <1>1, <1>5
    <2>2. /\ spc' = [spc EXCEPT ![c] = "check"] /\ cproc[c] = null
          /\ UNCHANGED <<state, priority_queue_number, cproc>>
      BY Zenon DEF pick, InScheduler
    <2>. QED BY <1>3, <1>5, <1>8, <2>1, <2>2 DEF QueueInv, QueueTypes
  <1>. QED BY Zenon, <1>10, <1>11 DEF QueueInv

\* The process that is popped and not RUNNABLE is unmarked.
LEMMA PickSkipStep ==
  ASSUME QueueInv, NEW c \in CPUs, pick_skip(c)
  PROVE  QueueInv'
  <1>1. status_queue \in [Procs -> {0, 1}]
    BY Zenon DEF QueueInv, QueueTypes
  <1>2. PICK q \in Queues :
          /\ queue[q] # <<>>
          /\ queue' = Popped(q)
          /\ status_queue' = [status_queue EXCEPT ![Head(queue[q])] = 0]
          /\ cur' = [cur EXCEPT ![c] = Head(queue[q])]
          /\ spc' = [spc EXCEPT ![c] = IF queue'[q] = <<>> THEN "check" ELSE "pick"]
    BY Zenon DEF pick_skip, IsFirst
  <1> DEFINE p == Head(queue[q])
  <1>3. /\ p \in Procs /\ queue' \in [Queues -> Seq(Procs)]
        /\ \A r \in Queues : \A s : In(s, queue[r]) => s = p \/ In(s, queue'[r])
    BY Zenon, <1>2, PoppedKeeps
  <1>4. status_queue' = [status_queue EXCEPT ![p] = 0] /\ cur' = [cur EXCEPT ![c] = p]
    BY Zenon, <1>2
  <1>5. PICK l \in {"check", "pick"} : spc' = [spc EXCEPT ![c] = l]
    BY Zenon, <1>2
  <1> HIDE DEF p
  <1>6. /\ status_queue' \in [Procs -> {0, 1}] /\ status_queue'[p] = 0
        /\ \A s \in Procs \ {p} : status_queue'[s] = status_queue[s]
    BY Zenon, <1>1, <1>3, <1>4
  <1>7. MarkedQueued'
    <2> SUFFICES ASSUME NEW s \in Procs, status_queue'[s] = 1
                 PROVE  Queued(s)'
      BY Zenon DEF MarkedQueued
    <2>1. s # p
      <3>1. 0 # 1
        OBVIOUS
      <3>. QED BY Zenon, <1>6, <3>1
    <2>2. Queued(s)
      BY Zenon, <1>6, <2>1 DEF QueueInv, MarkedQueued
    <2>. QED BY Zenon, <1>3, <2>1, <2>2, StillQueued
  <1>8. QueueTypes'
    <2>1. cproc[c] = null /\ UNCHANGED <<state, priority_queue_number, cproc>>
      BY Zenon DEF pick_skip, InScheduler
    <2>. QED BY <1>3, <1>4, <1>5, <1>6, <2>1 DEF QueueInv, QueueTypes
  <1>. QED BY Zenon, <1>7, <1>8 DEF QueueInv

\* At the end of a slice pop() takes an entry off and unmarks its process.
LEMMA DemoteStep ==
  ASSUME QueueInv,
         NEW c \in CPUs, NEW p \in myproc(c), user_timer_demote(c, p)
  PROVE  QueueInv'
  <1>1. /\ queue \in [Queues -> Seq(Procs)] /\ status_queue \in [Procs -> {0, 1}]
        /\ priority_queue_number \in [Procs -> Queues] /\ p \in Procs
        /\ cproc[c] = p
    BY Zenon DEF QueueInv, QueueTypes, myproc
  <1> DEFINE pri == priority_queue_number[p]
  <1>2. pri \in Queues
    BY Zenon, <1>1
  <1>3. /\ state' = [state EXCEPT ![p] = "RUNNABLE"]
        /\ cproc' = [cproc EXCEPT ![c] = null]
        /\ UNCHANGED <<spc, cur>>
        /\ priority_queue_number' = [priority_queue_number EXCEPT ![p] = Demoted(@)]
    BY Zenon DEF user_timer_demote, Leave
  <1>4. Demoted(pri) \in Queues
    BY <1>2, QueueAssumption DEF Demoted, Queues
  <1>5. CASE queue[pri] # <<>>
    <2> DEFINE h == Head(queue[pri])
    <2>1. /\ queue' = [queue EXCEPT ![pri] = Tail(@)]
          /\ status_queue' = [status_queue EXCEPT ![h] = 0, ![p] = 0]
      BY Zenon, <1>5 DEF user_timer_demote
    <2>2. queue[pri] \in Seq(Procs)
      BY Zenon, <1>1, <1>2
    <2>3. /\ h \in Procs /\ Tail(queue[pri]) \in Seq(Procs)
          /\ \A s : In(s, queue[pri]) => s = h \/ In(s, Tail(queue[pri]))
      BY Zenon, <1>5, <2>2, InTail
    <2> HIDE DEF pri, h
    <2>4. /\ queue' \in [Queues -> Seq(Procs)] /\ queue'[pri] = Tail(queue[pri])
          /\ \A r \in Queues \ {pri} : queue'[r] = queue[r]
      BY Zenon, <1>1, <1>2, <2>1, <2>3
    <2>5. /\ status_queue' \in [Procs -> {0, 1}]
          /\ \A s \in Procs : status_queue'[s] = 1 => s # h /\ status_queue[s] = 1
      <3>1. status_queue' \in [Procs -> {0, 1}] /\ status_queue'[h] = 0
            /\ \A s \in Procs : status_queue'[s] = 0 \/ status_queue'[s] = status_queue[s]
        BY Zenon, <1>1, <2>1, <2>3
      <3>2. 0 # 1
        OBVIOUS
      <3>. QED BY Zenon, <3>1, <3>2
    <2>6. MarkedQueued'
      <3> SUFFICES ASSUME NEW s \in Procs, status_queue'[s] = 1
                   PROVE  Queued(s)'
        BY Zenon DEF MarkedQueued
      <3>1. Queued(s) /\ s # h
        BY Zenon, <2>5 DEF QueueInv, MarkedQueued
      <3>2. \A r \in Queues : In(s, queue[r]) => In(s, queue'[r])
        BY Zenon, <2>3, <2>4, <3>1
      <3>. QED BY Zenon, <3>1, <3>2, StillQueued
    <2>7. QueueTypes'
      BY <1>1, <1>3, <1>4, <2>4, <2>5 DEF QueueInv, QueueTypes, States, pri
    <2>. QED BY Zenon, <2>6, <2>7 DEF QueueInv
  <1>6. CASE queue[pri] = <<>>
    <2>1. UNCHANGED <<queue, status_queue>>
      BY Zenon, <1>6 DEF user_timer_demote
    <2>2. QueueTypes'
      BY <1>1, <1>3, <1>4, <2>1 DEF QueueInv, QueueTypes, States
    <2>3. MarkedQueued'
      BY Zenon, <2>1 DEF QueueInv, MarkedQueued, Queued
    <2>. QED BY Zenon, <2>2, <2>3 DEF QueueInv
  <1>. QED BY Zenon, <1>5, <1>6

\* Whatever leaves the queues alone and marks nobody keeps them as they should be.
LEMMA SameQueues ==
  ASSUME QueueInv, QueueTypes', queue' = queue,
         \A p \in Procs : status_queue'[p] = 1 => status_queue[p] = 1
  PROVE  QueueInv'
  BY Zenon DEF QueueInv, MarkedQueued, Queued

\* The other steps of scheduler().
LEMMA SchedulerStep ==
  ASSUME QueueInv, NEW c \in CPUs, pick_empty(c) \/ check(c) \/ switch(c)
  PROVE  QueueInv'
  <1>1. UNCHANGED <<queue, status_queue, priority_queue_number>>
    BY DEF pick_empty, check, switch, pvars
  <1>2. CASE pick_empty(c)
    <2>1. /\ \/ spc' = [spc EXCEPT ![c] = "enqueue"]
             \/ spc' = [spc EXCEPT ![c] = "check"] /\ cur[c] # null
          /\ cproc[c] = null /\ UNCHANGED <<state, cproc, cur>>
      BY <1>2 DEF pick_empty, pvars, InScheduler
    <2>2. QueueTypes'
      BY <1>1, <2>1 DEF QueueInv, QueueTypes
    <2>. QED BY Zenon, <1>1, <2>2, SameQueues
  <1>3. CASE check(c)
    <2>1. /\ UNCHANGED <<state, cproc>> /\ spc[c] = "check" /\ cproc[c] = null
          /\ \/ spc' = [spc EXCEPT ![c] = "switch"] /\ cur' = cur
             \/ spc' = [spc EXCEPT ![c] = "enqueue"] /\ cur' = [cur EXCEPT ![c] = null]
      BY <1>3 DEF check, pvars, InScheduler
    <2>2. QueueTypes'
      BY <1>1, <2>1 DEF QueueInv, QueueTypes
    <2>. QED BY Zenon, <1>1, <2>2, SameQueues
  <1>4. CASE switch(c)
    <2>1. /\ cur[c] \in Procs /\ state' = [state EXCEPT ![cur[c]] = "RUNNING"]
          /\ cproc' = [cproc EXCEPT ![c] = cur[c]]
          /\ spc' = [spc EXCEPT ![c] = "enqueue"] /\ cur' = [cur EXCEPT ![c] = null]
      BY Zenon, <1>4 DEF switch, QueueInv, QueueTypes
    <2>2. QueueTypes'
      BY <1>1, <2>1 DEF QueueInv, QueueTypes, States
    <2>. QED BY Zenon, <1>1, <2>2, SameQueues
  <1>. QED BY Zenon, <1>2, <1>3, <1>4

\* yield() before the end of the slice, sleep() and exit().
LEMMA LeavesStep ==
  ASSUME QueueInv, NEW c \in CPUs, NEW p \in myproc(c),
         NEW s \in {"RUNNABLE", "SLEEPING", "ZOMBIE"}, Leave(c, p, s),
         UNCHANGED <<priority_queue_number, status_queue, queue>>
  PROVE  QueueInv'
  <1>1. /\ p \in Procs /\ state' = [state EXCEPT ![p] = s]
        /\ cproc' = [cproc EXCEPT ![c] = null] /\ UNCHANGED <<spc, cur>>
    BY Zenon DEF Leave, myproc
  <1>2. QueueTypes'
    BY <1>1 DEF QueueInv, QueueTypes, States
  <1>. QED BY Zenon, <1>2, SameQueues

\* fork(), wait() and wakeup() mark nobody.
LEMMA ForkStep ==
  ASSUME QueueInv, NEW t \in Procs,
         (\E c \in CPUs, p \in Procs : fork(c, p, t) \/ wait(c, p, t)) \/ wakeup(t)
  PROVE  QueueInv'
  <1>1. /\ \E s \in States : state' = [state EXCEPT ![t] = s]
        /\ status_queue' = status_queue \/ status_queue' = [status_queue EXCEPT ![t] = 0]
        /\ \/ priority_queue_number' = priority_queue_number
           \/ priority_queue_number' = [priority_queue_number EXCEPT ![t] = 0]
        /\ UNCHANGED <<queue, cproc, spc, cur>>
    BY DEF fork, wait, wakeup, States
  <1>2. 0 \in Queues
    BY QueueAssumption DEF Queues
  <1>3. state' \in [Procs -> States]
    BY Zenon, <1>1 DEF QueueInv, QueueTypes
  <1>4. /\ status_queue' \in [Procs -> {0, 1}]
        /\ \A p \in Procs : status_queue'[p] = 1 => status_queue[p] = 1
    <2>1. status_queue \in [Procs -> {0, 1}]
      BY Zenon DEF QueueInv, QueueTypes
    <2>2. CASE status_queue' = status_queue
      BY Zenon, <2>1, <2>2
    <2>3. CASE status_queue' = [status_queue EXCEPT ![t] = 0]
      <3>1. /\ status_queue' \in [Procs -> {0, 1}]
            /\ \A p \in Procs : status_queue'[p] = 0 \/ status_queue'[p] = status_queue[p]
        BY Zenon, <2>1, <2>3
      <3>2. 0 # 1
        OBVIOUS
      <3>. QED BY Zenon, <3>1, <3>2
    <2>. QED BY Zenon, <1>1, <2>2, <2>3
  <1>5. priority_queue_number' \in [Procs -> Queues]
    <2>1. priority_queue_number \in [Procs -> Queues]
      BY Zenon DEF QueueInv, QueueTypes
    <2>2. CASE priority_queue_number' = priority_queue_number
      BY Zenon, <2>1, <2>2
    <2>3. CASE priority_queue_number' = [priority_queue_number EXCEPT ![t] = 0]
      BY Zenon, <1>2, <2>1, <2>3
    <2>. QED BY Zenon, <1>1, <2>2, <2>3
  <1>6. QueueTypes'
    BY Zenon, <1>1, <1>3, <1>4, <1>5 DEF QueueInv, QueueTypes
  <1>. QED BY Zenon, <1>1, <1>4, <1>6, SameQueues

\* Every step of the schedulers and of the processes keeps the queues.
LEMMA QueueInductive ==
  ASSUME QueueInv, [Next]_vars
  PROVE  QueueInv'
  <1>1. ASSUME NEW c \in CPUs, scheduler(c)
        PROVE  QueueInv'
    BY Zenon, <1>1, EnqueueStep, PickStep, PickSkipStep, SchedulerStep DEF scheduler
  <1>2. ASSUME NEW c \in CPUs, NEW p \in myproc(c),
               timer(c, p) \/ kernel_timer(c, p) \/ sleep(c, p) \/ exit(c, p)
        PROVE  QueueInv'
    <2>1. CASE user_timer_demote(c, p)
      BY Zenon, <2>1, DemoteStep
    <2>2. CASE ~user_timer_demote(c, p)
      <3>1. /\ \E s \in {"RUNNABLE", "SLEEPING", "ZOMBIE"} : Leave(c, p, s)
            /\ UNCHANGED <<priority_queue_number, status_queue, queue>>
        BY <1>2, <2>2 DEF timer, user_timer, kernel_timer, sleep, exit
      <3>. QED BY Zenon, <3>1, LeavesStep
    <2>. QED BY Zenon, <2>1, <2>2
  <1>3. ASSUME NEW c \in CPUs, NEW p \in myproc(c), NEW t \in Procs,
               fork(c, p, t) \/ wait(c, p, t)
        PROVE  QueueInv'
    <2>1. p \in Procs
      BY Zenon DEF myproc
    <2>. QED BY Zenon, <1>3, <2>1, ForkStep
  <1>4. ASSUME NEW t \in Procs, wakeup(t)
        PROVE  QueueInv'
    BY Zenon, <1>4, ForkStep
  <1>5. CASE UNCHANGED vars
    <2>1. UNCHANGED <<state, priority_queue_number, status_queue, queue, cproc, cur, spc>>
      BY Zenon, <1>5 DEF vars
    <2>2. QueueTypes'
      BY Zenon, <2>1 DEF QueueInv, QueueTypes
    <2>. QED BY Zenon, <2>1, <2>2, SameQueues
  <1>. QED BY Zenon, <1>1, <1>2, <1>3, <1>4, <1>5 DEF Next

\* status_queue never hides a RUNNABLE process from the scheduler, for any number of
\* processes and queues, on the one CPU that the Makefile gives QEMU when MLFQ is
\* selected.  The steps of Mlfq are those of one CPU: the queues have no lock.
THEOREM MarkedIsQueued ==
  ASSUME CPUs = {Cpu0}
  PROVE  Spec => []NotForgotten
  <1>1. Init => QueueInv
    BY Zenon, QueueInitial
  <1>2. QueueInv /\ [Next]_vars => QueueInv'
    BY Zenon, QueueInductive
  <1>3. QueueInv => NotForgotten
    BY Zenon DEF QueueInv, MarkedQueued, NotForgotten
  <1>. QED BY <1>1, <1>2, <1>3, PTL DEF Spec

\* On one CPU, what it runs is what is RUNNING, and what the test before the switch
\* found RUNNABLE stays so.
OneInv ==
    /\ spc[Cpu0] = "switch" => state[cur[Cpu0]] = "RUNNABLE"
    /\ \A p \in Procs : state[p] = "RUNNING" <=> cproc[Cpu0] = p

\* On one CPU every step keeps this: only wakeup() can come between test and switch.
LEMMA OneInductive ==
  ASSUME CPUs = {Cpu0}, QueueInv, OneInv, [Next]_vars
  PROVE  OneInv'
  <1> USE DEF OneInv
  <1>a. /\ state \in [Procs -> States] /\ cproc \in [CPUs -> Procs \cup {null}]
        /\ cur \in [CPUs -> Procs \cup {null}]
        /\ spc \in [CPUs -> {"enqueue", "pick", "check", "switch"}]
        /\ spc[Cpu0] \in {"check", "switch"} => cur[Cpu0] \in Procs
        /\ cproc[Cpu0] # null => spc[Cpu0] = "enqueue"
    BY Zenon DEF QueueInv, QueueTypes
  <1>1. ASSUME enqueue(Cpu0) \/ pick(Cpu0) \/ pick_skip(Cpu0) \/ pick_empty(Cpu0)
        PROVE  OneInv'
    <2>1. UNCHANGED <<state, cproc>>
      BY <1>1 DEF enqueue, pick, pick_skip, pick_empty, pvars
    <2>2. PICK l \in {"enqueue", "pick", "check"} : spc' = [spc EXCEPT ![Cpu0] = l]
      BY Zenon, <1>1 DEF enqueue, pick, pick_skip, pick_empty
    <2>3. spc'[Cpu0] # "switch"
      BY <1>a, <2>2
    <2>. QED BY Zenon, <2>1, <2>3
  <1>2. ASSUME check(Cpu0)
        PROVE  OneInv'
    <2>1. UNCHANGED <<state, cproc>>
      BY <1>2 DEF check, pvars
    <2>2. \/ state[cur[Cpu0]] = "RUNNABLE" /\ cur' = cur
          \/ spc' = [spc EXCEPT ![Cpu0] = "enqueue"]
      BY Zenon, <1>2 DEF check
    <2>3. spc'[Cpu0] = "switch" => state[cur[Cpu0]] = "RUNNABLE" /\ cur' = cur
      BY <1>a, <2>2
    <2>. QED BY Zenon, <2>1, <2>3
  <1>3. ASSUME switch(Cpu0)
        PROVE  OneInv'
    <2> DEFINE p == cur[Cpu0]
    <2>1. /\ spc[Cpu0] = "switch" /\ cproc[Cpu0] = null
          /\ state' = [state EXCEPT ![p] = "RUNNING"] /\ cproc' = [cproc EXCEPT ![Cpu0] = p]
          /\ spc' = [spc EXCEPT ![Cpu0] = "enqueue"]
      BY Zenon, <1>3 DEF switch, InScheduler
    <2>2. p \in Procs
      BY Zenon, <1>a, <2>1
    <2> HIDE DEF p
    <2>3. cproc'[Cpu0] = p /\ spc'[Cpu0] = "enqueue" /\ state'[p] = "RUNNING"
          /\ \A r \in Procs \ {p} : state'[r] = state[r]
      BY Zenon, <1>a, <2>1, <2>2
    <2>4. \A r \in Procs : state[r] # "RUNNING"
      BY Zenon, <2>1, NullNoProc
    <2>5. spc'[Cpu0] # "switch"
      BY <2>3
    <2>. QED BY Zenon, <2>3, <2>4, <2>5
  <1>4. ASSUME NEW p \in myproc(Cpu0), NEW s \in {"RUNNABLE", "SLEEPING", "ZOMBIE"},
               Leave(Cpu0, p, s)
        PROVE  OneInv'
    <2>1. /\ p \in Procs /\ cproc[Cpu0] = p /\ state' = [state EXCEPT ![p] = s]
          /\ cproc' = [cproc EXCEPT ![Cpu0] = null] /\ UNCHANGED <<spc, cur>>
      BY Zenon, <1>4 DEF Leave, myproc
    <2>2. cproc'[Cpu0] = null /\ state'[p] = s
          /\ \A r \in Procs \ {p} : state'[r] = state[r]
      BY Zenon, <1>a, <2>1
    <2>3. spc[Cpu0] = "enqueue"
      BY Zenon, <1>a, <2>1, NullNoProc
    <2>4. spc'[Cpu0] # "switch" /\ s # "RUNNING"
      BY <2>1, <2>3
    <2>5. \A r \in Procs : state'[r] # "RUNNING" /\ cproc'[Cpu0] # r
      <3>1. \A r \in Procs \ {p} : state[r] # "RUNNING"
        BY <2>1
      <3>. QED BY <2>2, <2>4, <3>1, NullNoProc
    <2>. QED BY Zenon, <2>4, <2>5
  <1>5. ASSUME NEW t \in Procs, NEW s \in States \ {"RUNNING"}, state' = [state EXCEPT ![t] = s],
               state[t] \notin {"RUNNING", "RUNNABLE"}, UNCHANGED <<cproc, spc, cur>>
        PROVE  OneInv'
    <2>1. state'[t] = s /\ \A r \in Procs \ {t} : state'[r] = state[r]
      BY Zenon, <1>a, <1>5
    <2>2. \A r \in Procs : /\ state'[r] = "RUNNING" <=> state[r] = "RUNNING"
                           /\ state[r] = "RUNNABLE" => state'[r] = "RUNNABLE"
      BY Zenon, <1>5, <2>1
    <2>3. spc[Cpu0] = "switch" => cur[Cpu0] \in Procs
      BY Zenon, <1>a
    <2>. QED BY Zenon, <1>5, <2>2, <2>3
  <1>6. ASSUME NEW t \in Procs,
               (\E c \in CPUs, p \in Procs : fork(c, p, t) \/ wait(c, p, t)) \/ wakeup(t)
        PROVE  OneInv'
    <2>1. \E s \in States \ {"RUNNING"} : state' = [state EXCEPT ![t] = s]
      BY <1>6 DEF fork, wait, wakeup, States
    <2>2. state[t] \notin {"RUNNING", "RUNNABLE"} /\ UNCHANGED <<cproc, spc, cur>>
      BY <1>6 DEF fork, wait, wakeup
    <2>. QED BY Zenon, <1>5, <2>1, <2>2
  <1>7. ASSUME NEW c \in CPUs, NEW p \in myproc(c),
               timer(c, p) \/ kernel_timer(c, p) \/ sleep(c, p) \/ exit(c, p)
        PROVE  OneInv'
    <2>1. \E s \in {"RUNNABLE", "SLEEPING", "ZOMBIE"} : Leave(c, p, s)
      BY <1>7 DEF timer, user_timer, user_timer_demote, kernel_timer, sleep, exit
    <2>2. c = Cpu0
      BY Zenon
    <2>. QED BY Zenon, <1>4, <2>1, <2>2
  <1>8. ASSUME NEW c \in CPUs, scheduler(c)
        PROVE  OneInv'
    <2>1. c = Cpu0
      BY Zenon
    <2>. QED BY Zenon, <1>1, <1>2, <1>3, <1>8, <2>1 DEF scheduler
  <1>9. ASSUME NEW c \in CPUs, NEW p \in myproc(c), NEW t \in Procs,
               fork(c, p, t) \/ wait(c, p, t)
        PROVE  OneInv'
    <2>1. p \in Procs
      BY Zenon DEF myproc
    <2>. QED BY Zenon, <1>6, <1>9, <2>1
  <1>10. ASSUME NEW t \in Procs, wakeup(t)
         PROVE  OneInv'
    BY Zenon, <1>6, <1>10
  <1>11. CASE UNCHANGED vars
    <2>1. UNCHANGED <<state, cproc, spc, cur>>
      BY Zenon, <1>11 DEF vars
    <2>. QED BY Zenon, <2>1
  <1>. QED BY Zenon, <1>7, <1>8, <1>9, <1>10, <1>11 DEF Next

\* On one CPU, the number the Makefile gives QEMU when MLFQ is selected, the missing
\* test under the lock does no harm: a process is RUNNING exactly while that CPU runs
\* it, for any number of processes and queues.
THEOREM MlfqOneCpu ==
  ASSUME CPUs = {Cpu0}
  PROVE  Spec => []TestedOneCpu
  <1>1. Init => QueueInv /\ OneInv
    <2> SUFFICES ASSUME Init
                 PROVE  OneInv
      BY Zenon, QueueInitial
    <2>1. \A p \in Procs : state[p] # "RUNNING" /\ cproc[Cpu0] # p
      BY NullNoProc DEF Init
    <2>2. spc[Cpu0] # "switch"
      BY DEF Init
    <2>. QED BY Zenon, <2>1, <2>2 DEF OneInv
  <1>2. QueueInv /\ OneInv /\ [Next]_vars => QueueInv' /\ OneInv'
    BY Zenon, QueueInductive, OneInductive
  <1>3. OneInv => TestedOneCpu
    BY Zenon DEF OneInv, TestedOneCpu, OneCpu
  <1>. QED BY <1>1, <1>2, <1>3, PTL DEF Spec

=============================================================================
