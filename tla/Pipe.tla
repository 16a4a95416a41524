-------------------------------- MODULE Pipe --------------------------------
(***************************************************************************)
(* Pipes: kernel/pipe.c.  Every operation runs under pi->lock, which it    *)
(* gives up only in sleep(), so a step is one critical section: what a     *)
(* process does between acquire(), sleep() and release().  kill() takes no *)
(* pi->lock and may therefore land inside a critical section.  The bytes   *)
(* written to a pipe are numbered: the byte at position n of the stream is *)
(* n, modulo the wrap of the counters.                                     *)
(***************************************************************************)
EXTENDS Naturals, Sequences, FiniteSets

CONSTANTS
    Procs,
    Pipes,          \* pages that kalloc() hands out for pipes
    PIPESIZE,
    Wrap,           \* nread and nwrite are uints: they wrap at Wrap
    Sizes           \* bound: the byte counts of read() and write()

ASSUME WrapAssumption ==
    PIPESIZE \in Nat /\ PIPESIZE > 0 /\ Wrap \in Nat /\ Wrap % PIPESIZE = 0 /\ Wrap > PIPESIZE

ASSUME PipesAssumption == Pipes # {} /\ Sizes \subseteq Nat

VARIABLES
    pipe,           \* the pipes: struct pipe, and whether the page is allocated
    pc,             \* where a process is
    cur,            \* the pipe a process reads or writes
    left,           \* bytes it still has to transfer
    killed,
    cut             \* history: pipes with a write that a kill cut short

pipevars == <<pipe, pc, cur, left, killed, cut>>

Fresh == [alloc |-> FALSE, nread |-> 0, nwrite |-> 0, readopen |-> FALSE,
          writeopen |-> FALSE, data |-> [k \in 0 .. PIPESIZE - 1 |-> Wrap]]

PipeInit ==
    /\ pipe = [pi \in Pipes |-> Fresh]
    /\ cur = [p \in Procs |-> CHOOSE pi \in Pipes : TRUE]
    /\ left = [p \in Procs |-> 0]
    /\ killed = [p \in Procs |-> FALSE]
    /\ cut = {}

Goto(p, l) == pc' = [pc EXCEPT ![p] = l]

\* wakeup() of the processes asleep at label l on pipe pi; p goes on to m
WakeGoto(pi, l, p, m) ==
    pc' = [q \in Procs |-> IF q = p THEN m
                           ELSE IF pc[q] = l /\ cur[q] = pi
                                THEN IF l = "rsleep" THEN "read" ELSE "write"
                                ELSE pc[q]]

Used(pi) == (pipe[pi].nwrite + Wrap - pipe[pi].nread) % Wrap

\* Mutant: one byte too many.
Full_late(r) == r.nwrite = (r.nread + PIPESIZE + 1) % Wrap

Full(r) == r.nwrite = (r.nread + PIPESIZE) % Wrap

Empty(pi) == pipe[pi].nread = pipe[pi].nwrite

\* pi->data after n times pi->data[pi->nwrite++ % PIPESIZE] = ch: the last byte
\* stored in a place stays there
Put(r, n) ==
    [c \in 0 .. PIPESIZE - 1 |->
       LET here == {i \in 0 .. n - 1 : ((r.nwrite + i) % Wrap) % PIPESIZE = c}
       IN  IF here = {} THEN r.data[c]
           ELSE (r.nwrite + CHOOSE i \in here : \A j \in here : j <= i) % Wrap]

\* the pipe after pipewrite()'s loop stored n bytes
After(pi, n) ==
    [pipe[pi] EXCEPT !.data = Put(pipe[pi], n), !.nwrite = (@ + n) % Wrap]

\* how many bytes the loop of process p may store before it ends or the pipe is full
Chunks(p) == {n \in 0 .. left[p] : \A k \in 0 .. n - 1 : ~Full(After(cur[p], k))}

Store(pi, n) == pipe' = [pipe EXCEPT ![pi] = After(pi, n)]

-----------------------------------------------------------------------------

\* The write ends: all bytes are stored, or copyin() fails after some of them.
pipewrite_done(p) ==
    /\ pc[p] = "write"
    /\ \E n \in Chunks(p) :
          /\ left[p] > 0 => pipe[cur[p]].readopen /\ ~killed[p]
          /\ n < left[p] => ~Full(After(cur[p], n))
          /\ Store(cur[p], n)
    /\ WakeGoto(cur[p], "rsleep", p, "user")
    /\ left' = [left EXCEPT ![p] = 0]
    /\ UNCHANGED <<cur, killed, cut>>

\* Mutant: the sleeping writer leaves the readers asleep.
pipewrite_full_quiet(p) ==
    /\ pc[p] = "write" /\ pipe[cur[p]].readopen /\ ~killed[p]
    /\ \E n \in Chunks(p) :
          /\ n < left[p] /\ Full(After(cur[p], n))
          /\ Store(cur[p], n)
          /\ left' = [left EXCEPT ![p] = @ - n]
    /\ Goto(p, "wsleep")
    /\ \E k \in BOOLEAN : killed' = [killed EXCEPT ![p] = k]
    /\ UNCHANGED <<cur, cut>>

\* The pipe fills up first: wake the readers and sleep.  A kill() that lands
\* after the test of killed() finds the process not asleep yet.
pipewrite_full(p) ==
    /\ pc[p] = "write" /\ pipe[cur[p]].readopen /\ ~killed[p]
    /\ \E n \in Chunks(p) :
          /\ n < left[p] /\ Full(After(cur[p], n))
          /\ Store(cur[p], n)
          /\ left' = [left EXCEPT ![p] = @ - n]
    /\ WakeGoto(cur[p], "rsleep", p, "wsleep")
    /\ \E k \in BOOLEAN : killed' = [killed EXCEPT ![p] = k]
    /\ UNCHANGED <<cur, cut>>

\* No reader is left, or the process is killed, before or in the middle of the
\* loop: return -1, without a wakeup.
pipewrite_fail(p) ==
    /\ pc[p] = "write" /\ left[p] > 0
    /\ \E n \in Chunks(p) :
          /\ n < left[p]
          /\ \/ n = 0 /\ (killed[p] \/ ~pipe[cur[p]].readopen) /\ UNCHANGED <<killed, cut>>
             \/ /\ n > 0 /\ ~killed[p] /\ pipe[cur[p]].readopen
                /\ killed' = [killed EXCEPT ![p] = TRUE]
                /\ cut' = cut \cup {cur[p]}
          /\ Store(cur[p], n)
    /\ Goto(p, "user")
    /\ left' = [left EXCEPT ![p] = 0]
    /\ UNCHANGED cur

piperead_wait(p) ==
    /\ pc[p] = "read"
    /\ Empty(cur[p]) /\ pipe[cur[p]].writeopen
    /\ \/ killed[p] /\ Goto(p, "user") /\ UNCHANGED killed
       \/ /\ ~killed[p] /\ Goto(p, "rsleep")
          /\ \E k \in BOOLEAN : killed' = [killed EXCEPT ![p] = k]
    /\ UNCHANGED <<pipe, cur, left, cut>>

\* Take what there is, at most left[p] bytes; copyout() may fail on a byte
\* that is already taken.
piperead_copy(p) ==
    /\ pc[p] = "read"
    /\ ~Empty(cur[p]) \/ ~pipe[cur[p]].writeopen
    /\ \E k \in 0 .. left[p] :
          /\ k <= Used(cur[p])
          /\ k = 0 => left[p] = 0 \/ Empty(cur[p])
          /\ pipe' = [pipe EXCEPT ![cur[p]].nread = (@ + k) % Wrap]
    /\ WakeGoto(cur[p], "wsleep", p, "user")
    /\ left' = [left EXCEPT ![p] = 0]
    /\ UNCHANGED <<cur, killed, cut>>

\* kill(): a sleeping process runs on and finds p->killed set
kill(p) ==
    /\ ~killed[p] /\ pc[p] # "none"
    /\ killed' = [killed EXCEPT ![p] = TRUE]
    /\ Goto(p, CASE pc[p] = "rsleep" -> "read" [] pc[p] = "wsleep" -> "write" [] OTHER -> pc[p])
    /\ UNCHANGED <<pipe, cur, left, cut>>

\* pipeclose(): one end is closed for good; the page is freed with the second
pipeclose(p, pi, writable, l) ==
    LET r == [pipe[pi] EXCEPT !.writeopen = @ /\ ~writable, !.readopen = @ /\ writable]
    IN  /\ pipe' = [pipe EXCEPT ![pi] = IF r.readopen \/ r.writeopen THEN r ELSE Fresh]
        /\ WakeGoto(pi, IF writable THEN "rsleep" ELSE "wsleep", p, l)
        /\ cut' = IF r.readopen \/ r.writeopen THEN cut ELSE cut \ {pi}
        /\ UNCHANGED <<cur, left, killed>>

PipeStep(p) ==
    \/ pipewrite_done(p)
    \/ pipewrite_full(p)
    \/ pipewrite_fail(p)
    \/ piperead_wait(p)
    \/ piperead_copy(p)
    \/ kill(p)
=============================================================================
