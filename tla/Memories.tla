------------------------------ MODULE Memories ------------------------------
(***************************************************************************)
(* What the page tables promise user programs: every process has a memory  *)
(* of its own, so many bytes in a sequence of pages.  A call that succeeds *)
(* changes one memory, and just as it says: fork() copies it, sbrk() adds  *)
(* pages of zeroes at its end or cuts it there, exec() replaces it by the  *)
(* image of the program.  A call that fails changes none.                  *)
(***************************************************************************)
EXTENDS Integers, Sequences

CONSTANTS Procs, PGSIZE, Zero, Text, Args, Gone

VARIABLES
    memory,
    call            \* the last call, its arguments and whether it succeeded

PagesFor(sz) == (sz + PGSIZE - 1) \div PGSIZE

Live == {p \in Procs : memory[p] # Gone}

Init == \E p \in Procs :
           memory = [[q \in Procs |-> Gone] EXCEPT ![p] = [sz |-> PGSIZE, pages |-> <<Text>>]]

Becomes(p, mem) == p \in Live /\ memory' = [memory EXCEPT ![p] = mem]

Fork(c) == /\ c.op = "fork" /\ c.p \in Live /\ c.np \notin Live
           /\ memory' = [memory EXCEPT ![c.np] = memory[c.p]]

\* a page that stays, stays as it is
Resized(mem, sz) ==
    [sz |-> sz, pages |-> [i \in 1 .. PagesFor(sz) |-> IF i \in DOMAIN mem.pages THEN mem.pages[i] ELSE Zero]]

\* nothing can be cut from a memory that is smaller
Sbrk(c) == /\ c.op = "sbrk"
           /\ LET mem == memory[c.p]
              IN  Becomes(c.p, IF mem.sz + c.i < 0 THEN mem ELSE Resized(mem, mem.sz + c.i))

Loadable(prog) ==
    /\ prog.read /\ prog.fits
    /\ \A i \in DOMAIN prog.segs : LET seg == prog.segs[i]
                                   IN  seg.readable /\ seg.filesz <= seg.memsz /\ seg.vaddr % PGSIZE = 0

\* The program, a page that guards the stack, and the stack with the arguments: what
\* the file has of a segment is there, and zeroes elsewhere.
Image(prog) ==
    LET segs == {prog.segs[i] : i \in DOMAIN prog.segs}
        ends == {0} \cup {PagesFor(seg.vaddr + seg.memsz) : seg \in segs}
        n == CHOOSE e \in ends : \A f \in ends : f <= e
        Has(seg, i) == i - 1 \in seg.vaddr \div PGSIZE .. PagesFor(seg.vaddr + seg.filesz) - 1
    IN  [sz |-> (n + 2) * PGSIZE,
         pages |-> [i \in 1 .. n |-> IF \E seg \in segs : Has(seg, i) THEN Text ELSE Zero] \o <<Zero, Args>>]

Exec(c) == c.op = "exec" /\ Loadable(c.prog) /\ Becomes(c.p, Image(c.prog))

Store(c) == /\ c.op = "store"
            /\ c.va \div PGSIZE + 1 \in DOMAIN memory[c.p].pages
            /\ Becomes(c.p, [memory[c.p] EXCEPT !.pages[c.va \div PGSIZE + 1] = c.v])

Exit(c) == c.op = "exit" /\ Becomes(c.p, Gone)

\* alarms and sigreturn() use pages of the kernel only
Alarm(c) == c.op = "alarm" /\ c.p \in Live /\ UNCHANGED memory

\* what finds no memory fails, and exec() for many reasons
MayFail(c) == c.op \in {"fork", "exec"} \/ (c.op = "sbrk" /\ c.i > 0)

Does(c) == Fork(c) \/ Sbrk(c) \/ Exec(c) \/ Store(c) \/ Exit(c) \/ Alarm(c)

Next == \/ call'.ok /\ Does(call')
        \/ ~call'.ok /\ MayFail(call') /\ UNCHANGED memory

Spec == Init /\ [][Next]_<<memory, call>>
=============================================================================
