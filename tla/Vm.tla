--------------------------------- MODULE Vm ---------------------------------
(***************************************************************************)
(* Pages and page tables: kernel/kalloc.c, kernel/vm.c and the code that   *)
(* builds and frees address spaces in kernel/proc.c and kernel/exec.c.     *)
(*                                                                         *)
(* A page table belongs to one process, so only the free list is shared,   *)
(* and all that the other CPUs can do to an operation is to exhaust it     *)
(* under its way: an operation is one step, in which kalloc() fails after  *)
(* any number of calls.  The operators below carry the state m of the      *)
(* memory through an operation as the code does.                           *)
(***************************************************************************)
EXTENDS Integers, Sequences, FiniteSets

LOCAL INSTANCE SequencesExt

CONSTANTS
    Procs,
    NPAGES,         \* pages between end and PHYSTOP: 1 .. NPAGES
    LEVELS,         \* levels of a page table, 3 in Sv39
    ENTRIES,        \* entries of a page-table page, 512 in Sv39
    PGSIZE,
    ADDRS,          \* addresses, 2^64: sums are modulo
    Data,           \* contents of a page
    Zero,           \* the contents after memset(0)
    Junk,           \* the contents after memset(1), of a page that is free
    Text,           \* the contents that loadseg() reads from the file
    Args,           \* the contents of a stack with the arguments of exec()
    Programs,       \* what sys_exec() may meet: the number of arguments, whether all can be read
                    \* and fit on the stack; program headers
    Sbrks,          \* arguments of sbrk()
    MaxSz,          \* bound: no sbrk() beyond
    MaxLost,        \* bound: processes freed inside their alarm handlers
    Stores,         \* bound: addresses that programs write to
    initproc

Pages == 1 .. NPAGES
Null == 0
Idx == 0 .. ENTRIES - 1
MAXVA == PGSIZE * ENTRIES ^ LEVELS
TRAMPOLINE == MAXVA - PGSIZE
TRAPFRAME == TRAMPOLINE - PGSIZE

\* a user address space is larger than the memory, so kalloc() fails before a
\* process grows into its trapframe
ASSUME VmAssumption == NPAGES * PGSIZE < TRAPFRAME /\ {Zero, Text, Args} \subseteq Data /\ Junk \notin Data

VARIABLES
    m,              \* free list, page tables, contents; ok until a panic()
    proc,           \* trapframe, trapframe_alarm, pagetable and sz of a process
    guard,          \* history: the pages of the stack guard
    lost,           \* history: alarm frames of processes that are gone
    up,             \* FALSE after the kernel has written through a null pointer
    call            \* history: the last call, its arguments and whether it succeeded

vars == <<m, proc, guard, lost, up, call>>

-----------------------------------------------------------------------------

(* kalloc.c *)

kalloc(s) ==
    IF s.fuel = 0 \/ s.free = {} THEN [s |-> s, pa |-> Null]
    ELSE LET pa == CHOOSE x \in s.free : \A y \in s.free : x <= y
         IN  [s |-> [s EXCEPT !.free = @ \ {pa}, !.fuel = @ - 1], pa |-> pa]

\* a page that is freed twice would be on the list twice
kfree(s, pa) == [s EXCEPT !.free = @ \cup {pa}, !.data[pa] = Junk, !.ok = @ /\ pa \in Pages \ s.free]

panic(s) == [s EXCEPT !.ok = FALSE]

-----------------------------------------------------------------------------

(* vm.c: an entry leads nowhere, to a table or to a page *)

NoPte == [pa |-> Null, leaf |-> FALSE, u |-> FALSE]

Empty == [i \in Idx |-> NoPte]

PX(level, va) == ((va \div PGSIZE) \div ENTRIES ^ level) % ENTRIES

PGROUNDUP(sz) == ((sz + PGSIZE - 1) \div PGSIZE) * PGSIZE

\* the page-table page that has the entry of va, or Null
RECURSIVE walkfrom(_, _, _, _, _)
walkfrom(s, level, pt, va, alloc) ==
    LET e == s.tab[pt][PX(level, va)]
    IN  IF level = 0 THEN [s |-> s, pt |-> pt]
        ELSE IF e # NoPte THEN walkfrom(s, level - 1, e.pa, va, alloc)
        ELSE IF ~alloc THEN [s |-> s, pt |-> Null]
        ELSE LET k == kalloc(s)
             IN  IF k.pa = Null THEN [s |-> k.s, pt |-> Null]
                 ELSE walkfrom([k.s EXCEPT !.tab[k.pa] = Empty,
                                           !.tab[pt][PX(level, va)] = [NoPte EXCEPT !.pa = k.pa]],
                               level - 1, k.pa, va, alloc)

walk(s, pt, va, alloc) ==
    IF va >= MAXVA THEN [s |-> panic(s), pt |-> Null] ELSE walkfrom(s, LEVELS - 1, pt, va, alloc)

\* the entry of va in the page-table page that walk() found
PteIn(s, pt, va) == IF pt = Null THEN NoPte ELSE s.tab[pt][PX(0, va)]

\* the entry of va, or NoPte
Pte(s, pt, va) == PteIn(s, walk(s, pt, va, FALSE).pt, va)

\* mappages() for one page, after its walk() w
MapAt(w, va, pa, u) ==
    IF w.pt = Null THEN [s |-> w.s, ok |-> FALSE]
    ELSE [s |-> [w.s EXCEPT !.tab[w.pt][PX(0, va)] = [pa |-> pa, leaf |-> TRUE, u |-> u],
                            !.ok = @ /\ PteIn(w.s, w.pt, va) = NoPte],
          ok |-> TRUE]

mappages(s, pt, va, pa, u) == MapAt(walk(s, pt, va, TRUE), va, pa, u)

\* uvmunmap() for one page, whose entry e is in the page-table page pt
UnmapAt(s, pt, va, e, do_free) ==
    IF e = NoPte THEN panic(s)
    ELSE [IF do_free THEN kfree(s, e.pa) ELSE s EXCEPT !.tab[pt][PX(0, va)] = NoPte]

UnmapIn(s, pt, va, do_free) == UnmapAt(s, pt, va, PteIn(s, pt, va), do_free)

uvmunmap(s, pt, va, npages, do_free) ==
    LET Unmap(t, i) ==
            LET a == va + (i - 1) * PGSIZE
            IN  UnmapIn(t, walk(t, pt, a, FALSE).pt, a, do_free)
    IN  FoldLeft(Unmap, s, [i \in 1 .. npages |-> i])

uvmdealloc(s, pt, oldsz, newsz) ==
    IF PGROUNDUP(newsz) >= PGROUNDUP(oldsz) THEN s
    ELSE uvmunmap(s, pt, PGROUNDUP(newsz), (PGROUNDUP(oldsz) - PGROUNDUP(newsz)) \div PGSIZE, TRUE)

\* Mutant: the page that could not be mapped is not freed.
Unmapped_leak(s, pa) == s

\* the page that mappages() could not map
Unmapped(s, pa) == kfree(s, pa)

\* Mutant: uvmalloc() without its memset().
Cleared_not(s, pa) == s

\* a page of uvmalloc() is full of zeroes
Cleared(s, pa) == [s EXCEPT !.data[pa] = Zero]

\* the loop of uvmalloc(), at address a: the new size, or 0
RECURSIVE uvmallocfrom(_, _, _, _, _)
uvmallocfrom(s, pt, a, oldsz, newsz) ==
    LET k == kalloc(s)
        p == mappages(Cleared(k.s, k.pa), pt, a, k.pa, TRUE)
    IN  IF a >= newsz THEN [s |-> s, sz |-> newsz]
        ELSE IF k.pa = Null THEN [s |-> uvmdealloc(k.s, pt, a, oldsz), sz |-> 0]
        ELSE IF ~p.ok THEN [s |-> uvmdealloc(Unmapped(p.s, k.pa), pt, a, oldsz), sz |-> 0]
        ELSE uvmallocfrom(p.s, pt, a + PGSIZE, oldsz, newsz)

uvmalloc(s, pt, oldsz, newsz) ==
    IF newsz < oldsz THEN [s |-> s, sz |-> oldsz]
    ELSE uvmallocfrom(s, pt, PGROUNDUP(oldsz), PGROUNDUP(oldsz), newsz)

RECURSIVE freewalk(_, _)
freewalk(s, pt) ==
    LET Free(t, i) ==
            LET e == t.tab[pt][i - 1]
            IN  IF e = NoPte THEN t
                ELSE IF e.leaf THEN panic(t)
                ELSE [freewalk(t, e.pa) EXCEPT !.tab[pt][i - 1] = NoPte]
    IN  kfree(FoldLeft(Free, s, [i \in 1 .. ENTRIES |-> i]), pt)

uvmfree(s, pt, sz) == freewalk(uvmunmap(s, pt, 0, PGROUNDUP(sz) \div PGSIZE, TRUE), pt)

\* the loop of uvmcopy(), at address i
RECURSIVE uvmcopyfrom(_, _, _, _, _)
uvmcopyfrom(s, old, new, i, sz) ==
    LET e == Pte(s, old, i)
        k == kalloc(s)
        p == mappages([k.s EXCEPT !.data[k.pa] = s.data[e.pa]], new, i, k.pa, e.u)
        Fail(t) == [s |-> uvmunmap(t, new, 0, i \div PGSIZE, TRUE), ok |-> FALSE]
    IN  IF i >= sz THEN [s |-> s, ok |-> TRUE]
        ELSE IF e = NoPte THEN [s |-> panic(s), ok |-> FALSE]
        ELSE IF k.pa = Null THEN Fail(k.s)
        ELSE IF ~p.ok THEN Fail(kfree(p.s, k.pa))
        ELSE uvmcopyfrom(p.s, old, new, i + PGSIZE, sz)

uvmclear(s, pt, va) ==
    [s EXCEPT !.tab[walk(s, pt, va, FALSE).pt][PX(0, va)].u = FALSE]

walkaddr(s, pt, va) ==
    IF va >= MAXVA THEN Null
    ELSE LET e == Pte(s, pt, va) IN IF e = NoPte THEN Null ELSE IF e.u THEN e.pa ELSE Null

\* Mutant: the first piece is a whole page, even from its middle.
Piece_page(va, len) == IF PGSIZE > len THEN len ELSE PGSIZE

\* how much of a page copyout() and copyin() take at a time
Piece(va, len) == LET n == PGSIZE - (va % PGSIZE) IN IF n > len THEN len ELSE n

\* the loop of copyout() and copyin(): the bytes it reaches, and whether it is done
RECURSIVE copy(_, _, _, _, _)
copy(s, pt, va, len, done) ==
    LET pa == walkaddr(s, pt, va)
        n == Piece(va, len)
    IN  IF len = 0 THEN [bytes |-> done, ok |-> TRUE]
        ELSE IF pa = Null THEN [bytes |-> done, ok |-> FALSE]
        ELSE copy(s, pt, va - (va % PGSIZE) + PGSIZE, len - n,
                  done \o [i \in 1 .. n |-> <<pa, (va % PGSIZE) + i - 1>>])

\* the loop of copyinstr(), for a string that ends at address nul
RECURSIVE copyinstr(_, _, _, _, _)
copyinstr(s, pt, va, max, nul) ==
    LET n == Piece(va, max)
    IN  IF max = 0 \/ walkaddr(s, pt, va) = Null THEN FALSE
        ELSE IF nul \in va .. va + n - 1 THEN TRUE
        ELSE copyinstr(s, pt, va - (va % PGSIZE) + PGSIZE, max - n, nul)

\* fetchaddr() of a word of size bytes; argstr() is copyinstr()
fetchaddr(s, r, addr, size) ==
    /\ ~(addr >= r.sz \/ addr + size > r.sz)
    /\ copy(s, r.pt, addr, size, <<>>).ok

-----------------------------------------------------------------------------

(* proc.c *)

\* proc_pagetable() after its second mappages(), b, and after its first, a
TrapframeMapped(b, pt) ==
    IF b.ok THEN [s |-> b.s, pt |-> pt]
    ELSE [s |-> uvmfree(uvmunmap(b.s, pt, TRAMPOLINE, 1, FALSE), pt, 0), pt |-> Null]

TrampolineMapped(a, pt, tf) ==
    IF a.ok THEN TrapframeMapped(mappages(a.s, pt, TRAPFRAME, tf, FALSE), pt)
    ELSE [s |-> uvmfree(a.s, pt, 0), pt |-> Null]

proc_pagetable(s, tf) ==
    LET k == kalloc(s)
    IN  IF k.pa = Null THEN [s |-> k.s, pt |-> Null]
        ELSE TrampolineMapped(
                mappages([k.s EXCEPT !.tab[k.pa] = Empty], k.pa, TRAMPOLINE, Null, FALSE), k.pa, tf)

proc_freepagetable(s, pt, sz) ==
    uvmfree(uvmunmap(uvmunmap(s, pt, TRAMPOLINE, 1, FALSE), pt, TRAPFRAME, 1, FALSE), pt, sz)

Unused == [tf |-> Null, alarm |-> Null, pt |-> Null, sz |-> 0]

\* freeproc(), which leaves p->trapframe_alarm alone
freeproc(s, r) ==
    LET t == IF r.tf # Null THEN kfree(s, r.tf) ELSE s
    IN  IF r.pt # Null THEN proc_freepagetable(t, r.pt, r.sz) ELSE t

\* allocproc() after its proc_pagetable(), t
PagetableMade(t, tf) ==
    IF t.pt = Null THEN [s |-> freeproc(t.s, [Unused EXCEPT !.tf = tf]), r |-> Unused]
    ELSE [s |-> t.s, r |-> [Unused EXCEPT !.tf = tf, !.pt = t.pt]]

\* allocproc(): the process, or Unused
allocproc(s) ==
    LET k == kalloc(s)
    IN  IF k.pa = Null THEN [s |-> k.s, r |-> Unused]
        ELSE PagetableMade(proc_pagetable(k.s, k.pa), k.pa)

-----------------------------------------------------------------------------

\* the memory, when n more calls of kalloc() succeed
Fuelled(n) == [m EXCEPT !.fuel = n]

\* the operation on p is over: its memory and its struct proc
Done(s, p, r) == /\ up
                 /\ m' = [s EXCEPT !.fuel = 0]
                 /\ proc' = [proc EXCEPT ![p] = r]

kinit == [free |-> Pages, tab |-> [pa \in Pages |-> Empty], data |-> [pa \in Pages |-> Junk],
          ok |-> TRUE, fuel |-> NPAGES]

uvmfirst(s, pt) == LET k == kalloc(s)
                   IN  mappages([k.s EXCEPT !.data[k.pa] = Text], pt, 0, k.pa, TRUE).s

\* userinit()
Init ==
    /\ \E a \in {allocproc(kinit)} :
          /\ m = [uvmfirst(a.s, a.r.pt) EXCEPT !.fuel = 0]
          /\ proc = [p \in Procs |-> IF p = initproc THEN [a.r EXCEPT !.sz = PGSIZE] ELSE Unused]
    /\ guard = [p \in Procs |-> {}]
    /\ lost = {}
    /\ up = TRUE
    /\ call = [op |-> "init"]

Live == {p \in Procs : proc[p] # Unused}

\* fork() after its uvmcopy(), c, into the process r, and after its allocproc(), a
Copied(p, np, r, c) ==
    IF c.ok THEN /\ Done(c.s, np, [r EXCEPT !.sz = proc[p].sz])
                 /\ guard' = [guard EXCEPT ![np] = guard[p]]
    ELSE Done(freeproc(c.s, r), np, Unused) /\ UNCHANGED guard

Allocated(p, np, a) ==
    IF a.r = Unused THEN Done(a.s, np, Unused) /\ UNCHANGED guard
    ELSE Copied(p, np, a.r, uvmcopyfrom(a.s, proc[p].pt, a.r.pt, 0, proc[p].sz))

fork(p, np, n) ==
    /\ p \in Live /\ np \notin Live
    /\ Allocated(p, np, allocproc(Fuelled(n)))
    /\ call' = [op |-> "fork", p |-> p, np |-> np, ok |-> proc'[np] # Unused]
    /\ UNCHANGED <<lost, up>>

\* sz + n wraps when n takes more than there is, and uvmdealloc() then does nothing
growproc(p, i, n) ==
    LET r == proc[p]
        g == uvmalloc(Fuelled(n), r.pt, r.sz, r.sz + i)
        newsz == r.sz + i
        Returns(ok) == call' = [op |-> "sbrk", p |-> p, i |-> i, ok |-> ok]
    IN  /\ p \in Live
        /\ \/ /\ i > 0 /\ newsz <= MaxSz
              /\ Done(g.s, p, IF g.sz = 0 THEN r ELSE [r EXCEPT !.sz = g.sz])
              /\ Returns(g.sz # 0)
              /\ UNCHANGED guard
           \/ /\ i < 0 /\ newsz >= 0
              /\ Done(uvmdealloc(m, r.pt, r.sz, newsz), p, [r EXCEPT !.sz = newsz])
              /\ Returns(TRUE)
              /\ guard' = [guard EXCEPT ![p] = {pg \in @ : pg * PGSIZE < newsz}]
           \/ /\ i < 0 /\ newsz < 0
              /\ Done(m, p, r)
              /\ Returns(TRUE)
              /\ UNCHANGED guard
        /\ UNCHANGED <<lost, up>>

\* loadseg(): the pages of the file part of a segment
loadseg(s, pt, seg) ==
    LET Load(t, i) ==
            LET pa == walkaddr(t, pt, seg.vaddr + (i - 1) * PGSIZE)
            IN  IF pa = Null THEN panic(t) ELSE [t EXCEPT !.data[pa] = Text]
    IN  FoldLeft(Load, s, [i \in 1 .. PGROUNDUP(seg.filesz) \div PGSIZE |-> i])

\* one turn of exec()'s loop over the program headers, from its uvmalloc(), g
SegmentGrown(pt, st, seg, g) ==
    IF g.sz = 0 THEN [st EXCEPT !.s = g.s, !.ok = FALSE]
    ELSE [s |-> loadseg(g.s, pt, seg), sz |-> g.sz, ok |-> seg.readable]

LoadSegment(pt, st, seg) ==
    IF ~st.ok THEN st
    ELSE LET end == (seg.vaddr + seg.memsz) % ADDRS
         IN  IF seg.memsz < seg.filesz \/ end < seg.vaddr \/ seg.vaddr % PGSIZE # 0
             THEN [st EXCEPT !.ok = FALSE]
             ELSE SegmentGrown(pt, st, seg, uvmalloc(st.s, pt, st.sz, end))

\* exec()'s label bad, for the new page table pt of size sz; old is what exec() leaves
\* alone, the process and its guard page
Bad(s, pt, sz, old) == [old EXCEPT !.s = proc_freepagetable(s, pt, sz)]

\* the arguments on the stack, the last page
Pushed(s, pt, sz) == [s EXCEPT !.data[walkaddr(s, pt, sz - PGSIZE)] = Args]

\* exec() once it has the arguments on the stack, or has not
Stacked(s, pt, sz, fits, old) ==
    IF ~fits THEN Bad(s, pt, sz, old)
    ELSE [s |-> proc_freepagetable(Pushed(s, pt, sz), old.r.pt, old.r.sz),
          r |-> [old.r EXCEPT !.pt = pt, !.sz = sz],
          guard |-> {sz \div PGSIZE - 2},
          ok |-> TRUE]

\* exec() after the uvmalloc(), k, of the stack from base on, and after the loop, l
StackGrown(k, pt, base, prog, old) ==
    IF k.sz = 0 THEN Bad(k.s, pt, base, old)
    ELSE Stacked(uvmclear(k.s, pt, k.sz - 2 * PGSIZE), pt, k.sz, prog.fits, old)

SegmentsLoaded(l, pt, prog, old) ==
    LET base == PGROUNDUP(l.sz)
    IN  IF ~l.ok THEN Bad(l.s, pt, l.sz, old)
        ELSE StackGrown(uvmalloc(l.s, pt, base, base + 2 * PGSIZE), pt, base, prog, old)

\* exec() of a file that starts with an ELF header, after its proc_pagetable(), t
ExecInto(t, prog, old) ==
    LET Load(st, seg) == LoadSegment(t.pt, st, seg)
    IN  IF t.pt = Null THEN [old EXCEPT !.s = t.s]
        ELSE SegmentsLoaded(FoldLeft(Load, [s |-> t.s, sz |-> 0, ok |-> TRUE], prog.segs),
                            t.pt, prog, old)

exec(s, prog, old) == ExecInto(proc_pagetable(s, old.r.tf), prog, old)

\* sys_exec() copies every argument to a page of its own, and frees them all
\* whether it fails, exec() fails or not
sys_exec(p, prog, n) ==
    LET Arg(a, i) == LET k == kalloc(a.s)
                     IN  IF k.pa = Null THEN [a EXCEPT !.ok = FALSE]
                         ELSE [a EXCEPT !.s = k.s, !.argv = Append(@, k.pa)]
        a == FoldLeft(Arg, [s |-> Fuelled(n), argv |-> <<>>, ok |-> prog.read],
                      [i \in 1 .. prog.argc |-> i])
        old == [s |-> a.s, r |-> proc[p], guard |-> guard[p], ok |-> FALSE]
    IN  /\ p \in Live
        /\ \E e \in {IF a.ok THEN exec(a.s, prog, old) ELSE old} :
              /\ Done(FoldLeft(kfree, e.s, a.argv), p, e.r)
              /\ guard' = [guard EXCEPT ![p] = e.guard]
              /\ call' = [op |-> "exec", p |-> p, prog |-> prog, ok |-> e.ok]
        /\ UNCHANGED <<lost, up>>

\* usertrap() starts the handler of an alarm: kalloc()'s result is not checked
alarm(p, n) ==
    LET k == kalloc(Fuelled(n))
    IN  /\ p \in Live /\ proc[p].alarm = Null /\ Cardinality(lost) < MaxLost
        /\ Done([k.s EXCEPT !.data = IF k.pa = Null THEN @ ELSE [@ EXCEPT ![k.pa] = Zero]],
                p, [proc[p] EXCEPT !.alarm = k.pa])
        /\ up' = (k.pa # Null)
        /\ call' = [op |-> "alarm", p |-> p, ok |-> TRUE]
        /\ UNCHANGED <<guard, lost>>

sys_sigreturn(p) ==
    /\ p \in Live /\ proc[p].alarm # Null
    /\ Done(kfree(m, proc[p].alarm), p, [proc[p] EXCEPT !.alarm = Null])
    /\ call' = [op |-> "alarm", p |-> p, ok |-> TRUE]
    /\ UNCHANGED <<guard, lost, up>>

\* wait() or waitx() of the parent, after exit()
wait(p) ==
    /\ p \in Live \ {initproc}
    /\ Done(freeproc(m, proc[p]), p, Unused)
    /\ guard' = [guard EXCEPT ![p] = {}]
    /\ lost' = lost \cup ({proc[p].alarm} \ {Null})
    /\ call' = [op |-> "exit", p |-> p, ok |-> TRUE]
    /\ UNCHANGED up

\* the program, or copyout() for it, writes to a page of its own
store(p, va, v) ==
    /\ p \in Live /\ walkaddr(m, proc[p].pt, va) # Null
    /\ Done([m EXCEPT !.data[walkaddr(m, proc[p].pt, va)] = v], p, proc[p])
    /\ call' = [op |-> "store", p |-> p, va |-> va, v |-> v, ok |-> TRUE]
    /\ UNCHANGED <<guard, lost, up>>

\* how many calls of kalloc() succeed before the others have taken all pages
Fuel == 0 .. Cardinality(m.free)

Next ==
    \E p \in Procs :
       \/ \E np \in Procs, n \in Fuel : fork(p, np, n)
       \/ \E i \in Sbrks, n \in Fuel : growproc(p, i, n)
       \/ \E prog \in Programs, n \in Fuel : sys_exec(p, prog, n)
       \/ \E n \in {0, 1} : alarm(p, n)
       \/ sys_sigreturn(p)
       \/ wait(p)
       \/ \E va \in Stores, v \in Data : store(p, va, v)

Spec == Init /\ [][Next]_vars

-----------------------------------------------------------------------------

\* the user pages of p, by page number
UserPages(p) == 0 .. (PGROUNDUP(proc[p].sz) \div PGSIZE) - 1

PageOf(p, i) == Pte(m, proc[p].pt, i * PGSIZE).pa

\* the page-table pages from pt down
RECURSIVE TablesOf(_, _)
TablesOf(pt, level) ==
    {pt} \cup (IF level = 0 THEN {}
               ELSE UNION {TablesOf(m.tab[pt][i].pa, level - 1) : i \in {j \in Idx : m.tab[pt][j] # NoPte}})

\* Every page of the machine is on the free list, or is a page-table page, a
\* user page, a trapframe or an alarm frame of exactly one process, or the alarm
\* frame of a process that was freed inside its handler; no process maps
\* anything else, and no panic() of vm.c is reached: for uvmalloc(), uvmcopy(),
\* fork() and exec() that fail at any allocation (vm.c:224-249, 306-333,
\* exec.c:126-134).
PagesOwnedOnce ==
    LET Uses(p) == {<<p, "tf", 0, proc[p].tf>>}
                   \cup {<<p, "alarm", 0, pa>> : pa \in {proc[p].alarm} \ {Null}}
                   \cup {<<p, "tab", 0, pt>> : pt \in TablesOf(proc[p].pt, LEVELS - 1)}
                   \cup {<<p, "user", i, PageOf(p, i)>> : i \in UserPages(p)}
        uses == UNION {Uses(p) : p \in Live}
        used == {u[4] : u \in uses}
    IN  /\ m.ok
        /\ \A p \in Live : \A a \in 0 .. (MAXVA \div PGSIZE) - 1 :
              Pte(m, proc[p].pt, a * PGSIZE).leaf
                 <=> a \in UserPages(p) \cup {TRAPFRAME \div PGSIZE, TRAMPOLINE \div PGSIZE}
        /\ \A p \in Live : Pte(m, proc[p].pt, TRAPFRAME).pa = proc[p].tf
        /\ Cardinality(uses) = Cardinality(used)
        /\ used \cap (m.free \cup lost) = {} /\ m.free \cap lost = {}
        /\ used \cup m.free \cup lost = Pages

\* copyout(), copyin(), copyinstr() and fetchaddr() reach the bytes asked for, in order, up to
\* the first that is not in the program's own memory, its stack guard, its
\* trapframe and the trampoline being no part of that (vm.c:351-439).
CopyExact ==
    \A p \in Live, va \in (0 .. MaxSz + 1) \cup (TRAPFRAME - 1 .. MAXVA), len \in 0 .. PGSIZE + 1 :
       LET In(a) == a \div PGSIZE \in UserPages(p) \ guard[p]
           good == CHOOSE k \in 0 .. len : /\ \A j \in 0 .. k - 1 : In(va + j)
                                           /\ k = len \/ ~In(va + k)
           c == copy(m, proc[p].pt, va, len, <<>>)
       IN  /\ c.ok <=> good = len
           /\ c.bytes = [j \in 1 .. good |-> <<PageOf(p, (va + j - 1) \div PGSIZE), (va + j - 1) % PGSIZE>>]
           /\ \A nul \in {va + PGSIZE - 1, va + PGSIZE} :
                 copyinstr(m, proc[p].pt, va, len, nul) <=> nul - va < good
           /\ fetchaddr(m, proc[p], va, len) <=> good = len /\ va < proc[p].sz /\ va + len <= proc[p].sz

\* stands for the memory of a process that does not exist
Gone == [sz |-> 0, pages |-> <<Junk>>]

Memory == INSTANCE Memories WITH
    memory <- [p \in Procs |->
                 IF p \in Live
                 THEN [sz |-> proc[p].sz,
                       pages |-> [i \in 1 .. Cardinality(UserPages(p)) |-> m.data[PageOf(p, i - 1)]]]
                 ELSE Gone]

\* Behind the page tables every process has a memory of its own, and a call does to
\* it what it reports: fork() copies it, sbrk() appends pages of zeroes or cuts it,
\* exec() replaces it by the image of that program, all when they succeed and
\* none when they fail, at any allocation; nothing that another process does is
\* seen in it (vm.c:224-333, proc.c:377-467, exec.c:22-141).
PrivateMemory == Memory!Spec
=============================================================================
