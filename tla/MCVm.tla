-------------------------------- MODULE MCVm --------------------------------
(***************************************************************************)
(* Vm with two processes, 16 virtual pages of 2 bytes behind two levels of *)
(* tables, and programs that exec() accepts and refuses at every point.    *)
(***************************************************************************)
EXTENDS Vm

Seg(vaddr, memsz, filesz, readable) ==
    [vaddr |-> vaddr, memsz |-> memsz, filesz |-> filesz, readable |-> readable]

SmallPrograms ==
    {[argc |-> 1, read |-> TRUE, segs |-> segs, fits |-> TRUE] : segs \in {
        <<>>,
        <<Seg(0, 0, 0, TRUE)>>,
        <<Seg(0, 3, 1, TRUE)>>,
        <<Seg(0, 3, 1, TRUE), Seg(2, 1, 1, TRUE)>>,
        <<Seg(0, 2, 2, TRUE), Seg(1, 2, 1, TRUE)>>,
        <<Seg(62, 3, 1, TRUE)>>,
        <<Seg(0, 1, 1, TRUE), Seg(2, 2, 2, FALSE)>>}}
    \cup {[argc |-> 2, read |-> read, segs |-> <<>>, fits |-> FALSE] : read \in BOOLEAN}

SmallSbrks == {-3, 1, 4}

\* what the state is up to the names of the pages, which kalloc() returns in
\* no particular order
UpToPages ==
    <<[p \in Live |->
         <<proc[p].sz, proc[p].alarm = Null,
           [a \in {b \in 0 .. MAXVA \div PGSIZE - 1 : walk(m, proc[p].pt, b * PGSIZE, FALSE).pt # Null} |->
              LET e == Pte(m, proc[p].pt, a * PGSIZE)
              IN  <<e.leaf, e.u, IF e.leaf /\ e.pa # Null THEN m.data[e.pa] ELSE Junk>>]>>],
      guard, Cardinality(m.free), Cardinality(lost), up, PagesOwnedOnce>>
=============================================================================
