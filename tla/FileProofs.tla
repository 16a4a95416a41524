----------------------------- MODULE FileProofs -----------------------------
(***************************************************************************)
(* Proofs about File and the pipes below it: the reference counts of the   *)
(* file table are exact, a pipe's ends and page live exactly as long as    *)
(* they are referred to, the ring is a queue across the wrap of both       *)
(* counters, and nobody sleeps on a pipe that could serve it.              *)
(***************************************************************************)
EXTENDS FileLemmas

(* Steps inside a pipe *)

\* The pipe's steps leave the file table alone.
LEMMA PipeStepKeeps ==
    ASSUME IInv, NEW p \in Procs, PipeStep(p), UNCHANGED filevars
    PROVE  IInv'
  <1>1. PipesInv' /\ SameEnds /\ CallsGoOn /\ cur' = cur
    BY PipeStepFrame, Zenon DEF IInv
  <1>2. RingIsStream' /\ SleepersMustWait'
    BY PipeStepRing, PipeStepSleep, Zenon DEF IInv
  <1>3. file' = file /\ ofile' = ofile /\ work' = work /\ pend' = pend
    BY Zenon DEF filevars
  <1>4. FilesInv' /\ EndInv'
    BY <1>3, Zenon DEF IInv, TableInv, FilesInv, EndInv
  <1>5. RefsCounted'
    BY <1>3, Zenon DEF IInv, TableInv, RefsCounted, FdRefs, WorkRefs
  <1>6. EndsOpen'
    <2>1. \A pi, w : Refers(pi, w)' <=> Refers(pi, w)
      BY <1>3, Zenon DEF Refers
    <2>. QED BY <1>1, <2>1, Zenon DEF IInv, EndsOpen, SameEnds
  <1>7. ASSUME NEW q \in Procs
        PROVE  \/ pc'[q] = pc[q]
               \/ /\ pc[q] \in {"read", "write", "rsleep", "wsleep"}
                  /\ pc'[q] \in {"user", "read", "write", "rsleep", "wsleep"}
    BY <1>1, Zenon DEF CallsGoOn, InCall
  <1>8. HoldInv' /\ WorkInv'
    <2>1. HoldInv /\ WorkInv
      BY Zenon DEF IInv, TableInv
    <2>. QED BY <1>3, <1>7, <2>1 DEF HoldInv, WorkInv
  <1>9. CallInv'
    <2>1. \A q \in Procs : InCall(q)' => InCall(q)
      BY <1>7 DEF InCall
    <2>. QED BY <1>1, <1>3, <2>1, Zenon DEF IInv, TableInv, CallInv
  <1>. QED BY <1>1, <1>2, <1>4, <1>5, <1>6, <1>8, <1>9, Zenon DEF IInv, TableInv

-----------------------------------------------------------------------------

(* Steps of the file table *)

\* exit() begins
LEMMA ExitKeeps ==
    ASSUME IInv, NEW p \in Procs, exit(p)
    PROVE  IInv'
  <1>1. /\ pc[p] = "user" /\ pc' = [pc EXCEPT ![p] = "exit"]
        /\ pipe' = pipe /\ cur' = cur /\ left' = left /\ killed' = killed /\ cut' = cut
        /\ file' = file /\ ofile' = ofile /\ work' = work /\ pend' = pend
    BY Zenon DEF exit, Goto, filevars
  <1>2. pc \in [Procs -> Places] /\ pc'[p] = "exit" /\ \A q \in Procs \ {p} : pc'[q] = pc[q]
    BY <1>1 DEF IInv, PipesInv
  <1>3. PipesInv'
    BY <1>1, <1>2 DEF IInv, PipesInv, Places
  <1>4. FilesInv' /\ EndInv' /\ RefsCounted'
    BY <1>1, SameRefs, Zenon DEF IInv, TableInv, FilesInv, EndInv
  <1>5. HoldInv' /\ WorkInv' /\ CallInv'
    <2>1. HoldInv /\ WorkInv /\ CallInv
      BY Zenon DEF IInv, TableInv
    <2>2. HoldInv'
      BY <1>1, <1>2, <2>1 DEF HoldInv
    <2>3. WorkInv'
      BY <1>1, <1>2, <2>1 DEF WorkInv
    <2>4. \A q \in Procs : InCall(q)' => InCall(q)
      BY <1>2 DEF InCall
    <2>. QED BY <1>1, <2>1, <2>2, <2>3, <2>4, Zenon DEF CallInv
  <1>6. EndsOpen'
    BY <1>1, Zenon DEF IInv, EndsOpen, Refers
  <1>7. RingIsStream' /\ SleepersMustWait'
    BY <1>1, <1>2, QuietPipes DEF IInv
  <1>. QED BY <1>3, <1>4, <1>5, <1>6, <1>7, Zenon DEF IInv, TableInv

\* pipealloc() fails
LEMMA BadKeeps ==
    ASSUME IInv, NEW p \in Procs, pipealloc_bad(p)
    PROVE  IInv'
  <1>1. /\ pc[p] \in {"pipe1", "pipe2"} /\ pc' = [pc EXCEPT ![p] = "close"]
        /\ pipe' = pipe /\ cur' = cur /\ left' = left /\ killed' = killed /\ cut' = cut
        /\ file' = file /\ ofile' = ofile /\ work' = work /\ pend' = pend
    BY Zenon DEF pipealloc_bad, Goto, filevars
  <1>2. pc \in [Procs -> Places] /\ pc'[p] = "close" /\ \A q \in Procs \ {p} : pc'[q] = pc[q]
    BY <1>1 DEF IInv, PipesInv
  <1>3. PipesInv'
    BY <1>1, <1>2 DEF IInv, PipesInv, Places
  <1>4. FilesInv' /\ EndInv' /\ RefsCounted'
    BY <1>1, SameRefs, Zenon DEF IInv, TableInv, FilesInv, EndInv
  <1>5. HoldInv' /\ WorkInv' /\ CallInv'
    <2>1. HoldInv /\ WorkInv /\ CallInv
      BY Zenon DEF IInv, TableInv
    <2>2. HoldInv'
      BY <1>1, <1>2, <2>1 DEF HoldInv
    <2>3. WorkInv'
      BY <1>1, <1>2, <2>1 DEF WorkInv
    <2>4. \A q \in Procs : InCall(q)' => InCall(q)
      BY <1>2 DEF InCall
    <2>. QED BY <1>1, <2>1, <2>2, <2>3, <2>4, Zenon DEF CallInv
  <1>6. EndsOpen'
    BY <1>1, Zenon DEF IInv, EndsOpen, Refers
  <1>7. RingIsStream' /\ SleepersMustWait'
    BY <1>1, <1>2, QuietPipes DEF IInv
  <1>. QED BY <1>3, <1>4, <1>5, <1>6, <1>7, Zenon DEF IInv, TableInv

\* read() or write() of a descriptor enters the pipe.
LEMMA CallKeeps ==
    ASSUME IInv, NEW p \in Procs, sys_read(p) \/ sys_write(p)
    PROVE  IInv'
  <1>1. PICK fd \in argfd(p), n \in Sizes, l \in {"read", "write"} :
           /\ cur' = [cur EXCEPT ![p] = file[ofile[p][fd]].end[1]]
           /\ left' = [left EXCEPT ![p] = n]
           /\ pc' = [pc EXCEPT ![p] = l]
    BY Zenon DEF sys_read, sys_write, fileread, filewrite, Goto
  <1>2. /\ pc[p] = "user" /\ pipe' = pipe /\ killed' = killed /\ cut' = cut
        /\ file' = file /\ ofile' = ofile /\ work' = work /\ pend' = pend
    BY Zenon DEF sys_read, sys_write, Calls, filevars
  <1>3. fd \in Fds /\ ofile[p][fd] # NoFile
    BY Zenon DEF argfd
  <1>4. PICK pi \in Pipes : pi = file[ofile[p][fd]].end[1]
    <2>1. file[ofile[p][fd]].end \in Ends
      BY <1>3, Descriptor, Zenon DEF IInv, TableInv
    <2>. QED BY <2>1 DEF Ends
  <1>5. pc \in [Procs -> Places] /\ pc'[p] = l /\ \A q \in Procs \ {p} : pc'[q] = pc[q]
    BY <1>1 DEF IInv, PipesInv
  <1>6. cur' \in [Procs -> Pipes] /\ cur'[p] = pi /\ \A q \in Procs \ {p} : cur'[q] = cur[q]
    BY <1>1, <1>4 DEF IInv, PipesInv
  <1>7. PipesInv'
    <2>1. n \in Nat
      BY PipesAssumption
    <2>2. left' \in [Procs -> Nat] /\ pc' \in [Procs -> Places]
      BY <1>1, <2>1, <1>5 DEF IInv, PipesInv, Places
    <2>. QED BY <1>2, <1>6, <2>2, Zenon DEF IInv, PipesInv
  <1>8. FilesInv' /\ EndInv' /\ RefsCounted'
    BY <1>2, SameRefs, Zenon DEF IInv, TableInv, FilesInv, EndInv
  <1>9. HoldInv' /\ WorkInv'
    <2>1. HoldInv /\ WorkInv
      BY Zenon DEF IInv, TableInv
    <2>2. HoldInv'
      BY <1>2, <1>5, <2>1 DEF HoldInv
    <2>. QED BY <1>2, <1>5, <2>1, <2>2 DEF WorkInv
  <1>10. CallInv'
    <2>1. ASSUME NEW q \in Procs, InCall(q)'
          PROVE  \E e \in Fds : ofile'[q][e] # NoFile /\ file'[ofile'[q][e]].end[1] = cur'[q]
      <3>1. CASE q = p
        BY <1>2, <1>3, <1>4, <1>6, <3>1, Zenon
      <3>2. CASE q # p
        <4>1. InCall(q)
          BY <1>5, <2>1, <3>2 DEF InCall
        <4>. QED BY <1>2, <1>6, <3>2, <4>1, Zenon DEF IInv, TableInv, CallInv
      <3>. QED BY <3>1, <3>2
    <2>. QED BY <2>1, Zenon DEF CallInv
  <1>11. EndsOpen'
    BY <1>2, Zenon DEF IInv, EndsOpen, Refers
  <1>12. RingIsStream' /\ SleepersMustWait'
    BY <1>2, <1>5, <1>6, QuietPipes DEF IInv
  <1>. QED BY <1>7, <1>8, <1>9, <1>10, <1>11, <1>12, Zenon DEF IInv, TableInv

\* filealloc() for sys_pipe(): the first or the second file
LEMMA FileallocKeeps ==
    ASSUME IInv, NEW p \in Procs, sys_pipe(p) \/ pipealloc_second(p)
    PROVE  IInv'
  <1>1. PICK l, m : /\ (l = "user" /\ m = "pipe1") \/ (l = "pipe1" /\ m = "pipe2")
                    /\ filealloc(p, l, m)
    BY Zenon DEF sys_pipe, pipealloc_second
  <1>2. PICK f \in Files : /\ file[f].ref = 0
                           /\ file' = [file EXCEPT ![f].ref = 1]
                           /\ work' = [work EXCEPT ![p] = Append(@, f)]
    BY <1>1, Zenon DEF filealloc
  <1>3. /\ pc[p] = l /\ pc' = [pc EXCEPT ![p] = m] /\ pipe' = pipe /\ cur' = cur /\ left' = left
        /\ killed' = killed /\ cut' = cut /\ ofile' = ofile /\ pend' = pend
    BY <1>1, Zenon DEF filealloc, Goto
  <1>4. pc \in [Procs -> Places] /\ pc'[p] = m /\ \A q \in Procs \ {p} : pc'[q] = pc[q]
    BY <1>3 DEF IInv, PipesInv
  <1>5. PipesInv'
    BY <1>1, <1>3, <1>4 DEF IInv, PipesInv, Places
  <1>6. /\ work[p] \in Seq(Files) /\ work'[p] = Append(work[p], f)
        /\ \A q \in Procs \ {p} : work'[q] = work[q]
        /\ work' \in [Procs -> Seq(Files)]
    BY <1>2 DEF IInv, TableInv, FilesInv
  <1>7. PICK z \in 1 .. 2 : z = Len(work[p]) + 1 /\ (l = "user" <=> z = 1)
    <2>1. (l = "user" => work[p] = <<>>) /\ (l = "pipe1" => Len(work[p]) = 1)
      BY <1>3 DEF IInv, TableInv, HoldInv
    <2>2. CASE l = "user"
      <3>1. Len(work[p]) = 0
        BY <2>1, <2>2
      <3>. QED BY <2>2, <3>1
    <2>3. CASE l = "pipe1"
      <3>1. Len(work[p]) = 1 /\ l # "user"
        BY <2>1, <2>3
      <3>. QED BY <3>1
    <2>. QED BY <1>1, <2>2, <2>3
  <1>8. /\ file'[f].ref = 1 /\ file'[f].end = FD_NONE /\ file[f].end = FD_NONE
        /\ \A g \in Files : file'[g].end = file[g].end
        /\ \A g \in Files \ {f} : file'[g] = file[g]
        /\ file' \in [Files -> [ref : Nat, end : Ends \cup {FD_NONE}]]
    BY <1>2 DEF IInv, TableInv, FilesInv, EndInv
  <1>9. FilesInv'
    BY <1>3, <1>6, <1>8, Zenon DEF IInv, TableInv, FilesInv
  <1>10. HoldInv'
    <2>1. Len(work'[p]) = z
      BY <1>6, <1>7
    <2>2. HoldInv
      BY Zenon DEF IInv, TableInv
    <2>3. z <= 2 /\ (m = "pipe1" => z = 1) /\ (m = "pipe2" => z = 2) /\ m \in {"pipe1", "pipe2"}
      BY <1>1, <1>7
    <2>4. pend[p] = FD_NONE
      BY <1>1, <1>3, <2>2 DEF HoldInv
    <2>. QED BY <1>3, <1>4, <1>6, <2>1, <2>2, <2>3, <2>4 DEF HoldInv
  <1>11. WorkInv'
    <2>1. ASSUME NEW q \in Procs, NEW k \in 1 .. Len(work'[q])
          PROVE  file'[work'[q][k]].ref = 1 /\ (pc'[q] # "close" => file'[work'[q][k]].end = FD_NONE)
      <3>1. CASE q = p /\ k = z
        <4>1. work'[q][k] = f
          BY <1>6, <1>7, <3>1
        <4>. QED BY <1>8, <4>1
      <3>2. CASE ~(q = p /\ k = z)
        <4>1. k \in 1 .. Len(work[q]) /\ work'[q][k] = work[q][k]
          BY <1>6, <1>7, <2>1, <3>2
        <4>2. work[q][k] \in Files /\ file[work[q][k]].ref = 1
          BY <4>1, OneWork, Zenon DEF IInv, TableInv
        <4>3. pc[q] # "close" => file[work[q][k]].end = FD_NONE
          BY <4>1, Zenon DEF IInv, TableInv, WorkInv
        <4>4. work[q][k] # f
          BY <1>2, <4>2
        <4>5. pc'[q] # "close" => pc[q] # "close"
          BY <1>1, <1>3, <1>4
        <4>. QED BY <1>8, <4>1, <4>2, <4>3, <4>4, <4>5
      <3>. QED BY <3>1, <3>2
    <2>. QED BY <2>1, Zenon DEF WorkInv
  <1>12. EndInv'
    <2>1. \A g \in Files : file'[g].ref = 0 => file[g].ref = 0
      BY <1>8
    <2>2. \A q \in Procs, fd \in Fds : ofile[q][fd] # NoFile => ofile[q][fd] \in Files
      BY DEF IInv, TableInv, FilesInv
    <2>3. EndInv
      BY Zenon DEF IInv, TableInv
    <2>. QED BY <1>3, <1>8, <2>1, <2>2, <2>3 DEF EndInv
  <1>13. CallInv'
    <2>1. \A q \in Procs : InCall(q)' => InCall(q)
      BY <1>1, <1>4 DEF InCall
    <2>2. \A q \in Procs, fd \in Fds : ofile[q][fd] # NoFile => ofile[q][fd] \in Files
      BY DEF IInv, TableInv, FilesInv
    <2>3. CallInv
      BY Zenon DEF IInv, TableInv
    <2>. QED BY <1>3, <1>8, <2>1, <2>2, <2>3 DEF CallInv
  <1>14. RefsCounted'
    <2>1. ASSUME NEW g \in Files
          PROVE  file'[g].ref = Cardinality(FdRefs(g)') + Cardinality(WorkRefs(g)')
      <3>1. FdRefs(g)' = FdRefs(g)
        BY <1>3, Zenon DEF FdRefs
      <3>2. CASE g = f
        <4>1. FdRefs(f) = {} /\ WorkRefs(f) = {}
          BY <1>2, NoRef, Zenon DEF IInv, TableInv
        <4>2. WorkRefs(f)' = {<<p, z>>}
          <5>1. <<p, z>> \in WorkRefs(f)'
            BY <1>6, <1>7 DEF WorkRefs
          <5>2. ASSUME NEW x \in WorkRefs(f)' PROVE x = <<p, z>>
            <6>1. PICK q \in Procs, k \in 1 .. 2 : x = <<q, k>> /\ k \in DOMAIN work'[q] /\ work'[q][k] = f
              BY <5>2 DEF WorkRefs
            <6>2. ~(k \in DOMAIN work[q] /\ work[q][k] = f)
              <7>1. <<q, k>> \notin WorkRefs(f)
                BY <4>1
              <7>. QED BY <7>1 DEF WorkRefs
            <6>. QED BY <1>6, <1>7, <6>1, <6>2
          <5>. QED BY <5>1, <5>2, Zenon
        <4>3. Cardinality(FdRefs(g)') = 0 /\ Cardinality(WorkRefs(g)') = 1
          BY <3>1, <3>2, <4>1, <4>2, FS_EmptySet, FS_Singleton, Zenon
        <4>. QED BY <1>8, <3>2, <4>3
      <3>3. CASE g # f
        <4>1. ASSUME NEW q \in Procs, NEW k \in 1 .. 2
              PROVE  (k \in DOMAIN work'[q] /\ work'[q][k] = g) <=> (k \in DOMAIN work[q] /\ work[q][k] = g)
          BY <1>6, <1>7, <3>3
        <4>2. WorkRefs(g)' = WorkRefs(g)
          BY <4>1 DEF WorkRefs
        <4>. QED BY <1>8, <3>1, <3>3, <4>2, Zenon DEF IInv, TableInv, RefsCounted
      <3>. QED BY <3>2, <3>3
    <2>. QED BY <2>1, Zenon DEF RefsCounted
  <1>15. EndsOpen'
    <2>1. ASSUME NEW pi \in Pipes, NEW w \in BOOLEAN
          PROVE  Refers(pi, w)' <=> Refers(pi, w)
      <3>1. FD_NONE # <<pi, w>>
        BY FilesAssumption
      <3>2. \A g \in Files : (file'[g].ref > 0 /\ file'[g].end = <<pi, w>>)
                             <=> (file[g].ref > 0 /\ file[g].end = <<pi, w>>)
        BY <1>8, <3>1
      <3>. QED BY <1>3, <3>2, Zenon DEF Refers
    <2>. QED BY <1>3, <2>1, Zenon DEF IInv, EndsOpen
  <1>16. RingIsStream' /\ SleepersMustWait'
    BY <1>1, <1>3, <1>4, QuietPipes DEF IInv
  <1>. QED
    BY <1>5, <1>9, <1>10, <1>11, <1>12, <1>13, <1>14, <1>15, <1>16, Zenon DEF IInv, TableInv

\* dup() adds a descriptor and a reference.
LEMMA DupKeeps ==
    ASSUME IInv, NEW p \in Procs, sys_dup(p)
    PROVE  IInv'
  <1>1. PICK fd \in argfd(p), new \in FreeFd(ofile[p]) :
           /\ ofile' = [ofile EXCEPT ![p] = fdalloc(@, ofile[p][fd], new)]
           /\ file' = [file EXCEPT ![ofile[p][fd]].ref = @ + 1]
    BY Zenon DEF sys_dup
  <1>2. /\ pipe' = pipe /\ pc' = pc /\ cur' = cur /\ left' = left /\ killed' = killed /\ cut' = cut
        /\ work' = work /\ pend' = pend
    BY Zenon DEF sys_dup, pipevars
  <1>3. FilesInv /\ HoldInv /\ WorkInv /\ EndInv /\ CallInv /\ RefsCounted
    BY Zenon DEF IInv, TableInv
  <1>4. fd \in Fds /\ new \in Fds /\ ofile[p][fd] # NoFile /\ ofile[p][new] = NoFile
    BY Zenon DEF argfd, FreeFd
  <1>5. PICK f \in Files : /\ f = ofile[p][fd] /\ <<p, fd>> \in FdRefs(f)
                           /\ file[f].ref > 0 /\ file[f].end \in Ends
    BY <1>3, <1>4, Descriptor, Zenon
  <1>6. /\ ofile' = [ofile EXCEPT ![p] = [@ EXCEPT ![new] = f]]
        /\ file' = [file EXCEPT ![f].ref = @ + 1]
    BY <1>1, <1>5, Zenon DEF fdalloc
  <1>7. RefsCounted'
    BY <1>2, <1>3, <1>4, <1>6, DupRefs, Zenon
  <1>8. /\ \A g \in Files : file'[g].end = file[g].end
        /\ \A g \in Files : file'[g].ref > 0 <=> file[g].ref > 0
        /\ \A g \in Files : g # f => file'[g] = file[g]
        /\ file' \in [Files -> [ref : Nat, end : Ends \cup {FD_NONE}]]
    <2>1. file \in [Files -> [ref : Nat, end : Ends \cup {FD_NONE}]]
      BY <1>3, Zenon DEF FilesInv
    <2>2. PICK n \in Nat : n = file[f].ref + 1 /\ n > 0
      BY <2>1
    <2>3. file' = [file EXCEPT ![f].ref = n]
      BY <1>6, <2>2
    <2>4. file'[f].ref = n /\ \A g \in Files : file'[g].end = file[g].end
      BY <2>1, <2>3
    <2>5. \A g \in Files : g # f => file'[g] = file[g]
      BY <2>1, <2>3
    <2>6. file' \in [Files -> [ref : Nat, end : Ends \cup {FD_NONE}]]
      BY <2>1, <2>3
    <2>7. \A g \in Files : file'[g].ref > 0 <=> file[g].ref > 0
      BY <1>5, <2>2, <2>4, <2>5
    <2>. QED BY <2>4, <2>5, <2>6, <2>7, Zenon
  <1>9. /\ ofile' \in [Procs -> [Fds -> Files \cup {NoFile}]]
        /\ \A q \in Procs, e \in Fds : ofile'[q][e] = IF q = p /\ e = new THEN f ELSE ofile[q][e]
    BY <1>3, <1>4, <1>6 DEF FilesInv
  <1>10. FilesInv'
    BY <1>2, <1>3, <1>8, <1>9, Zenon DEF FilesInv
  <1>11. HoldInv'
    <2>1. pc[p] = "user"
      BY Zenon DEF sys_dup, Calls
    <2>2. \A q \in Procs \ {p} : ofile'[q] = ofile[q]
      BY <1>3, <1>6 DEF FilesInv
    <2>. QED BY <1>2, <1>3, <2>1, <2>2 DEF HoldInv
  <1>12. WorkInv'
    <2>1. ASSUME NEW q \in Procs, NEW k \in 1 .. Len(work[q])
          PROVE  work[q][k] # f /\ work[q][k] \in Files
      BY <1>3, <1>5, OneWork, Zenon
    <2>. QED BY <1>2, <1>3, <1>8, <2>1, ZenonT(60) DEF WorkInv
  <1>13. EndInv'
    <2>1. \A g \in Files : file'[g].ref = 0 => file[g].ref = 0
      BY <1>3, <1>8 DEF FilesInv
    <2>2. ASSUME NEW q \in Procs, NEW e \in Fds, ofile'[q][e] # NoFile
          PROVE  file'[ofile'[q][e]].end # FD_NONE
      <3>1. CASE q = p /\ e = new
        BY <1>5, <1>8, <1>9, <3>1, FilesAssumption DEF Ends
      <3>2. CASE ~(q = p /\ e = new)
        <4>1. ofile'[q][e] = ofile[q][e] /\ ofile[q][e] \in Files
          BY <1>3, <1>9, <2>2, <3>2 DEF FilesInv
        <4>. QED BY <1>3, <1>8, <2>2, <4>1 DEF EndInv
      <3>. QED BY <3>1, <3>2
    <2>3. \A g \in Files : file'[g].ref = 0 => file'[g].end = FD_NONE
      BY <1>3, <1>8, <2>1, Zenon DEF EndInv
    <2>4. \A g, h \in Files : file'[g].end = file'[h].end /\ file'[g].end # FD_NONE => g = h
      <3>1. \A g, h \in Files : file[g].end = file[h].end /\ file[g].end # FD_NONE => g = h
        BY <1>3, Zenon DEF EndInv
      <3>2. \A g \in Files : file'[g].end = file[g].end
        BY <1>8, Zenon
      <3>. QED BY <3>1, <3>2, SMTT(30)
    <2>5. \A q \in Procs, g \in Files : pend[q] # FD_NONE => file'[g].end # pend[q]
      <3>1. \A q \in Procs, g \in Files : pend[q] # FD_NONE => file[g].end # pend[q]
        BY <1>3, Zenon DEF EndInv
      <3>2. \A g \in Files : file'[g].end = file[g].end
        BY <1>8, Zenon
      <3>. QED BY <3>1, <3>2, SMTT(30)
    <2>. QED BY <1>2, <1>3, <2>2, <2>3, <2>4, <2>5, Zenon DEF EndInv
  <1>14. CallInv'
    <2>1. ASSUME NEW q \in Procs, InCall(q)'
          PROVE  \E e \in Fds : ofile'[q][e] # NoFile /\ file'[ofile'[q][e]].end[1] = cur'[q]
      <3>1. PICK e \in Fds : ofile[q][e] # NoFile /\ file[ofile[q][e]].end[1] = cur[q]
        BY <1>2, <1>3, <2>1, Zenon DEF CallInv, InCall
      <3>2. ofile'[q][e] = ofile[q][e] /\ ofile[q][e] \in Files
        BY <1>3, <1>4, <1>9, <3>1 DEF FilesInv
      <3>. QED BY <1>2, <1>8, <3>1, <3>2, Zenon
    <2>. QED BY <2>1, Zenon DEF CallInv
  <1>15. EndsOpen'
    BY <1>2, <1>8, SameRefers, Zenon DEF IInv, EndsOpen
  <1>16. RingIsStream' /\ SleepersMustWait'
    BY <1>2, QuietPipes, Zenon DEF IInv
  <1>17. PipesInv'
    BY <1>2, Zenon DEF IInv, PipesInv
  <1>. QED
    BY <1>7, <1>10, <1>11, <1>12, <1>13, <1>14, <1>15, <1>16, <1>17, Zenon DEF IInv, TableInv

\* The child of fork() has a copy of every descriptor.
LEMMA ForkKeeps ==
    ASSUME IInv, NEW p \in Procs, fork(p)
    PROVE  IInv'
  <1>1. PICK q \in Procs : /\ pc[q] = "none"
                           /\ ofile' = [ofile EXCEPT ![q] = ofile[p]]
                           /\ pc' = [pc EXCEPT ![q] = "user"]
                           /\ file' = [f \in Files |-> [file[f] EXCEPT !.ref = @ + Dup(ofile[p], f)]]
    BY Zenon DEF fork, Goto
  <1>2. /\ pipe' = pipe /\ cur' = cur /\ left' = left /\ killed' = killed /\ cut' = cut
        /\ work' = work /\ pend' = pend /\ pc[p] = "user"
    BY Zenon DEF fork, Calls
  <1>3. FilesInv /\ HoldInv /\ WorkInv /\ EndInv /\ CallInv /\ RefsCounted
    BY Zenon DEF IInv, TableInv
  <1>4. ofile[q] = NoFiles /\ work[q] = <<>> /\ pend[q] = FD_NONE
    BY <1>1, <1>3 DEF HoldInv
  <1>5. /\ RefsCounted'
        /\ file' \in [Files -> [ref : Nat, end : Ends \cup {FD_NONE}]]
        /\ \A f \in Files : file'[f].end = file[f].end
        /\ \A f \in Files : file'[f].ref >= file[f].ref
        /\ \A f \in Files : FdRefs(f) = {} => file'[f].ref = file[f].ref
    BY <1>1, <1>2, <1>3, <1>4, ForkRefs, Zenon
  <1>6. \A f \in Files : file'[f].end = file[f].end
    BY <1>5, Zenon
  <1>7. pc \in [Procs -> Places] /\ pc'[q] = "user" /\ \A r \in Procs \ {q} : pc'[r] = pc[r]
    BY <1>1 DEF IInv, PipesInv
  <1>8. /\ ofile' \in [Procs -> [Fds -> Files \cup {NoFile}]]
        /\ ofile'[q] = ofile[p] /\ \A r \in Procs \ {q} : ofile'[r] = ofile[r]
    BY <1>1, <1>3 DEF FilesInv
  <1>9. PipesInv'
    BY <1>1, <1>2, <1>7 DEF IInv, PipesInv, Places
  <1>10. FilesInv'
    BY <1>2, <1>3, <1>5, <1>8, Zenon DEF FilesInv
  <1>11. HoldInv'
    BY <1>2, <1>3, <1>4, <1>7, <1>8 DEF HoldInv
  <1>12. \A f \in Files : file[f].ref \in Nat /\ (file[f].ref = 0 => FdRefs(f) = {})
    BY <1>3, NoRef DEF FilesInv
  <1>13. WorkInv'
    <2>1. ASSUME NEW r \in Procs, NEW k \in 1 .. Len(work[r])
          PROVE  file'[work[r][k]].ref = 1 /\ (pc'[r] # "close" => file'[work[r][k]].end = FD_NONE)
      <3>1. /\ work[r][k] \in Files /\ file[work[r][k]].ref = 1 /\ FdRefs(work[r][k]) = {}
            /\ pc[r] # "close" => file[work[r][k]].end = FD_NONE
        BY <1>3, OneWork, Zenon DEF WorkInv
      <3>2. pc[r] = "close" => pc'[r] = "close"
        BY <1>1, <1>7
      <3>3. file'[work[r][k]].ref = file[work[r][k]].ref /\ file'[work[r][k]].end = file[work[r][k]].end
        BY <1>5, <3>1, Zenon
      <3>. QED BY <3>1, <3>2, <3>3, Zenon
    <2>. QED BY <1>2, <2>1, Zenon DEF WorkInv
  <1>14. EndInv'
    <2>1. \A f \in Files : file'[f].ref = 0 => file[f].ref = 0
      BY <1>5, <1>12
    <2>2. ASSUME NEW r \in Procs, NEW e \in Fds, ofile'[r][e] # NoFile
          PROVE  file'[ofile'[r][e]].end # FD_NONE
      <3>1. PICK t \in Procs : ofile'[r][e] = ofile[t][e]
        BY <1>8
      <3>2. ofile[t][e] \in Files /\ file[ofile[t][e]].end # FD_NONE
        BY <1>3, <2>2, <3>1 DEF EndInv, FilesInv
      <3>. QED BY <1>6, <3>1, <3>2, Zenon
    <2>. QED BY <1>2, <1>3, <1>6, <2>1, <2>2 DEF EndInv
  <1>15. CallInv'
    <2>1. \A r \in Procs : InCall(r)' => InCall(r) /\ r # q
      BY <1>1, <1>7 DEF InCall
    <2>2. \A r \in Procs, e \in Fds : ofile[r][e] # NoFile => ofile[r][e] \in Files
      BY <1>3 DEF FilesInv
    <2>3. ASSUME NEW r \in Procs, InCall(r)'
          PROVE  \E e \in Fds : ofile'[r][e] # NoFile /\ file'[ofile'[r][e]].end[1] = cur'[r]
      <3>1. PICK e \in Fds : ofile[r][e] # NoFile /\ file[ofile[r][e]].end[1] = cur[r]
        BY <1>3, <2>1, <2>3, Zenon DEF CallInv
      <3>2. ofile'[r] = ofile[r]
        BY <1>8, <2>1, <2>3
      <3>. QED BY <1>2, <1>6, <2>2, <3>1, <3>2, Zenon
    <2>. QED BY <2>3, Zenon DEF CallInv
  <1>16. EndsOpen'
    <2>1. \A f \in Files : file'[f].ref > 0 <=> file[f].ref > 0
      BY <1>5, <1>12
    <2>. QED BY <1>2, <1>5, <2>1, SameRefers, Zenon DEF IInv, EndsOpen
  <1>17. RingIsStream' /\ SleepersMustWait'
    BY <1>2, <1>7, QuietPipes DEF IInv
  <1>. QED
    BY <1>5, <1>9, <1>10, <1>11, <1>13, <1>14, <1>15, <1>16, <1>17, Zenon DEF IInv, TableInv

\* Two files of the table become ends of a pipe.
EndsSet(rf, wf, x, y) == file' = [file EXCEPT ![rf].end = x, ![wf].end = y]

\* Nothing else of the table changes then.
LEMMA SetEnds ==
    ASSUME FilesInv, NEW rf \in Files, NEW wf \in Files, rf # wf, NEW x \in Ends, NEW y \in Ends,
           EndsSet(rf, wf, x, y)
    PROVE  /\ file' \in [Files -> [ref : Nat, end : Ends \cup {FD_NONE}]]
           /\ file'[rf].end = x /\ file'[wf].end = y
           /\ \A g \in Files : file'[g].ref = file[g].ref
           /\ \A g \in Files \ {rf, wf} : file'[g] = file[g]
  <1>1. PICK E : E = Ends \cup {FD_NONE}
    OBVIOUS
  <1>2. file \in [Files -> [ref : Nat, end : E]] /\ x \in E /\ y \in E
    BY <1>1, Zenon DEF FilesInv
  <1>3. /\ file' \in [Files -> [ref : Nat, end : E]]
        /\ file'[rf].end = x /\ file'[wf].end = y
        /\ \A g \in Files : file'[g].ref = file[g].ref
        /\ \A g \in Files \ {rf, wf} : file'[g] = file[g]
    BY <1>2 DEF EndsSet
  <1>. QED BY <1>1, <1>3, Zenon

\* pipealloc() has its page, and sys_pipe() its descriptors or not.
LEMMA PipeAllocKeeps ==
    ASSUME IInv, NEW p \in Procs, sys_pipe_alloc(p)
    PROVE  IInv'
  <1>1. FilesInv /\ HoldInv /\ WorkInv /\ EndInv /\ CallInv /\ RefsCounted /\ TableInv /\ PipesInv
    BY Zenon DEF IInv, TableInv
  <1>2. pc[p] = "pipe2" /\ cur' = cur /\ left' = left /\ killed' = killed /\ cut' = cut /\ pend' = pend
    BY Zenon DEF sys_pipe_alloc
  <1>3. PICK rf \in Files, wf \in Files :
           /\ rf # wf /\ rf = work[p][1] /\ wf = work[p][2] /\ work[p] = <<rf, wf>>
           /\ file[rf].ref = 1 /\ FdRefs(rf) = {} /\ WorkRefs(rf) = {<<p, 1>>} /\ file[rf].end = FD_NONE
           /\ file[wf].ref = 1 /\ FdRefs(wf) = {} /\ WorkRefs(wf) = {<<p, 2>>} /\ file[wf].end = FD_NONE
    BY <1>1, <1>2, PipeFiles, Zenon
  <1>4. PICK pi \in Pipes :
           /\ ~pipe[pi].alloc
           /\ pipe' = [pipe EXCEPT ![pi] = [Fresh EXCEPT !.alloc = TRUE, !.readopen = TRUE,
                                                         !.writeopen = TRUE]]
           /\ file' = [file EXCEPT ![rf].end = <<pi, FALSE>>, ![wf].end = <<pi, TRUE>>]
           /\ \/ /\ \E fd0 \in FreeFd(ofile[p]) :
                       LET o == fdalloc(ofile[p], rf, fd0)
                       IN  \E fd1 \in FreeFd(o) :
                              ofile' = [ofile EXCEPT ![p] = fdalloc(o, wf, fd1)]
                 /\ work' = [work EXCEPT ![p] = <<>>]
                 /\ pc' = [pc EXCEPT ![p] = "user"]
              \/ pc' = [pc EXCEPT ![p] = "close"] /\ ofile' = ofile /\ work' = work
    BY <1>3, ZenonT(60) DEF sys_pipe_alloc, Goto
  <1>5. PICK r : /\ r = [Fresh EXCEPT !.alloc = TRUE, !.readopen = TRUE, !.writeopen = TRUE]
                 /\ pipe' = [pipe EXCEPT ![pi] = r]
    BY <1>4, Zenon
  <1>6. r \in PipeType /\ r.nread = 0 /\ r.nwrite = 0 /\ r.alloc = TRUE /\ r.readopen = TRUE /\ r.writeopen = TRUE
    BY <1>5, FreshPipe, Zenon
  <1>7. /\ pipe' \in [Pipes -> PipeType] /\ pipe'[pi] = r
        /\ \A qi \in Pipes \ {pi} : pipe'[qi] = pipe[qi]
    BY <1>1, <1>5, <1>6 DEF PipesInv
  <1>8. /\ file' \in [Files -> [ref : Nat, end : Ends \cup {FD_NONE}]]
        /\ file'[rf].end = <<pi, FALSE>> /\ file'[wf].end = <<pi, TRUE>>
        /\ \A g \in Files : file'[g].ref = file[g].ref
        /\ \A g \in Files \ {rf, wf} : file'[g] = file[g]
    <2>1. file \in [Files -> [ref : Nat, end : Ends \cup {FD_NONE}]]
      BY <1>1, Zenon DEF FilesInv
    <2>2. PICK x \in Ends, y \in Ends : x = <<pi, FALSE>> /\ y = <<pi, TRUE>>
      BY Zenon DEF Ends
    <2>3. EndsSet(rf, wf, x, y)
      BY <1>4, <2>2, Zenon DEF EndsSet
    <2>. HIDE <1>4
    <2>4. /\ file' \in [Files -> [ref : Nat, end : Ends \cup {FD_NONE}]]
          /\ file'[rf].end = x /\ file'[wf].end = y
          /\ \A g \in Files : file'[g].ref = file[g].ref
          /\ \A g \in Files \ {rf, wf} : file'[g] = file[g]
      <3>1. rf # wf
        BY <1>3
      <3>2. FilesInv
        BY <1>1
      <3>. QED BY <2>3, <3>1, <3>2, SetEnds, Zenon
    <2>. QED BY <2>2, <2>4, Zenon
  <1>9. PICK m \in {"user", "close"} :
           /\ pc' = [pc EXCEPT ![p] = m]
           /\ \/ /\ m = "user" /\ work' = [work EXCEPT ![p] = <<>>]
                 /\ \E fd0, fd1 \in Fds :
                       /\ fd0 # fd1 /\ ofile[p][fd0] = NoFile /\ ofile[p][fd1] = NoFile
                       /\ ofile' = [ofile EXCEPT ![p] = [[ofile[p] EXCEPT ![fd0] = rf] EXCEPT ![fd1] = wf]]
              \/ m = "close" /\ ofile' = ofile /\ work' = work
    <2>1. CASE /\ \E fd0 \in FreeFd(ofile[p]) :
                       LET o == fdalloc(ofile[p], rf, fd0)
                       IN  \E fd1 \in FreeFd(o) :
                              ofile' = [ofile EXCEPT ![p] = fdalloc(o, wf, fd1)]
                 /\ work' = [work EXCEPT ![p] = <<>>]
                 /\ pc' = [pc EXCEPT ![p] = "user"]
      <3>1. PICK fd0 \in FreeFd(ofile[p]) :
               \E fd1 \in FreeFd(fdalloc(ofile[p], rf, fd0)) :
                  ofile' = [ofile EXCEPT ![p] = fdalloc(fdalloc(ofile[p], rf, fd0), wf, fd1)]
        BY <2>1, Zenon
      <3>2. PICK fd1 \in FreeFd(fdalloc(ofile[p], rf, fd0)) :
                  ofile' = [ofile EXCEPT ![p] = fdalloc(fdalloc(ofile[p], rf, fd0), wf, fd1)]
        BY <3>1, Zenon
      <3>3. fd0 \in Fds /\ fd1 \in Fds /\ ofile[p][fd0] = NoFile /\ [ofile[p] EXCEPT ![fd0] = rf][fd1] = NoFile
        BY Zenon DEF FreeFd, fdalloc
      <3>4. ofile[p] \in [Fds -> Files \cup {NoFile}] /\ rf # NoFile
        BY <1>1, FilesAssumption DEF FilesInv
      <3>5. fd0 # fd1 /\ ofile[p][fd1] = NoFile
        BY <3>3, <3>4
      <3>6. ofile' = [ofile EXCEPT ![p] = [[ofile[p] EXCEPT ![fd0] = rf] EXCEPT ![fd1] = wf]]
        BY <3>2, Zenon DEF fdalloc
      <3>. QED BY <2>1, <3>3, <3>5, <3>6, Zenon
    <2>2. CASE pc' = [pc EXCEPT ![p] = "close"] /\ ofile' = ofile /\ work' = work
      BY <2>2, Zenon
    <2>. QED BY <1>4, <2>1, <2>2, Zenon
  <1>10. /\ pc' \in [Procs -> Places] /\ pc'[p] = m /\ \A q \in Procs \ {p} : pc'[q] = pc[q]
    BY <1>1, <1>9 DEF PipesInv, Places
  <1>11. /\ m = "user" => work'[p] = <<>>
         /\ m = "close" => work'[p] = work[p]
         /\ \A q \in Procs \ {p} : work'[q] = work[q]
         /\ work' \in [Procs -> Seq(Files)]
    <2>1. work \in [Procs -> Seq(Files)] /\ <<>> \in Seq(Files)
      BY <1>1 DEF FilesInv
    <2>2. CASE m = "user" /\ work' = [work EXCEPT ![p] = <<>>]
      BY <2>1, <2>2
    <2>3. CASE m = "close" /\ work' = work
      BY <2>1, <2>3
    <2>. QED BY <1>9, <2>2, <2>3, Zenon
  <1>12. /\ ofile' \in [Procs -> [Fds -> Files \cup {NoFile}]]
         /\ \A q \in Procs, e \in Fds :
               \/ ofile'[q][e] = ofile[q][e]
               \/ q = p /\ ofile[p][e] = NoFile /\ ofile'[p][e] \in {rf, wf}
         /\ \A q \in Procs \ {p} : ofile'[q] = ofile[q]
    <2>1. CASE ofile' = ofile
      BY <1>1, <2>1, Zenon DEF FilesInv
    <2>2. CASE \E fd0, fd1 \in Fds :
                  /\ fd0 # fd1 /\ ofile[p][fd0] = NoFile /\ ofile[p][fd1] = NoFile
                  /\ ofile' = [ofile EXCEPT ![p] = [[ofile[p] EXCEPT ![fd0] = rf] EXCEPT ![fd1] = wf]]
      BY <1>1, <2>2 DEF FilesInv
    <2>. QED BY <1>9, <2>1, <2>2, Zenon
  <1>13. PipesInv'
    BY <1>1, <1>2, <1>7, <1>10, Zenon DEF PipesInv
  <1>14. FilesInv'
    BY <1>1, <1>2, <1>8, <1>11, <1>12, Zenon DEF FilesInv
  <1>15. HoldInv'
    <2>1. Len(work[p]) = 2 /\ pend[p] = FD_NONE
      BY <1>1, <1>2 DEF HoldInv
    <2>. QED BY <1>1, <1>2, <1>9, <1>10, <1>11, <1>12, <2>1 DEF HoldInv
  <1>16. WorkInv'
    <2>1. ASSUME NEW q \in Procs, NEW k \in 1 .. Len(work'[q])
          PROVE  file'[work'[q][k]].ref = 1 /\ (pc'[q] # "close" => file'[work'[q][k]].end = FD_NONE)
      <3>1. k \in 1 .. Len(work[q]) /\ work'[q][k] = work[q][k]
        BY <1>9, <1>11, <2>1
      <3>2. /\ work[q][k] \in Files /\ file[work[q][k]].ref = 1
            /\ FdRefs(work[q][k]) = {} /\ WorkRefs(work[q][k]) = {<<q, k>>}
        BY <1>1, <3>1, OneWork, Zenon
      <3>3. CASE q = p
        <4>1. pc'[q] = "close"
          <5>1. m = "user" => ~(k \in 1 .. Len(work'[q]))
            BY <1>11, <3>3
          <5>. QED BY <1>9, <1>10, <2>1, <3>3, <5>1
        <4>. QED BY <1>8, <3>1, <3>2, <4>1, Zenon
      <3>4. CASE q # p
        <4>1. work[q][k] # rf /\ work[q][k] # wf
          <5>1. <<q, k>> # <<p, 1>> /\ <<q, k>> # <<p, 2>>
            BY <3>4
          <5>. QED BY <1>3, <3>2, <5>1, Zenon
        <4>2. file'[work[q][k]] = file[work[q][k]]
          BY <1>8, <3>2, <4>1
        <4>3. pc'[q] = pc[q]
          BY <1>10, <3>4
        <4>. QED BY <1>1, <3>1, <4>2, <4>3, Zenon DEF WorkInv
      <3>. QED BY <3>3, <3>4
    <2>. QED BY <2>1, Zenon DEF WorkInv
  <1>17. /\ \A g \in Files, w \in BOOLEAN : file[g].end # <<pi, w>>
         /\ \A q \in Procs, w \in BOOLEAN : pend[q] # <<pi, w>>
         /\ \A q \in Procs : pc[q] \in {"rsleep", "wsleep"} => cur[q] # pi
    BY <1>4, Unused, Zenon
  <1>18. EndInv'
    <2>1. <<pi, FALSE>> # <<pi, TRUE>> /\ <<pi, FALSE>> # FD_NONE /\ <<pi, TRUE>> # FD_NONE
      BY Apart, Zenon
    <2>2. ASSUME NEW g \in Files PROVE file'[g].ref = 0 => file'[g].end = FD_NONE
      <3>1. CASE g \in {rf, wf}
        <4>1. file'[g].ref # 0
          BY <1>3, <1>8, <3>1, SMTT(30)
        <4>. QED BY <4>1
      <3>2. CASE g \notin {rf, wf}
        BY <1>1, <1>8, <3>2, Zenon DEF EndInv
      <3>. QED BY <3>1, <3>2, Zenon
    <2>3. \A g \in Files : \/ g = rf /\ file'[g].end = <<pi, FALSE>>
                           \/ g = wf /\ file'[g].end = <<pi, TRUE>>
                           \/ g \notin {rf, wf} /\ file'[g].end = file[g].end
      BY <1>8
    <2>4. ASSUME NEW f \in Files, NEW g \in Files, file'[f].end = file'[g].end, file'[f].end # FD_NONE
          PROVE  f = g
      <3>1. f \notin {rf, wf} /\ g \notin {rf, wf} => f = g
        <4>1. f \notin {rf, wf} /\ g \notin {rf, wf}
              => file'[f].end = file[f].end /\ file'[g].end = file[g].end
          BY <2>3, Zenon
        <4>. QED BY <1>1, <2>4, <4>1, Zenon DEF EndInv
      <3>2. \A h \in Files : file[h].end # <<pi, FALSE>> /\ file[h].end # <<pi, TRUE>>
        BY <1>17
      <3>3. CASE f = rf
        BY <2>1, <2>3, <2>4, <3>2, <3>3, Zenon
      <3>4. CASE f = wf
        BY <2>1, <2>3, <2>4, <3>2, <3>4, Zenon
      <3>5. CASE f \notin {rf, wf}
        <4>1. file'[f].end # <<pi, FALSE>> /\ file'[f].end # <<pi, TRUE>>
          BY <2>3, <3>2, <3>5, Zenon
        <4>2. g \notin {rf, wf}
          BY <2>4, <1>8, <4>1
        <4>. QED BY <3>1, <3>5, <4>2
      <3>. QED BY <3>3, <3>4, <3>5
    <2>5. ASSUME NEW q \in Procs, NEW g \in Files, pend[q] # FD_NONE
          PROVE  file'[g].end # pend[q]
      <3>1. pend[q] # <<pi, FALSE>> /\ pend[q] # <<pi, TRUE>>
        BY <1>17, Zenon
      <3>2. file[g].end # pend[q]
        BY <1>1, <2>5 DEF EndInv
      <3>. QED BY <2>3, <3>1, <3>2, Zenon
    <2>6. ASSUME NEW q \in Procs, NEW e \in Fds, ofile'[q][e] # NoFile
          PROVE  file'[ofile'[q][e]].end # FD_NONE
      <3>1. CASE ofile'[q][e] \in {rf, wf}
        BY <1>8, <2>1, <3>1
      <3>2. CASE ofile'[q][e] \notin {rf, wf}
        <4>1. ofile'[q][e] = ofile[q][e]
          BY <1>12, <3>2
        <4>2. ofile[q][e] \in Files /\ file[ofile[q][e]].end # FD_NONE
          BY <1>1, <2>6, <4>1 DEF EndInv, FilesInv
        <4>. QED BY <1>8, <3>2, <4>1, <4>2
      <3>. QED BY <3>1, <3>2
    <2>. QED BY <1>1, <1>2, <2>2, <2>4, <2>5, <2>6 DEF EndInv
  <1>19. CallInv'
    <2>1. ASSUME NEW q \in Procs, InCall(q)'
          PROVE  \E e \in Fds : ofile'[q][e] # NoFile /\ file'[ofile'[q][e]].end[1] = cur'[q]
      <3>1. InCall(q) /\ q # p
        BY <1>9, <1>10, <2>1 DEF InCall
      <3>2. PICK e \in Fds : ofile[q][e] # NoFile /\ file[ofile[q][e]].end[1] = cur[q]
        BY <1>1, <3>1, Zenon DEF CallInv
      <3>3. ofile[q][e] \in Files /\ <<q, e>> \in FdRefs(ofile[q][e])
        BY <1>1, <3>2, Descriptor, Zenon
      <3>4. ofile[q][e] # rf /\ ofile[q][e] # wf
        BY <1>3, <3>3, Zenon
      <3>5. file'[ofile[q][e]] = file[ofile[q][e]] /\ ofile'[q] = ofile[q]
        BY <1>8, <1>12, <3>1, <3>3, <3>4
      <3>. QED BY <1>2, <3>2, <3>5, Zenon
    <2>. QED BY <2>1, Zenon DEF CallInv
  <1>20. RefsCounted'
    <2>1. CASE m = "close"
      <3>1. ofile' = ofile /\ work' = work
        BY <1>9, <2>1
      <3>. QED BY <1>1, <1>8, <3>1, ZenonT(60) DEF RefsCounted, FdRefs, WorkRefs
    <2>2. CASE m = "user"
      <3>1. work' = [work EXCEPT ![p] = <<>>]
        BY <1>9, <2>2
      <3>2. PICK fd0 \in Fds, fd1 \in Fds :
               /\ fd0 # fd1 /\ ofile[p][fd0] = NoFile /\ ofile[p][fd1] = NoFile
               /\ ofile' = [ofile EXCEPT ![p] = [[ofile[p] EXCEPT ![fd0] = rf] EXCEPT ![fd1] = wf]]
        BY <1>9, <2>2
      <3>3. /\ ofile'[p][fd0] = work[p][1] /\ ofile'[p][fd1] = work[p][2]
            /\ \A q \in Procs, e \in Fds : q # p \/ e \notin {fd0, fd1} => ofile'[q][e] = ofile[q][e]
        BY <1>1, <1>3, <3>2 DEF FilesInv
      <3>4. \A g \in Files : file'[g].ref = file[g].ref
        BY <1>8, Zenon
      <3>5. fd0 # fd1 /\ ofile[p][fd0] = NoFile /\ ofile[p][fd1] = NoFile
        BY <3>2
      <3>7. TableInv
        BY <1>1
      <3>. QED BY <3>1, <3>3, <3>4, <3>5, <3>7, <1>2, PipeRefs, Zenon
    <2>. QED BY <2>1, <2>2
  <1>21. EndsOpen'
    <2>1. Refers(pi, FALSE)' /\ Refers(pi, TRUE)'
      <3>1. file'[rf].ref > 0 /\ file'[wf].ref > 0
        <4>1. file'[rf].ref = file[rf].ref /\ file'[wf].ref = file[wf].ref
          BY <1>8, Zenon
        <4>2. file[rf].ref = 1 /\ file[wf].ref = 1
          BY <1>3
        <4>. QED BY <4>1, <4>2
      <3>. QED BY <1>8, <3>1, Zenon DEF Refers
    <2>2. ASSUME NEW qi \in Pipes \ {pi}, NEW w \in BOOLEAN PROVE Refers(qi, w)' <=> Refers(qi, w)
      <3>1. <<pi, FALSE>> # <<qi, w>> /\ <<pi, TRUE>> # <<qi, w>> /\ FD_NONE # <<qi, w>>
        <4>1. qi \in Pipes /\ qi # pi /\ <<qi, w>> \in Pipes \X BOOLEAN
          OBVIOUS
        <4>. QED BY <4>1, Apart, FilesAssumption, Zenon
      <3>2. \A g \in Files : (file'[g].ref > 0 /\ file'[g].end = <<qi, w>>)
                             <=> (file[g].ref > 0 /\ file[g].end = <<qi, w>>)
        BY <1>3, <1>8, <3>1
      <3>. QED BY <1>2, <3>2, Zenon DEF Refers
    <2>3. ASSUME NEW qi \in Pipes
          PROVE  /\ pipe'[qi].readopen <=> Refers(qi, FALSE)'
                 /\ pipe'[qi].writeopen <=> Refers(qi, TRUE)'
                 /\ pipe'[qi].alloc <=> (Refers(qi, TRUE) \/ Refers(qi, FALSE))'
      <3>1. CASE qi = pi
        BY <1>6, <1>7, <2>1, <3>1, Zenon
      <3>2. CASE qi # pi
        BY <1>7, <2>2, <3>2, Zenon DEF IInv, EndsOpen
      <3>. QED BY <3>1, <3>2, Zenon
    <2>. QED BY <2>3, Zenon DEF EndsOpen
  <1>22. RingIsStream'
    <2>1. ASSUME NEW qi \in Pipes
          PROVE  Ring(pipe'[qi].nread, pipe'[qi].nwrite, pipe'[qi].data)
      <3>1. CASE qi = pi
        BY <1>6, <1>7, <3>1, EmptyRing
      <3>2. CASE qi # pi
        BY <1>7, <3>2, Rings, Zenon DEF IInv
      <3>. QED BY <3>1, <3>2
    <2>. QED BY <2>1, Zenon DEF RingIsStream, Ring, Used
  <1>23. SleepersMustWait'
    <2>1. ASSUME NEW q \in Procs, pc'[q] \in {"rsleep", "wsleep"}
          PROVE  pc'[q] = pc[q] /\ pipe'[cur[q]] = pipe[cur[q]]
      BY <1>1, <1>7, <1>9, <1>10, <1>17, <2>1 DEF PipesInv
    <2>2. ASSUME NEW q \in Procs
          PROVE  /\ pc'[q] = "rsleep" => /\ pipe'[cur'[q]].writeopen
                                         /\ Empty(cur[q])' \/ cur'[q] \in cut'
                 /\ pc'[q] = "wsleep" => pipe'[cur'[q]].readopen /\ Full(pipe[cur[q]])'
      BY <1>2, <2>1 DEF IInv, SleepersMustWait, Empty, Full
    <2>. QED BY <2>2, Zenon DEF SleepersMustWait
  <1>. QED
    BY <1>13, <1>14, <1>15, <1>16, <1>18, <1>19, <1>20, <1>21, <1>22, <1>23, Zenon DEF IInv, TableInv

-----------------------------------------------------------------------------

(* Closing *)

\* close() and exit() drop a descriptor: fileclose() of a file that it names.
LEMMA FdCloseKeeps ==
    ASSUME IInv, NEW p \in Procs, NEW fd \in Fds, ofile[p][fd] # NoFile, pend[p] = FD_NONE,
           pc[p] \in {"user", "exit"}, NEW m \in {"close", "exit"},
           fileclose(p, ofile[p][fd]), ofile' = [ofile EXCEPT ![p][fd] = NoFile],
           pc' = [pc EXCEPT ![p] = m], pipe' = pipe, cur' = cur, left' = left, killed' = killed, cut' = cut,
           work' = work
    PROVE  IInv'
  <1>1. FilesInv /\ HoldInv /\ WorkInv /\ EndInv /\ CallInv /\ RefsCounted /\ PipesInv
    BY Zenon DEF IInv, TableInv
  <1>2. PICK f \in Files : /\ f = ofile[p][fd] /\ <<p, fd>> \in FdRefs(f)
                           /\ file[f].ref > 0 /\ file[f].end \in Ends
    BY <1>1, Descriptor, Zenon
  <1>3. fileclose(p, f)
    BY <1>2, Zenon
  <1>4. /\ file' \in [Files -> [ref : Nat, end : Ends \cup {FD_NONE}]]
        /\ pend' \in [Procs -> Ends \cup {FD_NONE}]
        /\ \A g \in Files \ {f} : file'[g] = file[g]
        /\ file'[f].ref = file[f].ref - 1
        /\ file[f].ref > 1 => file'[f].end = file[f].end
        /\ \A q \in Procs \ {p} : pend'[q] = pend[q]
        /\ EndsApart'
        /\ \A pi \in Pipes, w \in BOOLEAN : Refers(pi, w)' <=> Refers(pi, w)
    BY <1>1, <1>2, <1>3, FileClose, Zenon
  <1>. HIDE <1>3
  <1>5. pc' \in [Procs -> Places] /\ pc'[p] = m /\ \A q \in Procs \ {p} : pc'[q] = pc[q]
    BY <1>1 DEF PipesInv, Places
  <1>6. /\ ofile' \in [Procs -> [Fds -> Files \cup {NoFile}]]
        /\ \A q \in Procs \ {p} : ofile'[q] = ofile[q]
        /\ ofile'[p][fd] = NoFile
        /\ \A q \in Procs, e \in Fds : ofile'[q][e] = ofile[q][e] \/ ofile'[q][e] = NoFile
    BY <1>1 DEF FilesInv
  <1>7. PipesInv'
    BY <1>1, <1>5, Zenon DEF PipesInv
  <1>8. FilesInv'
    BY <1>1, <1>4, <1>6, Zenon DEF FilesInv
  <1>9. RefsCounted'
    BY <1>1, <1>2, <1>4, DropRefs, Zenon
  <1>10. HoldInv'
    <2>1. ASSUME NEW q \in Procs \ {p}
          PROVE  pc'[q] = pc[q] /\ work'[q] = work[q] /\ ofile'[q] = ofile[q] /\ pend'[q] = pend[q]
      BY <1>4, <1>5, <1>6
    <2>2. /\ pc[p] \notin {"pipe1", "pipe2", "close"} /\ pc'[p] \notin {"pipe1", "pipe2", "none"}
          /\ pc'[p] \in {"close", "exit"} /\ work'[p] = work[p]
      BY <1>5
    <2>3. work'[p] = <<>> /\ Len(work'[p]) <= 2
      BY <1>1, <2>2, Zenon DEF HoldInv
    <2>4. ASSUME NEW q \in Procs
          PROVE  /\ pc'[q] \notin {"pipe1", "pipe2", "close"} => work'[q] = <<>>
                 /\ pc'[q] = "pipe1" => Len(work'[q]) = 1
                 /\ pc'[q] = "pipe2" => Len(work'[q]) = 2
                 /\ Len(work'[q]) <= 2
                 /\ pc'[q] = "none" => ofile'[q] = NoFiles
                 /\ pend'[q] # FD_NONE => pc'[q] \in {"close", "exit"}
      <3>1. CASE q = p
        BY <2>2, <2>3, <3>1
      <3>2. CASE q # p
        <4>1. HoldInv
          BY <1>1
        <4>. QED BY <2>1, <3>2, <4>1 DEF HoldInv
      <3>. QED BY <3>1, <3>2, Zenon
    <2>. QED BY <2>4, Zenon DEF HoldInv
  <1>11. WorkInv'
    <2>1. ASSUME NEW q \in Procs, NEW k \in 1 .. Len(work[q])
          PROVE  /\ file'[work[q][k]].ref = 1
                 /\ pc'[q] # "close" => file'[work[q][k]].end = FD_NONE
      <3>1. work[q][k] \in Files /\ FdRefs(work[q][k]) = {}
        BY <1>1, OneWork, Zenon
      <3>2. work[q][k] # f
        BY <1>2, <3>1, Zenon
      <3>3. file'[work[q][k]] = file[work[q][k]]
        BY <1>4, <3>1, <3>2
      <3>4. q # p
        BY <1>1 DEF HoldInv
      <3>5. pc'[q] = pc[q]
        BY <1>5, <3>4
      <3>. QED BY <1>1, <3>3, <3>5, Zenon DEF WorkInv
    <2>. QED BY <2>1, Zenon DEF WorkInv
  \* another descriptor of f has kept its type
  <1>12. ASSUME NEW q \in Procs, NEW e \in Fds, ofile'[q][e] # NoFile
         PROVE  /\ ofile'[q][e] = ofile[q][e] /\ ofile[q][e] \in Files
                /\ file'[ofile[q][e]].end = file[ofile[q][e]].end
    <2>1. ofile'[q][e] = ofile[q][e] /\ ofile[q][e] # NoFile /\ ofile[q][e] \in Files
      BY <1>1, <1>6, <1>12 DEF FilesInv
    <2>2. CASE ofile[q][e] = f
      <3>1. <<q, e>> \in FdRefs(f) /\ <<q, e>> # <<p, fd>>
        <4>1. <<q, e>> \in FdRefs(f)
          BY <2>2, IsRef, Zenon
        <4>2. ASSUME <<q, e>> = <<p, fd>> PROVE FALSE
          BY <1>6, <1>12, <4>2
        <4>. QED BY <4>1, <4>2
      <3>2. file[f].ref # 1
        <4>1. file[f].ref = 1 => FdRefs(f) = {<<p, fd>>}
          BY <1>1, <1>2, OneFd, Zenon
        <4>. QED BY <3>1, <4>1, Zenon
      <3>3. file[f].ref > 1
        BY <1>1, <1>2, <3>2 DEF FilesInv
      <3>. QED BY <1>4, <2>1, <2>2, <3>3
    <2>3. CASE ofile[q][e] # f
      BY <1>4, <2>1, <2>3
    <2>. QED BY <2>1, <2>2, <2>3, Zenon
  <1>13. EndInv'
    <2>1. \A q \in Procs, e \in Fds : ofile'[q][e] # NoFile => file'[ofile'[q][e]].end # FD_NONE
      BY <1>1, <1>12 DEF EndInv
    <2>. QED BY <1>4, <2>1, Zenon DEF EndInv, EndsApart
  <1>14. CallInv'
    <2>1. ASSUME NEW q \in Procs, InCall(q)'
          PROVE  \E e \in Fds : ofile'[q][e] # NoFile /\ file'[ofile'[q][e]].end[1] = cur'[q]
      <3>1. q # p /\ InCall(q)
        BY <1>5, <2>1 DEF InCall
      <3>2. PICK e \in Fds : ofile[q][e] # NoFile /\ file[ofile[q][e]].end[1] = cur[q]
        BY <1>1, <3>1, Zenon DEF CallInv
      <3>3. ofile'[q][e] = ofile[q][e]
        BY <1>6, <3>1
      <3>4. file'[ofile[q][e]].end = file[ofile[q][e]].end
        BY <1>12, <3>2, <3>3, Zenon
      <3>. QED BY <3>2, <3>3, <3>4, Zenon
    <2>. QED BY <2>1, Zenon DEF CallInv
  <1>15. EndsOpen'
    BY <1>4, Zenon DEF IInv, EndsOpen
  <1>16. RingIsStream' /\ SleepersMustWait'
    <2>1. \A q \in Procs : pc'[q] \in {"rsleep", "wsleep"} => pc'[q] = pc[q] /\ cur'[q] = cur[q]
      BY <1>5
    <2>. QED BY <2>1, QuietPipes, Zenon DEF IInv
  <1>. QED
    BY <1>7, <1>8, <1>9, <1>10, <1>11, <1>13, <1>14, <1>15, <1>16, Zenon DEF IInv, TableInv

\* close() drops one descriptor.
LEMMA SysCloseKeeps ==
    ASSUME IInv, NEW p \in Procs, sys_close(p)
    PROVE  IInv'
  <1>1. PICK fd \in argfd(p) : /\ ofile' = [ofile EXCEPT ![p][fd] = NoFile]
                               /\ fileclose(p, ofile[p][fd])
    BY Zenon DEF sys_close
  <1>2. fd \in Fds /\ ofile[p][fd] # NoFile
    BY Zenon DEF argfd
  <1>3. /\ pc[p] = "user" /\ pc' = [pc EXCEPT ![p] = "close"]
        /\ pipe' = pipe /\ cur' = cur /\ left' = left /\ killed' = killed /\ cut' = cut /\ work' = work
    BY Zenon DEF sys_close, Calls, Goto
  <1>4. pend[p] = FD_NONE
    BY <1>3 DEF IInv, TableInv, HoldInv
  <1>5. pc[p] \in {"user", "exit"} /\ "close" \in {"close", "exit"}
    BY <1>3
  <1>. QED BY <1>1, <1>2, <1>3, <1>4, <1>5, FdCloseKeeps, Zenon

\* exit() drops them one by one, and frees the slot with the last.
LEMMA ExitCloseKeeps ==
    ASSUME IInv, NEW p \in Procs, exit_close(p)
    PROVE  IInv'
  <1>1. /\ pc[p] = "exit" /\ pend[p] = FD_NONE
        /\ pipe' = pipe /\ cur' = cur /\ left' = left /\ cut' = cut /\ work' = work
    BY Zenon DEF exit_close
  <1>2. FilesInv /\ HoldInv /\ WorkInv /\ EndInv /\ CallInv /\ RefsCounted /\ PipesInv
    BY Zenon DEF IInv, TableInv
  <1>3. CASE ofile[p] = NoFiles
    <2>1. /\ pc' = [pc EXCEPT ![p] = "none"] /\ killed' = [killed EXCEPT ![p] = FALSE]
          /\ file' = file /\ pend' = pend /\ ofile' = ofile
      BY <1>3, Zenon DEF exit_close, Goto
    <2>2. pc' \in [Procs -> Places] /\ pc'[p] = "none" /\ \A q \in Procs \ {p} : pc'[q] = pc[q]
      BY <1>2, <2>1 DEF PipesInv, Places
    <2>3. killed' \in [Procs -> BOOLEAN]
      <3>1. killed \in [Procs -> BOOLEAN] /\ FALSE \in BOOLEAN
        BY <1>2, Zenon DEF PipesInv
      <3>. QED BY <2>1, <3>1, Zenon
    <2>4. PipesInv'
      BY <1>1, <1>2, <2>2, <2>3, Zenon DEF PipesInv
    <2>5. FilesInv' /\ EndInv' /\ RefsCounted'
      BY <1>1, <1>2, <2>1, SameRefs, Zenon DEF FilesInv, EndInv
    <2>6. HoldInv'
      BY <1>1, <1>2, <1>3, <2>1, <2>2 DEF HoldInv
    <2>7. WorkInv'
      BY <1>1, <1>2, <2>1, <2>2 DEF WorkInv
    <2>8. \A q \in Procs : InCall(q)' => InCall(q)
      BY <2>2 DEF InCall
    <2>9. CallInv'
      BY <1>1, <1>2, <2>1, <2>8, Zenon DEF CallInv
    <2>10. EndsOpen'
      BY <1>1, <2>1, Zenon DEF IInv, EndsOpen, Refers
    <2>11. RingIsStream' /\ SleepersMustWait'
      <3>1. \A q \in Procs : pc'[q] \in {"rsleep", "wsleep"} => pc'[q] = pc[q] /\ cur'[q] = cur[q]
        BY <1>1, <2>2
      <3>. QED BY <1>1, <3>1, QuietPipes, Zenon DEF IInv
    <2>. QED BY <2>4, <2>5, <2>6, <2>7, <2>9, <2>10, <2>11, Zenon DEF IInv, TableInv
  <1>4. CASE ofile[p] # NoFiles
    <2>1. PICK fd : /\ fd = CHOOSE e \in argfd(p) : \A d \in argfd(p) : e <= d
                    /\ fileclose(p, ofile[p][fd])
                    /\ ofile' = [ofile EXCEPT ![p][fd] = NoFile]
                    /\ pc' = pc /\ killed' = killed
      BY <1>4, Zenon DEF exit_close
    <2>2. argfd(p) \in SUBSET Nat /\ argfd(p) # {}
      <3>1. argfd(p) \in SUBSET Nat
        BY FilesAssumption DEF argfd, Fds
      <3>2. ofile[p] \in [Fds -> Files \cup {NoFile}]
        BY <1>2, Zenon DEF FilesInv
      <3>3. ASSUME argfd(p) = {} PROVE FALSE
        <4>1. \A e \in Fds : ofile[p][e] = NoFile
          BY <3>3, Zenon DEF argfd
        <4>. QED BY <1>4, <3>2, <4>1 DEF NoFiles
      <3>. QED BY <3>1, <3>3
    <2>3. \E e \in argfd(p) : \A d \in argfd(p) : e <= d
      BY <2>2, Least, Zenon
    <2>4. fd \in argfd(p)
      BY <2>1, <2>3, Zenon
    <2>5. fd \in Fds /\ ofile[p][fd] # NoFile
      BY <2>4, Zenon DEF argfd
    <2>6. pc' = [pc EXCEPT ![p] = "exit"]
      BY <1>1, <1>2, <2>1 DEF PipesInv
    <2>7. pc[p] \in {"user", "exit"} /\ "exit" \in {"close", "exit"}
      BY <1>1
    <2>8. fileclose(p, ofile[p][fd]) /\ ofile' = [ofile EXCEPT ![p][fd] = NoFile] /\ killed' = killed
      BY <2>1
    <2>. QED BY <1>1, <2>5, <2>6, <2>7, <2>8, FdCloseKeeps, Zenon
  <1>. QED BY <1>3, <1>4

\* The error paths of pipealloc() and sys_pipe().
LEMMA CloseNextKeeps ==
    ASSUME IInv, NEW p \in Procs, close_next(p)
    PROVE  IInv'
  <1>1. /\ pc[p] = "close" /\ pend[p] = FD_NONE /\ ofile' = ofile
        /\ pipe' = pipe /\ cur' = cur /\ left' = left /\ killed' = killed /\ cut' = cut
    BY Zenon DEF close_next
  <1>2. FilesInv /\ HoldInv /\ WorkInv /\ EndInv /\ CallInv /\ RefsCounted /\ PipesInv
    BY Zenon DEF IInv, TableInv
  <1>3. CASE work[p] = <<>>
    <2>1. pc' = [pc EXCEPT ![p] = "user"] /\ file' = file /\ work' = work /\ pend' = pend
      BY <1>3, Zenon DEF close_next, Goto
    <2>2. pc' \in [Procs -> Places] /\ pc'[p] = "user" /\ \A q \in Procs \ {p} : pc'[q] = pc[q]
      BY <1>2, <2>1 DEF PipesInv, Places
    <2>3. PipesInv'
      BY <1>1, <1>2, <2>2, Zenon DEF PipesInv
    <2>4. FilesInv' /\ EndInv' /\ RefsCounted'
      BY <1>1, <1>2, <2>1, SameRefs, Zenon DEF FilesInv, EndInv
    <2>5. HoldInv'
      BY <1>1, <1>2, <1>3, <2>1, <2>2 DEF HoldInv
    <2>6. WorkInv'
      <3>1. 1 .. Len(work[p]) = {}
        BY <1>3
      <3>. QED BY <1>1, <1>2, <2>1, <2>2, <3>1 DEF WorkInv
    <2>7. \A q \in Procs : InCall(q)' => InCall(q)
      BY <2>2 DEF InCall
    <2>8. CallInv'
      BY <1>1, <1>2, <2>1, <2>7, Zenon DEF CallInv
    <2>9. EndsOpen'
      BY <1>1, <2>1, Zenon DEF IInv, EndsOpen, Refers
    <2>10. RingIsStream' /\ SleepersMustWait'
      <3>1. \A q \in Procs : pc'[q] \in {"rsleep", "wsleep"} => pc'[q] = pc[q] /\ cur'[q] = cur[q]
        BY <1>1, <2>2
      <3>. QED BY <1>1, <3>1, QuietPipes, Zenon DEF IInv
    <2>. QED BY <2>3, <2>4, <2>5, <2>6, <2>8, <2>9, <2>10, Zenon DEF IInv, TableInv
  <1>4. CASE work[p] # <<>>
    <2>1. fileclose(p, Head(work[p])) /\ work' = [work EXCEPT ![p] = Tail(@)] /\ pc' = pc
      BY <1>4, Zenon DEF close_next
    <2>2. PICK n \in 1 .. 2 : n = Len(work[p])
      <3>1. work[p] \in Seq(Files) /\ Len(work[p]) <= 2
        BY <1>2 DEF FilesInv, HoldInv
      <3>2. Len(work[p]) \in Nat /\ Len(work[p]) # 0
        BY <1>4, <3>1
      <3>3. PICK k \in Nat : k = Len(work[p]) /\ k # 0 /\ k <= 2
        BY <3>1, <3>2
      <3>4. \A i \in Nat : i # 0 /\ i <= 2 => i \in 1 .. 2
        OBVIOUS
      <3>. QED BY <3>3, <3>4, Zenon
    <2>3. 1 \in 1 .. Len(work[p])
      BY <2>2
    <2>4. PICK f \in Files : /\ f = work[p][1] /\ file[f].ref = 1
                             /\ FdRefs(f) = {} /\ WorkRefs(f) = {<<p, 1>>}
      BY <1>2, <2>3, OneWork, Zenon
    <2>5. fileclose(p, f)
      <3>1. Head(work[p]) = f
        BY <2>4
      <3>. QED BY <2>1, <3>1, Zenon
    <2>6. /\ work' \in [Procs -> Seq(Files)] /\ Len(work'[p]) = n - 1
          /\ \A k \in 1 .. n - 1 : work'[p][k] = work[p][k + 1]
          /\ \A q \in Procs \ {p} : work'[q] = work[q]
      <3>1. work \in [Procs -> Seq(Files)]
        BY <1>2 DEF FilesInv
      <3>2. PICK t \in Seq(Files) : /\ t = Tail(work[p]) /\ Len(t) = n - 1
                                    /\ \A k \in 1 .. n - 1 : t[k] = work[p][k + 1]
        <4>1. /\ Tail(work[p]) \in Seq(Files) /\ Len(Tail(work[p])) = Len(work[p]) - 1
              /\ \A k \in 1 .. Len(Tail(work[p])) : Tail(work[p])[k] = work[p][k + 1]
          BY <1>4, <3>1, TailOf, Zenon
        <4>. QED BY <2>2, <4>1
      <3>3. work' = [work EXCEPT ![p] = t]
        BY <2>1, <3>2, Zenon
      <3>. QED BY <3>1, <3>2, <3>3
    <2>. HIDE <2>1
    <2>7. /\ file' \in [Files -> [ref : Nat, end : Ends \cup {FD_NONE}]]
          /\ pend' \in [Procs -> Ends \cup {FD_NONE}]
          /\ \A g \in Files \ {f} : file'[g] = file[g]
          /\ file'[f].ref = file[f].ref - 1
          /\ \A q \in Procs \ {p} : pend'[q] = pend[q]
          /\ EndsApart'
          /\ \A pi \in Pipes, w \in BOOLEAN : Refers(pi, w)' <=> Refers(pi, w)
      <3>1. file[f].ref > 0
        BY <2>4
      <3>. QED BY <1>1, <1>2, <2>5, <3>1, FileClose, Zenon
    <2>8. RefsCounted'
      <3>1. file'[f].ref = 0
        BY <2>4, <2>7
      <3>2. n = 2 => work'[p][1] = work[p][2]
        BY <2>6
      <3>3. work'[p] \in Seq(Files)
        BY <2>6
      <3>. QED BY <1>1, <1>2, <1>4, <2>2, <2>4, <2>6, <2>7, <3>1, <3>2, <3>3, ShiftRefs, ZenonT(60)
    <2>9. FilesInv'
      BY <1>1, <1>2, <2>6, <2>7, Zenon DEF FilesInv
    <2>10. pc' = pc
      BY <2>1
    <2>11. HoldInv'
      <3>1. ASSUME NEW q \in Procs
            PROVE  /\ pc[q] \notin {"pipe1", "pipe2", "close"} => work'[q] = <<>>
                   /\ pc[q] = "pipe1" => Len(work'[q]) = 1
                   /\ pc[q] = "pipe2" => Len(work'[q]) = 2
                   /\ Len(work'[q]) <= 2
                   /\ pc[q] = "none" => ofile[q] = NoFiles
                   /\ pend'[q] # FD_NONE => pc[q] \in {"close", "exit"}
        <4>1. CASE q = p
          <5>1. Len(work'[q]) <= 2
            BY <2>6, <4>1
          <5>2. pc[q] = "close"
            BY <1>1, <4>1
          <5>. QED BY <5>1, <5>2
        <4>2. CASE q # p
          <5>1. work'[q] = work[q] /\ pend'[q] = pend[q]
            BY <2>6, <2>7, <4>2
          <5>. QED BY <1>2, <5>1 DEF HoldInv
        <4>. QED BY <4>1, <4>2
      <3>. QED BY <1>1, <2>10, <3>1, Zenon DEF HoldInv
    <2>12. WorkInv'
      <3>1. ASSUME NEW q \in Procs, NEW k \in 1 .. Len(work'[q])
            PROVE  /\ file'[work'[q][k]].ref = 1
                   /\ pc[q] # "close" => file'[work'[q][k]].end = FD_NONE
        <4>1. PICK j \in 1 .. Len(work[q]) : work'[q][k] = work[q][j] /\ <<q, j>> # <<p, 1>>
          <5>1. CASE q # p
            BY <2>6, <5>1
          <5>2. CASE q = p
            <6>1. k + 1 \in 1 .. Len(work[q]) /\ k + 1 # 1 /\ work'[q][k] = work[q][k + 1]
              BY <2>2, <2>6, <5>2
            <6>. QED BY <6>1
          <5>. QED BY <5>1, <5>2
        <4>2. work[q][j] \in Files /\ WorkRefs(work[q][j]) = {<<q, j>>}
          BY <1>2, OneWork, Zenon
        <4>3. work[q][j] # f
          BY <2>4, <4>1, <4>2, Zenon
        <4>4. file'[work[q][j]] = file[work[q][j]]
          BY <2>7, <4>2, <4>3
        <4>. QED BY <1>2, <4>1, <4>4, Zenon DEF WorkInv
      <3>. QED BY <2>10, <3>1, Zenon DEF WorkInv
    <2>13. ASSUME NEW q \in Procs, NEW e \in Fds, ofile[q][e] # NoFile
           PROVE  file'[ofile[q][e]] = file[ofile[q][e]]
      <3>1. ofile[q][e] \in Files /\ <<q, e>> \in FdRefs(ofile[q][e])
        BY <1>2, <2>13, Descriptor, Zenon
      <3>2. ofile[q][e] # f
        BY <2>4, <3>1, Zenon
      <3>. QED BY <2>7, <3>1, <3>2
    <2>14. EndInv'
      <3>1. \A q \in Procs, e \in Fds : ofile'[q][e] # NoFile => file'[ofile'[q][e]].end # FD_NONE
        <4>1. ASSUME NEW q \in Procs, NEW e \in Fds, ofile[q][e] # NoFile
              PROVE  file'[ofile[q][e]].end # FD_NONE
          <5>1. file'[ofile[q][e]] = file[ofile[q][e]]
            BY <2>13, <4>1, Zenon
          <5>2. file[ofile[q][e]].end # FD_NONE
            BY <1>2, <4>1, Zenon DEF EndInv
          <5>. QED BY <5>1, <5>2, Zenon
        <4>. QED BY <1>1, <4>1, Zenon
      <3>. QED BY <2>7, <3>1, Zenon DEF EndInv, EndsApart
    <2>15. CallInv'
      <3>1. ASSUME NEW q \in Procs, InCall(q)
            PROVE  \E e \in Fds : ofile[q][e] # NoFile /\ file'[ofile[q][e]].end[1] = cur[q]
        <4>1. PICK e \in Fds : ofile[q][e] # NoFile /\ file[ofile[q][e]].end[1] = cur[q]
          BY <1>2, <3>1, Zenon DEF CallInv
        <4>2. file'[ofile[q][e]] = file[ofile[q][e]]
          BY <2>13, <4>1, Zenon
        <4>. QED BY <4>1, <4>2, Zenon
      <3>2. \A q \in Procs : InCall(q)' <=> InCall(q)
        BY <2>10, Zenon DEF InCall
      <3>. QED BY <1>1, <3>1, <3>2, Zenon DEF CallInv
    <2>16. EndsOpen'
      BY <1>1, <2>7, Zenon DEF IInv, EndsOpen
    <2>17. RingIsStream' /\ SleepersMustWait' /\ PipesInv'
      BY <1>1, <1>2, <2>10, QuietPipes, Zenon DEF IInv, PipesInv
    <2>. QED BY <2>8, <2>9, <2>11, <2>12, <2>14, <2>15, <2>16, <2>17, Zenon DEF IInv, TableInv
  <1>. QED BY <1>3, <1>4

\* fileclose() closes its end of the pipe.
LEMMA ClosePipeKeeps ==
    ASSUME IInv, NEW p \in Procs, close_pipe(p)
    PROVE  IInv'
  <1>1. /\ pend[p] # FD_NONE /\ pipeclose(p, pend[p][1], pend[p][2], pc[p])
        /\ pend' = [pend EXCEPT ![p] = FD_NONE] /\ file' = file /\ ofile' = ofile /\ work' = work
    BY Zenon DEF close_pipe
  <1>2. FilesInv /\ HoldInv /\ WorkInv /\ EndInv /\ CallInv /\ RefsCounted /\ PipesInv
    BY Zenon DEF IInv, TableInv
  <1>3. PICK pi \in Pipes, w \in BOOLEAN : pend[p] = <<pi, w>>
    BY <1>1, <1>2 DEF FilesInv, Ends
  <1>4. PICK m \in {"user", "wsleep", "close", "exit"} : m = pc[p] /\ m \in {"close", "exit"}
    BY <1>1, <1>2 DEF HoldInv
  <1>5. PICK l \in {"rsleep", "wsleep"} :
           /\ WakeGoto(pi, l, p, m) /\ (w => l = "rsleep") /\ (~w => l = "wsleep")
           /\ pipeclose(p, pi, w, m) /\ cur' = cur /\ left' = left /\ killed' = killed
    <2>1. pipeclose(p, pi, w, m)
      <3>1. pend[p][1] = pi /\ pend[p][2] = w
        <4>1. <<pi, w>>[1] = pi /\ <<pi, w>>[2] = w
          BY Zenon
        <4>. QED BY <1>3, <4>1, Zenon
      <3>. QED BY <1>1, <1>4, <3>1, Zenon
    <2>2. WakeGoto(pi, IF w THEN "rsleep" ELSE "wsleep", p, m) /\ cur' = cur /\ left' = left /\ killed' = killed
      BY <2>1, Zenon DEF pipeclose
    <2>. QED BY <2>1, <2>2, Zenon
  <1>6. /\ pc' \in [Procs -> Places] /\ pc'[p] = m
        /\ \A q \in Procs \ {p} :
              \/ pc'[q] = pc[q] /\ ~(pc[q] = l /\ cur[q] = pi)
              \/ pc[q] = l /\ cur[q] = pi /\ pc'[q] = IF l = "rsleep" THEN "read" ELSE "write"
    <2>1. PipesInv /\ WakeGoto(pi, l, p, m)
      BY <1>2, <1>5
    <2>. QED BY <2>1, WakeEffect
  <1>7. Refers(pi, w) /\ pipe[pi].alloc
    <2>1. Refers(pi, w)
      BY <1>3, Zenon DEF Refers
    <2>2. CASE w = TRUE
      BY <2>1, <2>2, Zenon DEF IInv, EndsOpen
    <2>3. CASE w = FALSE
      BY <2>1, <2>3, Zenon DEF IInv, EndsOpen
    <2>. QED BY <2>1, <2>2, <2>3, Zenon
  <1>8. /\ pipe' \in [Pipes -> PipeType]
        /\ \A qi \in Pipes \ {pi} : pipe'[qi] = pipe[qi]
        /\ pipe'[pi].readopen <=> pipe[pi].readopen /\ w
        /\ pipe'[pi].writeopen <=> pipe[pi].writeopen /\ ~w
        /\ pipe'[pi].alloc <=> pipe'[pi].readopen \/ pipe'[pi].writeopen
        /\ pipe'[pi].readopen \/ pipe'[pi].writeopen =>
              cut' = cut /\ pipe'[pi].nread = pipe[pi].nread /\ pipe'[pi].nwrite = pipe[pi].nwrite
        /\ \A qi \in cut : qi # pi => qi \in cut'
        /\ RingIsStream'
    BY <1>2, <1>5, <1>7, PipeClose, Zenon DEF IInv
  <1>9. PipesInv'
    BY <1>2, <1>5, <1>6, <1>8, Zenon DEF PipesInv
  <1>10. /\ pend' \in [Procs -> Ends \cup {FD_NONE}] /\ pend'[p] = FD_NONE
         /\ \A q \in Procs \ {p} : pend'[q] = pend[q]
    BY <1>1, <1>2 DEF FilesInv
  <1>11. FilesInv' /\ RefsCounted'
    BY <1>1, <1>2, <1>10, SameRefs, Zenon DEF FilesInv
  \* the step only moves sleepers of the pipe
  <1>12. ASSUME NEW q \in Procs PROVE pc'[q] = pc[q] \/ (InCall(q) /\ pc'[q] \in {"read", "write"})
    <2>1. CASE q = p
      BY <1>4, <1>6, <2>1, Zenon
    <2>2. CASE q # p
      BY <1>6, <2>2 DEF InCall
    <2>. QED BY <2>1, <2>2, Zenon
  <1>13. HoldInv'
    BY <1>1, <1>2, <1>10, <1>12 DEF HoldInv, InCall
  <1>14. WorkInv'
    BY <1>1, <1>2, <1>12 DEF WorkInv, InCall
  <1>15. EndInv'
    BY <1>1, <1>2, <1>10 DEF EndInv
  <1>16. CallInv'
    <2>1. \A q \in Procs : InCall(q)' => InCall(q)
      BY <1>12 DEF InCall
    <2>. QED BY <1>1, <1>2, <1>5, <2>1, Zenon DEF CallInv
  <1>17. ~Refers(pi, w)'
    <2>1. \A g \in Files : file[g].end # <<pi, w>>
      BY <1>1, <1>2, <1>3, Zenon DEF EndInv
    <2>2. \A q \in Procs \ {p} : pend[q] # <<pi, w>>
      BY <1>1, <1>2, <1>3 DEF EndInv
    <2>3. <<pi, w>> # FD_NONE
      BY <1>1, <1>3, Zenon
    <2>4. \A q \in Procs : pend'[q] # <<pi, w>>
      BY <1>10, <2>2, <2>3
    <2>. QED BY <1>1, <2>1, <2>4, Zenon DEF Refers
  <1>18. ASSUME NEW qi \in Pipes, NEW v \in BOOLEAN, <<qi, v>> # <<pi, w>>
         PROVE  Refers(qi, v)' <=> Refers(qi, v)
    <2>1. <<qi, v>> # FD_NONE
      <3>1. <<qi, v>> \in Pipes \X BOOLEAN
        OBVIOUS
      <3>. QED BY <3>1, FilesAssumption, Zenon
    <2>2. \A q \in Procs : pend'[q] = <<qi, v>> <=> pend[q] = <<qi, v>>
      <3>1. pend[p] # <<qi, v>> /\ pend'[p] # <<qi, v>>
        BY <1>3, <1>10, <1>18, <2>1, Zenon
      <3>. QED BY <1>10, <3>1
    <2>. QED BY <1>1, <2>2, Zenon DEF Refers
  <1>19. EndsOpen'
    <2>1. ASSUME NEW qi \in Pipes
          PROVE  /\ pipe'[qi].readopen <=> Refers(qi, FALSE)'
                 /\ pipe'[qi].writeopen <=> Refers(qi, TRUE)'
                 /\ pipe'[qi].alloc <=> (Refers(qi, TRUE) \/ Refers(qi, FALSE))'
      <3>1. CASE qi # pi
        <4>1. <<qi, TRUE>> # <<pi, w>> /\ <<qi, FALSE>> # <<pi, w>>
          BY <3>1, Apart, Zenon
        <4>2. (Refers(qi, TRUE)' <=> Refers(qi, TRUE)) /\ (Refers(qi, FALSE)' <=> Refers(qi, FALSE))
          BY <1>18, <4>1, Zenon
        <4>. QED BY <1>8, <3>1, <4>2, Zenon DEF IInv, EndsOpen
      <3>2. CASE qi = pi
        <4>1. CASE w = TRUE
          <5>1. ~Refers(pi, TRUE)'
            BY <1>17, <4>1, Zenon
          <5>2. Refers(pi, FALSE)' <=> Refers(pi, FALSE)
            <6>1. <<pi, FALSE>> # <<pi, w>>
              BY <4>1, Apart, Zenon
            <6>. QED BY <1>18, <6>1, Zenon
          <5>3. pipe[pi].readopen <=> Refers(pi, FALSE)
            BY Zenon DEF IInv, EndsOpen
          <5>4. ~pipe'[pi].writeopen /\ (pipe'[pi].readopen <=> pipe[pi].readopen)
            BY <1>8, <4>1, Zenon
          <5>. QED BY <1>8, <3>2, <5>1, <5>2, <5>3, <5>4, Zenon
        <4>2. CASE w = FALSE
          <5>1. ~Refers(pi, FALSE)'
            BY <1>17, <4>2, Zenon
          <5>2. Refers(pi, TRUE)' <=> Refers(pi, TRUE)
            <6>1. <<pi, TRUE>> # <<pi, w>>
              BY <4>2, Apart, Zenon
            <6>. QED BY <1>18, <6>1, Zenon
          <5>3. pipe[pi].writeopen <=> Refers(pi, TRUE)
            BY Zenon DEF IInv, EndsOpen
          <5>4. ~pipe'[pi].readopen /\ (pipe'[pi].writeopen <=> pipe[pi].writeopen)
            BY <1>8, <4>2, Zenon
          <5>. QED BY <1>8, <3>2, <5>1, <5>2, <5>3, <5>4, Zenon
        <4>. QED BY <4>1, <4>2, Zenon
      <3>. QED BY <3>1, <3>2
    <2>. QED BY <2>1, Zenon DEF EndsOpen
  <1>20. SleepersMustWait'
    <2>1. ASSUME NEW q \in Procs, pc'[q] = "rsleep"
          PROVE  pipe'[cur'[q]].writeopen /\ (Empty(cur[q])' \/ cur'[q] \in cut')
      <3>1. q # p /\ pc[q] = "rsleep" /\ ~(l = "rsleep" /\ cur[q] = pi) /\ cur[q] \in Pipes
        BY <1>2, <1>4, <1>6, <2>1 DEF PipesInv
      <3>2. pipe[cur[q]].writeopen /\ (Empty(cur[q]) \/ cur[q] \in cut)
        BY <3>1, Zenon DEF IInv, SleepersMustWait
      <3>3. CASE cur[q] # pi
        <4>1. pipe'[cur[q]] = pipe[cur[q]]
          BY <1>8, <3>1, <3>3
        <4>. QED BY <1>5, <1>8, <3>2, <3>3, <4>1, Zenon DEF Empty
      <3>4. CASE cur[q] = pi
        <4>1. ~w
          BY <1>5, <3>1, <3>4, Zenon
        <4>2. pipe'[pi].writeopen
          BY <1>8, <3>2, <3>4, <4>1, Zenon
        <4>3. cut' = cut /\ pipe'[pi].nread = pipe[pi].nread /\ pipe'[pi].nwrite = pipe[pi].nwrite
          BY <1>8, <4>2, Zenon
        <4>. QED BY <1>5, <3>2, <3>4, <4>2, <4>3, Zenon DEF Empty
      <3>. QED BY <3>3, <3>4
    <2>2. ASSUME NEW q \in Procs, pc'[q] = "wsleep"
          PROVE  pipe'[cur'[q]].readopen /\ Full(pipe[cur[q]])'
      <3>1. q # p /\ pc[q] = "wsleep" /\ ~(l = "wsleep" /\ cur[q] = pi) /\ cur[q] \in Pipes
        BY <1>2, <1>4, <1>6, <2>2 DEF PipesInv
      <3>2. pipe[cur[q]].readopen /\ Full(pipe[cur[q]])
        BY <3>1, Zenon DEF IInv, SleepersMustWait
      <3>3. CASE cur[q] # pi
        <4>1. pipe'[cur[q]] = pipe[cur[q]]
          BY <1>8, <3>1, <3>3
        <4>. QED BY <1>5, <3>2, <4>1, Zenon DEF Full
      <3>4. CASE cur[q] = pi
        <4>1. w
          BY <1>5, <3>1, <3>4, Zenon
        <4>2. pipe'[pi].readopen
          BY <1>8, <3>2, <3>4, <4>1, Zenon
        <4>3. pipe'[pi].nread = pipe[pi].nread /\ pipe'[pi].nwrite = pipe[pi].nwrite
          BY <1>8, <4>2, Zenon
        <4>. QED BY <1>5, <3>2, <3>4, <4>2, <4>3, Zenon DEF Full
      <3>. QED BY <3>3, <3>4
    <2>. QED BY <2>1, <2>2, Zenon DEF SleepersMustWait
  <1>. QED
    BY <1>8, <1>9, <1>11, <1>13, <1>14, <1>15, <1>16, <1>19, <1>20, Zenon DEF IInv, TableInv

-----------------------------------------------------------------------------

(* The theorems *)

\* The system starts with no file open and no pipe.
LEMMA Initial == Init => IInv
  <1>. SUFFICES ASSUME Init PROVE IInv
    OBVIOUS
  <1>1. PICK p0 \in Procs : pc = [q \in Procs |-> IF q = p0 THEN "user" ELSE "none"]
    BY Zenon DEF Init
  <1>2. /\ pipe = [pi \in Pipes |-> Fresh] /\ cur = [p \in Procs |-> CHOOSE pi \in Pipes : TRUE]
        /\ left = [p \in Procs |-> 0] /\ killed = [p \in Procs |-> FALSE]
    BY Zenon DEF Init, PipeInit
  <1>3. /\ file = [f \in Files |-> [ref |-> 0, end |-> FD_NONE]] /\ ofile = [p \in Procs |-> NoFiles]
        /\ work = [p \in Procs |-> <<>>] /\ pend = [p \in Procs |-> FD_NONE]
    BY Zenon DEF Init
  <1>4. /\ \A q \in Procs : pc[q] \in {"user", "none"} /\ work[q] = <<>> /\ pend[q] = FD_NONE
        /\ \A q \in Procs, e \in Fds : ofile[q][e] = NoFile
        /\ \A f \in Files : file[f].ref = 0 /\ file[f].end = FD_NONE
    BY <1>1, <1>3 DEF NoFiles
  <1>5. Fresh \in PipeType /\ Fresh.nread = 0 /\ Fresh.nwrite = 0
    BY FreshType, Zenon
  <1>6. ~Fresh.alloc /\ ~Fresh.readopen /\ ~Fresh.writeopen
    BY DEF Fresh
  <1>7. PipesInv
    <2>1. pipe \in [Pipes -> PipeType]
      BY <1>2, <1>5, Zenon
    <2>2. pc \in [Procs -> Places]
      BY <1>1 DEF Places
    <2>3. cur \in [Procs -> Pipes]
      <3>1. (CHOOSE pi \in Pipes : TRUE) \in Pipes
        BY PipesAssumption, Zenon
      <3>. QED BY <1>2, <3>1, Zenon
    <2>4. left \in [Procs -> Nat]
      BY <1>2
    <2>5. killed \in [Procs -> BOOLEAN]
      BY <1>2, Zenon
    <2>. QED BY <2>1, <2>2, <2>3, <2>4, <2>5, Zenon DEF PipesInv
  <1>8. FilesInv
    BY <1>3 DEF FilesInv, NoFiles
  <1>9. HoldInv
    BY <1>3, <1>4 DEF HoldInv
  <1>10. WorkInv
    BY <1>4 DEF WorkInv
  <1>11. EndInv
    BY <1>4, Zenon DEF EndInv
  <1>12. CallInv
    BY <1>4 DEF CallInv, InCall
  <1>13. RefsCounted
    <2>1. ASSUME NEW f \in Files PROVE FdRefs(f) = {} /\ WorkRefs(f) = {}
      <3>1. f # NoFile
        BY FilesAssumption
      <3>2. FdRefs(f) = {}
        BY <1>4, <3>1 DEF FdRefs
      <3>3. WorkRefs(f) = {}
        BY <1>4 DEF WorkRefs
      <3>. QED BY <3>2, <3>3
    <2>2. Cardinality({}) = 0
      BY FS_EmptySet, Zenon
    <2>3. ASSUME NEW f \in Files PROVE file[f].ref = Cardinality(FdRefs(f)) + Cardinality(WorkRefs(f))
      <3>1. Cardinality(FdRefs(f)) = 0 /\ Cardinality(WorkRefs(f)) = 0
        BY <2>1, <2>2, Zenon
      <3>. QED BY <1>4, <3>1
    <2>. QED BY <2>3, Zenon DEF RefsCounted
  <1>14. EndsOpen
    <2>1. ASSUME NEW pi \in Pipes, NEW w \in BOOLEAN PROVE ~Refers(pi, w)
      <3>1. <<pi, w>> # FD_NONE
        <4>1. <<pi, w>> \in Pipes \X BOOLEAN
          OBVIOUS
        <4>. QED BY <4>1, FilesAssumption, Zenon
      <3>2. (\A f \in Files : file[f].end # <<pi, w>>) /\ (\A q \in Procs : pend[q] # <<pi, w>>)
        <4>1. \A x : x # FD_NONE => /\ \A f \in Files : file[f].end # x
                                    /\ \A q \in Procs : pend[q] # x
          BY <1>4
        <4>. QED BY <3>1, <4>1, Zenon
      <3>. QED BY <3>2, Zenon DEF Refers
    <2>2. \A pi \in Pipes : pipe[pi] = Fresh
      BY <1>2
    <2>. QED BY <1>6, <2>1, <2>2, Zenon DEF EndsOpen
  <1>15. RingIsStream
    <2>1. ASSUME NEW pi \in Pipes PROVE Ring(pipe[pi].nread, pipe[pi].nwrite, pipe[pi].data)
      <3>1. pipe[pi] = Fresh
        BY <1>2
      <3>. QED BY <1>5, <3>1, EmptyRing, Zenon
    <2>. QED BY <2>1, Rings, Zenon
  <1>16. SleepersMustWait
    BY <1>4 DEF SleepersMustWait
  <1>. QED
    BY <1>7, <1>8, <1>9, <1>10, <1>11, <1>12, <1>13, <1>14, <1>15, <1>16, Zenon DEF IInv, TableInv

\* Every step keeps the inductive invariant.
LEMMA Inductive == IInv /\ [Next]_vars => IInv'
  <1>. SUFFICES ASSUME IInv, [Next]_vars PROVE IInv'
    OBVIOUS
  <1>1. CASE UNCHANGED vars
    <2>1. /\ pipe' = pipe /\ pc' = pc /\ cur' = cur /\ left' = left /\ killed' = killed /\ cut' = cut
          /\ file' = file /\ ofile' = ofile /\ work' = work /\ pend' = pend
      BY <1>1, Zenon DEF vars
    <2>2. PipesInv' /\ FilesInv' /\ RingIsStream' /\ SleepersMustWait'
      BY <2>1, QuietPipes, Zenon DEF IInv, TableInv, PipesInv, FilesInv
    <2>3. HoldInv' /\ WorkInv' /\ EndInv' /\ CallInv' /\ RefsCounted'
      BY <2>1, SameRefs, Zenon DEF IInv, TableInv, HoldInv, WorkInv, EndInv, CallInv, InCall
    <2>4. EndsOpen'
      BY <2>1, Zenon DEF IInv, EndsOpen, Refers
    <2>. QED BY <2>2, <2>3, <2>4, Zenon DEF IInv, TableInv
  <1>2. ASSUME NEW p \in Procs,
               \/ PipeStep(p) /\ UNCHANGED filevars
               \/ sys_pipe(p)
               \/ pipealloc_second(p)
               \/ pipealloc_bad(p)
               \/ sys_pipe_alloc(p)
               \/ sys_dup(p)
               \/ close_next(p)
               \/ sys_close(p)
               \/ close_pipe(p)
               \/ sys_read(p)
               \/ sys_write(p)
               \/ fork(p)
               \/ exit(p)
               \/ exit_close(p)
        PROVE  IInv'
    <2>1. CASE PipeStep(p) /\ UNCHANGED filevars
      BY <2>1, PipeStepKeeps, Zenon
    <2>2. CASE sys_pipe(p) \/ pipealloc_second(p)
      BY <2>2, FileallocKeeps, Zenon
    <2>3. CASE pipealloc_bad(p)
      BY <2>3, BadKeeps, Zenon
    <2>4. CASE sys_pipe_alloc(p)
      BY <2>4, PipeAllocKeeps, Zenon
    <2>5. CASE sys_dup(p)
      BY <2>5, DupKeeps, Zenon
    <2>6. CASE close_next(p)
      BY <2>6, CloseNextKeeps, Zenon
    <2>7. CASE sys_close(p)
      BY <2>7, SysCloseKeeps, Zenon
    <2>8. CASE close_pipe(p)
      BY <2>8, ClosePipeKeeps, Zenon
    <2>9. CASE sys_read(p) \/ sys_write(p)
      BY <2>9, CallKeeps, Zenon
    <2>10. CASE fork(p)
      BY <2>10, ForkKeeps, Zenon
    <2>11. CASE exit(p)
      BY <2>11, ExitKeeps, Zenon
    <2>12. CASE exit_close(p)
      BY <2>12, ExitCloseKeeps, Zenon
    <2>. QED BY <1>2, <2>1, <2>2, <2>3, <2>4, <2>5, <2>6, <2>7, <2>8, <2>9, <2>10, <2>11, <2>12, Zenon
  <1>. QED BY <1>1, <1>2, Zenon DEF Next

\* The inductive invariant holds throughout.
THEOREM Invariance == Spec => []IInv
  BY Initial, Inductive, PTL DEF Spec

\* Every reference is counted: whatever the interleaving of dup(), fork(), close(),
\* exit() and of pipe() calls that succeed or fail at any point, the ref of every
\* entry of ftable is the number of descriptors and of pointers that name it.
THEOREM ReferencesCounted == Spec => []RefsCounted
  <1>1. IInv => RefsCounted
    BY Zenon DEF IInv, TableInv
  <1>. QED BY <1>1, Invariance, PTL

\* An end of a pipe is open exactly while a file entry or a fileclose() under way
\* refers to it, and the page lives as long: pipeclose() frees it once, and no
\* piperead() or pipewrite() runs on a freed page.
THEOREM EndsMatch == Spec => []EndsMatchFiles
  BY Invariance, InvEnds, PTL

\* A pipe is a first-in first-out queue, for every PIPESIZE that divides the range
\* of the counters: no byte is lost, overwritten or out of order, also across the
\* wrap of nread and nwrite.
THEOREM PipeIsQueue == Spec => []RingIsStream
  <1>1. IInv => RingIsStream
    BY Zenon DEF IInv
  <1>. QED BY <1>1, Invariance, PTL

\* Nobody sleeps on a pipe that could serve it, whoever writes, reads, closes,
\* exits or is killed meanwhile.
THEOREM SleepersWait == Spec => []SleepersMustWait
  <1>1. IInv => SleepersMustWait
    BY Zenon DEF IInv
  <1>. QED BY <1>1, Invariance, PTL
=============================================================================
