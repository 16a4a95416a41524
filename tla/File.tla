-------------------------------- MODULE File --------------------------------
(***************************************************************************)
(* The file table of kernel/file.c with the descriptors of the processes,  *)
(* over pipes: sys_pipe(), sys_dup(), sys_close(), sys_read(), sys_write() *)
(* of kernel/sysfile.c, and what fork() and exit() do to descriptors.  A   *)
(* step is one critical section of ftable.lock or of a pipe, with what the *)
(* process does to its own descriptors around it.                          *)
(***************************************************************************)
EXTENDS Pipe

CONSTANTS
    Files, NoFile,  \* the NFILE entries of ftable
    NOFILE,         \* descriptors of a process
    FD_NONE

ASSUME FilesAssumption ==
    /\ IsFiniteSet(Procs) /\ NOFILE \in Nat
    /\ NoFile \notin Files /\ FD_NONE \notin Pipes \X BOOLEAN

Fds == 0 .. NOFILE - 1

VARIABLES
    file,           \* ftable: ref of every entry, and its pipe and writable, or FD_NONE
    ofile,          \* the descriptors of each process
    work,           \* file pointers in a process's local variables
    pend            \* the end that a process is about to close: <<pipe, writable>>

filevars == <<file, ofile, work, pend>>

vars == <<pipe, pc, cur, left, killed, cut, file, ofile, work, pend>>

NoFiles == [fd \in Fds |-> NoFile]

Init ==
    /\ PipeInit
    /\ \E p \in Procs : pc = [q \in Procs |-> IF q = p THEN "user" ELSE "none"]
    /\ file = [f \in Files |-> [ref |-> 0, end |-> FD_NONE]]
    /\ ofile = [p \in Procs |-> NoFiles]
    /\ work = [p \in Procs |-> <<>>]
    /\ pend = [p \in Procs |-> FD_NONE]

\* A process enters a system call: usertrap() has found it not killed.
Calls(p) == pc[p] = "user" /\ ~killed[p]

\* argfd() accepts these descriptors
argfd(p) == {fd \in Fds : ofile[p][fd] # NoFile}

\* fdalloc(): the lowest descriptor not in use
FreeFd(o) == {fd \in Fds : o[fd] = NoFile /\ \A e \in Fds : e < fd => o[e] # NoFile}

fdalloc(o, f, fd) == [o EXCEPT ![fd] = f]

-----------------------------------------------------------------------------

\* filealloc(): any entry with ref 0; its type is the one fileclose() left
filealloc(p, from, to) ==
    /\ pc[p] = from
    /\ \E f \in Files :
          /\ file[f].ref = 0
          /\ file' = [file EXCEPT ![f].ref = 1]
          /\ work' = [work EXCEPT ![p] = Append(@, f)]
    /\ Goto(p, to)
    /\ UNCHANGED <<pipe, cur, left, killed, cut, ofile, pend>>

sys_pipe(p) == Calls(p) /\ filealloc(p, "user", "pipe1")

pipealloc_second(p) == filealloc(p, "pipe1", "pipe2")

\* pipealloc() fails: no second file structure, or no page
pipealloc_bad(p) ==
    /\ \/ pc[p] = "pipe1" /\ \A f \in Files : file[f].ref > 0
       \/ pc[p] = "pipe2"
    /\ Goto(p, "close")
    /\ UNCHANGED <<pipe, cur, left, killed, cut, filevars>>

\* pipealloc() gets its page; then the descriptors and the copyout() of both
sys_pipe_alloc(p) ==
    /\ pc[p] = "pipe2"
    /\ LET rf == work[p][1]
           wf == work[p][2]
       IN  \E pi \in Pipes :
              /\ ~pipe[pi].alloc
              /\ pipe' = [pipe EXCEPT ![pi] = [Fresh EXCEPT !.alloc = TRUE, !.readopen = TRUE,
                                                            !.writeopen = TRUE]]
              /\ file' = [file EXCEPT ![rf].end = <<pi, FALSE>>, ![wf].end = <<pi, TRUE>>]
              /\ \/ /\ \E fd0 \in FreeFd(ofile[p]) :
                          LET o == fdalloc(ofile[p], rf, fd0)
                          IN  \E fd1 \in FreeFd(o) :
                                 ofile' = [ofile EXCEPT ![p] = fdalloc(o, wf, fd1)]
                    /\ work' = [work EXCEPT ![p] = <<>>]
                    /\ Goto(p, "user")
                 \/ Goto(p, "close") /\ UNCHANGED <<ofile, work>>   \* no descriptor, or a bad address
    /\ UNCHANGED <<cur, left, killed, cut, pend>>

sys_dup(p) ==
    /\ Calls(p)
    /\ \E fd \in argfd(p) :
          /\ \E new \in FreeFd(ofile[p]) :
                ofile' = [ofile EXCEPT ![p] = fdalloc(@, ofile[p][fd], new)]
          /\ file' = [file EXCEPT ![ofile[p][fd]].ref = @ + 1]
    /\ UNCHANGED <<pipevars, work, pend>>

\* Mutant: the entry keeps its type.
fileclose_type(p, f) ==
    /\ file' = [file EXCEPT ![f].ref = @ - 1]
    /\ pend' = [pend EXCEPT ![p] = IF file[f].ref = 1 THEN file[f].end ELSE FD_NONE]

\* fileclose() under ftable.lock: with the last reference the entry is free
\* before the pipe's end is closed
fileclose(p, f) ==
    IF file[f].ref > 1
    THEN file' = [file EXCEPT ![f].ref = @ - 1] /\ UNCHANGED pend
    ELSE /\ file' = [file EXCEPT ![f] = [ref |-> 0, end |-> FD_NONE]]
         /\ pend' = [pend EXCEPT ![p] = file[f].end]

\* the error paths of pipealloc() and sys_pipe() close their files one by one;
\* sys_close() ends here too, with none left
close_next(p) ==
    /\ pc[p] = "close" /\ pend[p] = FD_NONE
    /\ IF work[p] = <<>>
       THEN Goto(p, "user") /\ UNCHANGED <<file, work, pend>>
       ELSE /\ fileclose(p, Head(work[p]))
            /\ work' = [work EXCEPT ![p] = Tail(@)]
            /\ UNCHANGED pc
    /\ UNCHANGED <<pipe, cur, left, killed, cut, ofile>>

sys_close(p) ==
    /\ Calls(p)
    /\ \E fd \in argfd(p) :
          /\ ofile' = [ofile EXCEPT ![p][fd] = NoFile]
          /\ fileclose(p, ofile[p][fd])
    /\ Goto(p, "close")
    /\ UNCHANGED <<pipe, cur, left, killed, cut, work>>

\* fileclose(), once ftable.lock is released
close_pipe(p) ==
    /\ pend[p] # FD_NONE
    /\ pipeclose(p, pend[p][1], pend[p][2], pc[p])
    /\ pend' = [pend EXCEPT ![p] = FD_NONE]
    /\ UNCHANGED <<file, ofile, work>>

\* fileread() and filewrite() of a pipe; the wrong end returns -1
fileread(p, f, n) ==
    /\ ~file[f].end[2]
    /\ cur' = [cur EXCEPT ![p] = file[f].end[1]]
    /\ left' = [left EXCEPT ![p] = n]
    /\ Goto(p, "read")

filewrite(p, f, n) ==
    /\ file[f].end[2]
    /\ cur' = [cur EXCEPT ![p] = file[f].end[1]]
    /\ left' = [left EXCEPT ![p] = n]
    /\ Goto(p, "write")

sys_read(p) ==
    /\ Calls(p)
    /\ \E fd \in argfd(p), n \in Sizes : fileread(p, ofile[p][fd], n)
    /\ UNCHANGED <<pipe, killed, cut, filevars>>

sys_write(p) ==
    /\ Calls(p)
    /\ \E fd \in argfd(p), n \in Sizes : filewrite(p, ofile[p][fd], n)
    /\ UNCHANGED <<pipe, killed, cut, filevars>>

\* Mutant: only the first descriptor of a file counts as a new reference.
Dup_once(o, f) == IF \E fd \in Fds : o[fd] = f THEN 1 ELSE 0

\* the references that fork() adds to f, one filedup() per descriptor
Dup(o, f) == Cardinality({fd \in Fds : o[fd] = f})

fork(p) ==
    /\ Calls(p)
    /\ \E q \in Procs :
          /\ pc[q] = "none"
          /\ ofile' = [ofile EXCEPT ![q] = ofile[p]]
          /\ Goto(q, "user")
    /\ file' = [f \in Files |-> [file[f] EXCEPT !.ref = @ + Dup(ofile[p], f)]]
    /\ UNCHANGED <<pipe, cur, left, killed, cut, work, pend>>

exit(p) ==
    /\ pc[p] = "user"
    /\ Goto(p, "exit")
    /\ UNCHANGED <<pipe, cur, left, killed, cut, filevars>>

\* exit() closes every descriptor in turn; the parent then frees the slot
exit_close(p) ==
    /\ pc[p] = "exit" /\ pend[p] = FD_NONE
    /\ IF ofile[p] = NoFiles
       THEN /\ Goto(p, "none")
            /\ killed' = [killed EXCEPT ![p] = FALSE]
            /\ UNCHANGED <<file, pend, ofile>>
       ELSE LET fd == CHOOSE e \in argfd(p) : \A d \in argfd(p) : e <= d
            IN  /\ fileclose(p, ofile[p][fd])
                /\ ofile' = [ofile EXCEPT ![p][fd] = NoFile]
                /\ UNCHANGED <<pc, killed>>
    /\ UNCHANGED <<pipe, cur, left, cut, work>>

Next ==
    \E p \in Procs :
       \/ PipeStep(p) /\ UNCHANGED filevars
       \/ sys_pipe(p)
       \/ pipealloc_second(p)
       \/ pipealloc_bad(p)
       \/ sys_pipe_alloc(p)
       \/ sys_dup(p)
       \/ close_next(p)
       \/ sys_close(p)
       \/ close_pipe(p)
       \/ sys_read(p)
       \/ sys_write(p)
       \/ fork(p)
       \/ exit(p)
       \/ exit_close(p)

Spec == Init /\ [][Next]_vars

-----------------------------------------------------------------------------

(* Correctness *)

\* the descriptors that name f, and the pointers that calls of sys_pipe() hold
FdRefs(f) == {x \in Procs \X Fds : ofile[x[1]][x[2]] = f}

WorkRefs(f) ==
    {x \in Procs \X (1 .. 2) : x[2] \in DOMAIN work[x[1]] /\ work[x[1]][x[2]] = f}

\* Every reference is counted once: an entry's ref is the number of descriptors,
\* over all processes, that name it, plus the pointers that a sys_pipe() under way
\* holds.  With dup(), fork(), exit() and the error paths of sys_pipe() interleaved,
\* no entry is freed early and none is lost.
RefsCounted ==
    \A f \in Files : file[f].ref = Cardinality(FdRefs(f)) + Cardinality(WorkRefs(f))

\* a file entry, or a fileclose() between ftable.lock and pi->lock, refers to an end of pi
Refers(pi, w) ==
    \/ \E f \in Files : file[f].ref > 0 /\ file[f].end = <<pi, w>>
    \/ \E p \in Procs : pend[p] = <<pi, w>>

\* An end of a pipe is open exactly while some file entry, or a fileclose() between
\* ftable.lock and pi->lock, refers to it, and the page stays allocated just as
\* long.  Hence a process inside piperead() or pipewrite() never touches a freed
\* page, and no pipe page is leaked or freed twice.
EndsMatchFiles ==
    /\ \A pi \in Pipes :
          /\ pipe[pi].readopen <=> Refers(pi, FALSE)
          /\ pipe[pi].writeopen <=> Refers(pi, TRUE)
          /\ pipe[pi].alloc <=> Refers(pi, TRUE) \/ Refers(pi, FALSE)
    /\ \A p \in Procs : pc[p] \in {"read", "write", "rsleep", "wsleep"} => pipe[cur[p]].alloc

\* A pipe is a queue: from nread on, across the wrap of both counters, the ring
\* holds the bytes of the stream that no reader has taken, in their order and none
\* overwritten, and never more than PIPESIZE of them.
RingIsStream ==
    \A pi \in Pipes :
       /\ Used(pi) <= PIPESIZE
       /\ \A k \in 0 .. Used(pi) - 1 :
             LET n == (pipe[pi].nread + k) % Wrap IN pipe[pi].data[n % PIPESIZE] = n

\* Nobody sleeps on a pipe that could serve it: a sleeping reader has an open
\* write end and an empty pipe, unless a kill cut a write short (pipewrite() then
\* returns without the wakeup); a sleeping writer has an open read end and a full pipe.
SleepersMustWait ==
    \A p \in Procs :
       /\ pc[p] = "rsleep" => /\ pipe[cur[p]].writeopen
                              /\ Empty(cur[p]) \/ cur[p] \in cut
       /\ pc[p] = "wsleep" => pipe[cur[p]].readopen /\ Full(pipe[cur[p]])
=============================================================================
