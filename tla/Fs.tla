--------------------------------- MODULE Fs ---------------------------------
(***************************************************************************)
(* Inodes, directories and path names: kernel/fs.c and the system calls of *)
(* kernel/sysfile.c that look up, make and remove names.                   *)
(*                                                                         *)
(* A step of a system call is what it does between two points where it     *)
(* holds no inode lock: locks are taken from parent to child, so what      *)
(* happens under them is one step.  The operators carry the state s of the *)
(* file system through a step as the code does.  A block has BSIZE words;  *)
(* a word is a directory entry, a block number or a datum.                 *)
(***************************************************************************)
EXTENDS Naturals, Sequences, FiniteSets

LOCAL INSTANCE SequencesExt

CONSTANTS
    Threads,
    NINODES,        \* inodes 1 .. NINODES; ROOTINO is 1
    NBLOCKS,        \* data blocks 1 .. NBLOCKS
    NDIRECT,
    BSIZE,          \* words of a block, and so the entries of an indirect block
    Calls,          \* per thread, system calls with their path names
    MaxCalls,       \* bound: system calls with a path name
    Chunk,          \* words that filewrite() writes at a time
    None            \* no inode

Inums == 1 .. NINODES
ROOTINO == 1
Blocks == 1 .. NBLOCKS
NINDIRECT == BSIZE
MAXFILE == NDIRECT + NINDIRECT

T_DIR == "dir"
T_FILE == "file"
T_DEVICE == "device"
Free == "free"

VARIABLES
    s,              \* disk, inode table; ok until a panic()
    th,             \* what every thread does; its cwd and its open file
    gone,           \* history: directories that have no name any more
    orphans,        \* history: per inode, names that vanished with their directory
    raced,          \* history: inodes that were reallocated before iput() was done with them
    up,             \* FALSE after "ilock: no type"
    calls           \* how many system calls there were

vars == <<s, th, gone, orphans, raced, up, calls>>

-----------------------------------------------------------------------------

(* blocks *)

Word(n, i) == [name |-> n, num |-> i]
Zero == Word("", 0)
ZeroBlock == [o \in 0 .. BSIZE - 1 |-> Zero]

panic(f) == [f EXCEPT !.ok = FALSE]

\* the state, and the block or 0
balloc(f) ==
    IF f.free = {} THEN [f |-> f, b |-> 0]
    ELSE LET b == CHOOSE x \in f.free : \A y \in f.free : x <= y
         IN  [f |-> [f EXCEPT !.free = @ \ {b}, !.blk[b] = ZeroBlock], b |-> b]

\* nothing looks at the contents of a free block: zeroes stand for them
bfree(f, b) == [f EXCEPT !.free = @ \cup {b}, !.blk[b] = ZeroBlock, !.ok = @ /\ b \notin f.free]

-----------------------------------------------------------------------------

(* inodes: din on the disk; itable has ref, valid and the copy d *)

NoInode == [type |-> Free, nlink |-> 0, size |-> 0, addrs |-> [a \in 0 .. NDIRECT |-> 0]]

Unreferenced == [ref |-> 0, valid |-> FALSE, d |-> NoInode]

iupdate(f, i) == [f EXCEPT !.din[i] = f.itable[i].d]

iget(f, i) ==
    [f EXCEPT !.itable[i] = IF @.ref > 0 THEN [@ EXCEPT !.ref = @ + 1]
                            ELSE [Unreferenced EXCEPT !.ref = 1]]

idup(f, i) == [f EXCEPT !.itable[i].ref = @ + 1]

\* ilock(), up to its panic() for an inode without type
ilock(f, i) ==
    IF f.itable[i].valid THEN f
    ELSE [f EXCEPT !.itable[i].d = f.din[i], !.itable[i].valid = TRUE]

\* an inode marked on the disk, and referenced; or None
ialloc(f, type) ==
    LET free == {i \in Inums : f.din[i].type = Free}
        i == CHOOSE x \in free : \A y \in free : x <= y
    IN  IF free = {} THEN [f |-> f, i |-> None]
        ELSE [f |-> iget([f EXCEPT !.din[i] = [NoInode EXCEPT !.type = type]], i), i |-> i]

\* the block at ip->addrs[a], allocated when there is none, or 0
Addr(f, i, a) ==
    LET b == f.itable[i].d.addrs[a]
        k == balloc(f)
    IN  IF b # 0 THEN [f |-> f, b |-> b]
        ELSE IF k.b = 0 THEN k
        ELSE [f |-> [k.f EXCEPT !.itable[i].d.addrs[a] = k.b], b |-> k.b]

\* the same for the j-th entry of the indirect block g.b
Listed(g, j) ==
    LET l == balloc(g.f)
    IN  IF g.b = 0 THEN g
        ELSE IF g.f.blk[g.b][j].num # 0 THEN [f |-> g.f, b |-> g.f.blk[g.b][j].num]
        ELSE IF l.b = 0 THEN l
        ELSE [f |-> [l.f EXCEPT !.blk[g.b][j] = Word("", l.b)], b |-> l.b]

\* the block of the bn-th block of inode i, or 0
bmap(f, i, bn) ==
    IF bn >= MAXFILE THEN [f |-> panic(f), b |-> 0]
    ELSE IF bn < NDIRECT THEN Addr(f, i, bn)
    ELSE Listed(Addr(f, i, NDIRECT), bn - NDIRECT)

\* Mutant: itrunc() frees what the indirect block lists, not the block itself.
Indirect_kept(f, b) == f

\* itrunc() has freed what the indirect block b lists
Indirect(f, b) == bfree(f, b)

itrunc(f, i) ==
    LET addrs == f.itable[i].d.addrs
        ind == addrs[NDIRECT]
        Drop(g, b) == IF b = 0 THEN g ELSE bfree(g, b)
        listed == IF ind = 0 THEN <<>> ELSE [j \in 1 .. NINDIRECT |-> f.blk[ind][j - 1].num]
        g == FoldLeft(Drop, f, [a \in 1 .. NDIRECT |-> addrs[a - 1]] \o listed)
        h == IF ind = 0 THEN g ELSE Indirect(g, ind)
    IN  iupdate([h EXCEPT !.itable[i].d = [@ EXCEPT !.addrs = NoInode.addrs, !.size = 0]], i)

\* one word of readi(), inside the size, where bmap() has nothing to allocate
readi(f, i, off) == f.blk[bmap(f, i, off \div BSIZE).b][off % BSIZE]

\* the loop of writei(): a block is found or made, and a word put there unless
\* either_copyin() meets a Fault; the state and the offset it came to
Fault == Word("fault", 0)

RECURSIVE writewords(_, _, _, _)
writewords(f, i, off, ws) ==
    LET b == bmap(f, i, off \div BSIZE)
    IN  IF ws = <<>> THEN [f |-> f, off |-> off]
        ELSE IF b.b = 0 \/ Head(ws) = Fault THEN [f |-> b.f, off |-> off]
        ELSE writewords([b.f EXCEPT !.blk[b.b][off % BSIZE] = Head(ws)], i, off + 1, Tail(ws))

\* writei() after its loop, w
Written(w, i, off) ==
    [f |-> iupdate([w.f EXCEPT !.itable[i].d.size = IF w.off > @ THEN w.off ELSE @], i),
     n |-> w.off - off]

\* the state, and how much was written
writei(f, i, off, ws) ==
    IF off > f.itable[i].d.size \/ off + Len(ws) > MAXFILE * BSIZE THEN [f |-> f, n |-> 0]
    ELSE Written(writewords(f, i, off, ws), i, off)

-----------------------------------------------------------------------------

(* directories *)

Offsets(f, dp) == 0 .. f.itable[dp].d.size - 1

Names(w, name) == w.num # 0 /\ w.name = name

\* the offset of the entry, in a set that is empty when there is none
dirlookup(f, dp, name) == {off \in Offsets(f, dp) : Names(readi(f, dp, off), name)}

Entry(f, dp, name) == readi(f, dp, CHOOSE off \in dirlookup(f, dp, name) : TRUE).num

\* the first empty entry, or the end
Place(f, dp) ==
    CHOOSE x \in 0 .. f.itable[dp].d.size :
       /\ x \in Offsets(f, dp) => readi(f, dp, x).num = 0
       /\ \A y \in 0 .. x - 1 : readi(f, dp, y).num # 0

\* dirlink() after its writei(), w
Linked(w) == [f |-> w.f, ok |-> w.n = 1]

\* the name is not present, and goes to the first empty entry
dirlink(f, dp, name, inum) ==
    IF dirlookup(f, dp, name) # {} THEN [f |-> f, ok |-> FALSE]
    ELSE Linked(writei(f, dp, Place(f, dp), <<Word(name, inum)>>))

isdirempty(f, dp) == \A off \in Offsets(f, dp) \ {0, 1} : readi(f, dp, off).num = 0

SetLinks(f, i, n) == iupdate([f EXCEPT !.itable[i].d.nlink = n], i)

\* Mutant: mkdir() counts the ".." of the new directory before it has a name.
Named_first(f, dp, name, ip, type) ==
    dirlink(IF type = T_DIR THEN SetLinks(f, dp, f.itable[dp].d.nlink + 1) ELSE f, dp, name, ip)

\* a directory that has got a name, n, is one more link to its parent
Counted(n, dp, type) ==
    IF n.ok /\ type = T_DIR THEN [n EXCEPT !.f = SetLinks(@, dp, @.itable[dp].d.nlink + 1)]
    ELSE n

\* the new inode gets its name, and its parent a link for its ".."
Named(f, dp, name, ip, type) == Counted(dirlink(f, dp, name, ip), dp, type)

\* create() from the name on, after the entries "." and "..", n; and its end
NamedIfDotted(n, dp, name, ip, type) == IF n.ok THEN Named(n.f, dp, name, ip, type) ELSE n

Created(n, ip) ==
    [f |-> IF n.ok THEN n.f ELSE SetLinks(n.f, ip, 0), i |-> ip, ok |-> n.ok]

\* the entries "." and "..", of a directory
DotDot(n, dp, ip) == IF n.ok THEN dirlink(n.f, ip, "..", dp) ELSE n

Dotted(f, dp, ip, type) ==
    IF type = T_DIR THEN DotDot(dirlink(f, ip, ".", ip), dp, ip) ELSE [f |-> f, ok |-> TRUE]

\* create() of a name that is not there: the state, the inode, and whether it is named
create(f, dp, name, type) ==
    LET a == ialloc(f, type)
        g == SetLinks(ilock(a.f, a.i), a.i, 1)
    IN  IF a.i = None THEN [f |-> f, i |-> None, ok |-> FALSE]
        ELSE Created(NamedIfDotted(Dotted(g, dp, a.i, type), dp, name, a.i, type), a.i)

-----------------------------------------------------------------------------

\* what a thread does when it is not in a system call
Idle(r) == [r EXCEPT !.pc = "idle", !.goal = "idle", !.path = <<>>, !.new = <<>>,
                            !.ip = None, !.old = None]

\* mkfs rounds the size of the root directory up to whole blocks
RootSize == (2 \div BSIZE + 1) * BSIZE

\* the file system that mkfs makes: a root directory without files
Mkfs ==
    [free |-> Blocks \ {1},
     blk |-> [[b \in Blocks |-> ZeroBlock] EXCEPT ![1][0] = Word(".", ROOTINO), ![1][1] = Word("..", ROOTINO)],
     din |-> [[i \in Inums |-> NoInode] EXCEPT ![ROOTINO] =
                [type |-> T_DIR, nlink |-> 1, size |-> RootSize, addrs |-> [NoInode.addrs EXCEPT ![0] = 1]]],
     itable |-> [i \in Inums |-> Unreferenced],
     ok |-> TRUE]

\* the same after mkdir("/a") and mkdir("/a/b"), and the inode of b
Below(a) == create(a.f, a.i, "b", T_DIR)

Tree == Below(create(ilock(Mkfs, ROOTINO), ROOTINO, "a", T_DIR))

\* all threads are in the root directory, or one in /a/b
Init ==
    \E start \in {[f |-> Mkfs, cwd |-> [t \in Threads |-> ROOTINO]]}
                 \cup {[f |-> tree.f, cwd |-> [[u \in Threads |-> ROOTINO] EXCEPT ![t] = tree.i]] :
                          tree \in {Tree}, t \in Threads} :
       /\ s = [start.f EXCEPT !.itable = [i \in Inums |-> [Unreferenced EXCEPT
                                            !.ref = Cardinality({t \in Threads : start.cwd[t] = i})]]]
       /\ th = [t \in Threads |-> Idle([pc |-> "", goal |-> "", path |-> <<>>, new |-> <<>>, ip |-> None,
                                        old |-> None, puts |-> <<>>, freed |-> FALSE,
                                        cwd |-> start.cwd[t], fd |-> None])]
       /\ gone = {}
       /\ orphans = [i \in Inums |-> 0]
       /\ raced = {}
       /\ up = TRUE
       /\ calls = 0

history == <<gone, orphans, raced, up, calls>>

\* thread t, with nothing left to put, takes a step to r and leaves the state f
Step(t, f, r) == /\ up /\ th[t].puts = <<>>
                 /\ s' = f
                 /\ th' = [th EXCEPT ![t] = r]

nameiparent(goal) == goal \in {"create", T_DIR, T_DEVICE, "unlink", "linkdir"}

\* Mutant: namex() returns 0 and keeps its reference.
NotFound_kept(r) == IF r.goal = "linkdir" THEN [r EXCEPT !.pc = "linkbad", !.ip = None] ELSE Idle(r)

\* namex() returns 0 and puts what it holds; sys_link() then takes back its link
NotFound(r) == [(IF r.goal = "linkdir" THEN [r EXCEPT !.pc = "linkbad", !.ip = None] ELSE Idle(r))
                EXCEPT !.puts = <<r.ip>>]

\* namex() at ip, with the rest of the path: it returns ip at its end, and 0 when it
\* should have stopped one level early
Reached(r, ip, path) ==
    LET q == [r EXCEPT !.ip = ip, !.path = path]
    IN  IF path # <<>> THEN [q EXCEPT !.pc = "namex"]
        ELSE IF nameiparent(r.goal) THEN NotFound(q)
        ELSE [q EXCEPT !.pc = r.goal]

\* namex() starts at the root or at the current directory
Start(f, r, path) ==
    IF Head(path) = "/" THEN [f |-> iget(f, ROOTINO), r |-> Reached(r, ROOTINO, Tail(path))]
    ELSE [f |-> idup(f, r.cwd), r |-> Reached(r, r.cwd, path)]

\* one turn of namex()'s loop
Turn(t, g, r) ==
    LET f == ilock(g, r.ip)
        d == f.itable[r.ip].d
        next == Entry(f, r.ip, Head(r.path))
    IN  /\ IF d.type # T_DIR THEN Step(t, f, NotFound(r))
           ELSE IF nameiparent(r.goal) /\ Len(r.path) = 1 THEN Step(t, f, [r EXCEPT !.pc = r.goal])
           ELSE IF dirlookup(f, r.ip, Head(r.path)) = {} THEN Step(t, f, NotFound(r))
           ELSE Step(t, iget(f, next), [Reached(r, next, Tail(r.path)) EXCEPT !.puts = <<r.ip>>])
        /\ up' = (d.type # Free)
        /\ UNCHANGED <<gone, orphans, raced>>

namex(t) == th[t].pc = "namex" /\ Turn(t, s, th[t]) /\ UNCHANGED calls

\* a system call with a path name: namex() holds what the thread has already,
\* the current directory, or the root, and goes on to its first turn if there is one
syscall(t, call) ==
    LET n == Start(s, [th[t] EXCEPT !.goal = call.op, !.new = call.new], call.path)
    IN  /\ th[t].pc = "idle" /\ calls < MaxCalls
        /\ IF n.r.pc = "namex" THEN Turn(t, n.f, n.r)
           ELSE Step(t, n.f, n.r) /\ UNCHANGED <<gone, orphans, raced, up>>
        /\ calls' = calls + 1

\* the system call locks the inode that namex() returned
Locked(t, pc) == /\ th[t].pc = pc
                 /\ up' = (ilock(s, th[t].ip).itable[th[t].ip].d.type # Free)

\* the system call fails and puts its inode
Refused(r) == [Idle(r) EXCEPT !.puts = <<r.ip>>]

\* the end of sys_open(): the descriptor, or none is free
Opened(r, ip, mode) == IF r.fd = None THEN [Idle(r) EXCEPT !.fd = [ip |-> ip, off |-> 0, w |-> mode # "read"]]
                       ELSE [Idle(r) EXCEPT !.puts = <<ip>>]

Modes == {"read", "write", "trunc"}

\* sys_open() has its inode: a device may have a major number that is none
Opening(t, f, r, mode) ==
    LET type == f.itable[r.ip].d.type
    IN  \/ type = T_DEVICE /\ Step(t, f, Refused(r))
        \/ Step(t, IF mode = "trunc" /\ type = T_FILE /\ r.fd = None THEN itrunc(f, r.ip) ELSE f,
                Opened(r, r.ip, mode))

\* sys_open() without O_CREATE
sys_open(t, mode) ==
    LET r == th[t]
        f == ilock(s, r.ip)
    IN  /\ Locked(t, "open")
        /\ IF f.itable[r.ip].d.type = T_DIR /\ mode # "read" THEN Step(t, f, Refused(r))
           ELSE Opening(t, f, r, mode)
        /\ UNCHANGED <<gone, orphans, raced, calls>>

\* the system call after its create(), c
Made(t, r, type, c) ==
    LET made == IF type = T_FILE THEN Opened(r, c.i, "write") ELSE [Idle(r) EXCEPT !.puts = <<c.i>>]
    IN  IF c.i = None
        THEN Step(t, c.f, Refused(r)) /\ UNCHANGED <<gone, raced>>
        ELSE /\ Step(t, c.f, IF c.ok THEN [made EXCEPT !.puts = <<r.ip>> \o @]
                             ELSE [Idle(r) EXCEPT !.puts = <<c.i, r.ip>>])
             /\ gone' = gone \cup {i \in {c.i} : type = T_DIR /\ ~c.ok}
             /\ raced' = raced \cup {i \in {c.i} : s.itable[i].ref > 0}

\* create() under the lock of the parent, for sys_open(), sys_mkdir(), sys_mknod()
creating(t) ==
    LET r == th[t]
        type == IF r.goal = "create" THEN T_FILE ELSE r.goal
        name == Head(r.path)
        f == ilock(s, r.ip)
    IN  /\ r.goal \in {"create", T_DIR, T_DEVICE} /\ Locked(t, r.goal)
        /\ IF dirlookup(f, r.ip, name) = {}
           THEN Made(t, r, type, create(f, r.ip, name, type))
           ELSE \E found \in {Entry(f, r.ip, name)} :
                   /\ Step(t, iget(f, found),
                           [r EXCEPT !.pc = "existing", !.ip = found, !.puts = <<r.ip>>])
                   /\ UNCHANGED <<gone, raced>>
        /\ UNCHANGED <<orphans, calls>>

\* create() found the name: only a file may be opened
existing(t, mode) ==
    LET r == th[t]
        f == ilock(s, r.ip)
    IN  /\ Locked(t, "existing")
        /\ IF r.goal = "create" /\ f.itable[r.ip].d.type # T_DIR THEN Opening(t, f, r, mode)
           ELSE Step(t, f, Refused(r))
        /\ UNCHANGED <<gone, orphans, raced, calls>>

\* the parent of a directory that has lost its entry
Uncounted(w, dp, type) ==
    IF type = T_DIR THEN SetLinks(w, dp, w.itable[dp].d.nlink - 1) ELSE w

\* sys_unlink() of the entry at off, which names the inode ip
Unlink(t, r, f, off, ip) ==
    LET dp == r.ip
        g == ilock(iget(f, ip), ip)
        d == g.itable[ip].d
        h == Uncounted(writei(g, dp, off, <<Zero>>).f, dp, d.type)
    IN  IF d.type = T_DIR /\ ~isdirempty(g, ip)
        THEN Step(t, g, [Idle(r) EXCEPT !.puts = <<ip, dp>>]) /\ UNCHANGED gone
        ELSE /\ Step(t, SetLinks([h EXCEPT !.ok = @ /\ d.nlink > 0], ip, d.nlink - 1),
                     [Idle(r) EXCEPT !.puts = <<dp, ip>>])
             /\ gone' = gone \cup {i \in {ip} : d.type = T_DIR}

sys_unlink(t) ==
    LET r == th[t]
        name == Head(r.path)
        f == ilock(s, r.ip)
    IN  /\ Locked(t, "unlink")
        /\ IF name \in {".", ".."} \/ dirlookup(f, r.ip, name) = {}
           THEN Step(t, f, Refused(r)) /\ UNCHANGED gone
           ELSE \E off \in dirlookup(f, r.ip, name) : Unlink(t, r, f, off, readi(f, r.ip, off).num)
        /\ UNCHANGED <<orphans, raced, calls>>

\* sys_link() counts the link, and looks for the directory of the new name
sys_link(t) ==
    LET r == th[t]
        f == ilock(s, r.ip)
        d == f.itable[r.ip].d
        n == Start(SetLinks(f, r.ip, d.nlink + 1),
                   [r EXCEPT !.goal = "linkdir", !.new = <<>>, !.old = r.ip], r.new)
    IN  /\ Locked(t, "link")
        /\ IF d.type = T_DIR THEN Step(t, f, Refused(r)) ELSE Step(t, n.f, n.r)
        /\ UNCHANGED <<gone, orphans, raced, calls>>

sys_link_name(t) ==
    LET r == th[t]
    IN  /\ Locked(t, "linkdir")
        /\ \E n \in {dirlink(ilock(s, r.ip), r.ip, Head(r.path), r.old)} :
              Step(t, n.f, IF n.ok THEN [Idle(r) EXCEPT !.puts = <<r.ip, r.old>>]
                           ELSE [r EXCEPT !.pc = "linkbad", !.ip = None, !.puts = <<r.ip>>])
        /\ UNCHANGED <<gone, orphans, raced, calls>>

sys_link_bad(t) ==
    LET r == th[t]
        f == ilock(s, r.old)
    IN  /\ r.pc = "linkbad"
        /\ Step(t, SetLinks(f, r.old, f.itable[r.old].d.nlink - 1), [Idle(r) EXCEPT !.puts = <<r.old>>])
        /\ UNCHANGED history

sys_chdir(t) ==
    LET r == th[t]
        f == ilock(s, r.ip)
    IN  /\ Locked(t, "chdir")
        /\ Step(t, f, IF f.itable[r.ip].d.type # T_DIR THEN Refused(r)
                      ELSE [Idle(r) EXCEPT !.cwd = r.ip, !.puts = <<r.cwd>>])
        /\ UNCHANGED <<gone, orphans, raced, calls>>

\* one turn of filewrite()'s loop for a file, of which k words can be read from the
\* program: all, or those up to the end of a block, since writei() copies block by block
filewrite(t, k) ==
    LET r == th[t]
        f == ilock(s, r.fd.ip)
        ws == [i \in 1 .. Chunk |-> IF i <= k THEN Word("data", 1) ELSE Fault]
        w == writei(f, r.fd.ip, r.fd.off, ws)
    IN  /\ r.pc = "idle" /\ r.fd # None
        /\ r.fd.w /\ f.itable[r.fd.ip].d.type # T_DEVICE
        /\ k \in {0, Chunk} \/ (r.fd.off + k) % BSIZE = 0
        /\ Step(t, w.f, [r EXCEPT !.fd.off = @ + w.n])
        /\ UNCHANGED history

\* fileclose() of the last reference to the file
fileclose(t) ==
    LET r == th[t]
    IN  /\ r.pc = "idle" /\ r.fd # None
        /\ Step(t, s, [r EXCEPT !.fd = None, !.puts = <<r.fd.ip>>])
        /\ UNCHANGED history

\* Mutant: as if the reference were dropped before the test.
LastUse_late(e) == e.ref = 0 /\ e.valid /\ e.d.nlink = 0

\* no other reference and no name: nobody can come by it any more
LastUse(e) == e.ref = 1 /\ e.valid /\ e.d.nlink = 0

\* iput() of an inode that has no name and no other user: freed; it is then put
iput_free(t) ==
    LET r == th[t]
        i == Head(r.puts)
        f == itrunc(s, i)
        lost(j) == Cardinality({off \in Offsets(s, i) \ {0, 1} : readi(s, i, off).num = j})
    IN  /\ up /\ r.puts # <<>> /\ ~r.freed /\ LastUse(s.itable[i])
        /\ s' = [iupdate([f EXCEPT !.itable[i].d.type = Free], i) EXCEPT !.itable[i].valid = FALSE]
        /\ th' = [th EXCEPT ![t].freed = TRUE]
        /\ gone' = gone \ {i} /\ raced' = raced \ {i}
        /\ orphans' = IF s.itable[i].d.type = T_DIR THEN [j \in Inums |-> orphans[j] + lost(j)] ELSE orphans
        /\ UNCHANGED <<up, calls>>

iput(t) ==
    LET r == th[t]
        i == Head(r.puts)
    IN  /\ up /\ r.puts # <<>>
        /\ r.freed \/ ~LastUse(s.itable[i])
        /\ s' = [s EXCEPT !.itable[i] = IF @.ref = 1 THEN Unreferenced ELSE [@ EXCEPT !.ref = @ - 1]]
        /\ th' = [th EXCEPT ![t].puts = Tail(@), ![t].freed = FALSE]
        /\ UNCHANGED history

Next ==
    \E t \in Threads :
       \/ \E call \in Calls[t] : syscall(t, call)
       \/ namex(t)
       \/ \E mode \in Modes : sys_open(t, mode) \/ existing(t, mode)
       \/ creating(t)
       \/ sys_unlink(t)
       \/ sys_link(t)
       \/ sys_link_name(t)
       \/ sys_link_bad(t)
       \/ sys_chdir(t)
       \/ \E k \in 0 .. Chunk : filewrite(t, k)
       \/ fileclose(t)
       \/ iput_free(t)
       \/ iput(t)

Spec == Init /\ [][Next]_vars

-----------------------------------------------------------------------------

\* the bn-th block of inode i on the disk, or 0
BlockOf(i, bn) ==
    LET a == s.din[i].addrs
    IN  IF bn < NDIRECT THEN a[bn]
        ELSE IF a[NDIRECT] = 0 THEN 0 ELSE s.blk[a[NDIRECT]][bn - NDIRECT].num

\* Every block is free in the bitmap, or is a block or the indirect block of
\* exactly one inode; an inode has all the blocks below its size, so readi()
\* allocates none that iupdate() would not record; and no panic() but "ilock: no
\* type" is reached, when balloc() may fail at any block, and either_copyin() after a
\* block was allocated for what it copies (fs.c:64-105, 383-539).
BlocksOwnedOnce ==
    LET uses == {<<i, bn, BlockOf(i, bn)>> : i \in Inums, bn \in 0 .. MAXFILE - 1}
                \cup {<<i, MAXFILE, s.din[i].addrs[NDIRECT]>> : i \in Inums}
        used == {u \in uses : u[3] # 0}
    IN  /\ s.ok
        /\ Cardinality(used) = Cardinality({u[3] : u \in used})
        /\ {u[3] : u \in used} = Blocks \ s.free
        /\ \A i \in Inums, bn \in 0 .. MAXFILE - 1 : bn * BSIZE < s.din[i].size => BlockOf(i, bn) # 0

Dirs == {i \in Inums : s.din[i].type = T_DIR}

DiskWord(d, off) == s.blk[BlockOf(d, off \div BSIZE)][off % BSIZE]

\* nlink is the number of names of an inode: its entries in directories, the ".."
\* of its subdirectories that still have a name, links that sys_link() is about
\* to make, and names that vanished with a directory in which they were made
\* after its removal.  A free inode has no name, so no name but the ".." of a
\* removed directory dangles (sysfile.c:123-302).
LinksCounted ==
    \A i \in Inums :
       LET names == {<<d, off>> \in Dirs \X (2 .. MAXFILE * BSIZE - 1) :
                       off < s.din[d].size /\ DiskWord(d, off).num = i}
           dots == {d \in Dirs \ gone : s.din[d].size > 1 /\ DiskWord(d, 1).num = i}
           linking == {t \in Threads : th[t].old = i}
           n == Cardinality(names) + Cardinality(dots) + Cardinality(linking) + orphans[i]
       IN  n = IF s.din[i].type = Free THEN 0 ELSE s.din[i].nlink

\* The count of an inode-table entry is the number of references that threads,
\* current directories and open files hold, and a valid entry that is in use has
\* what is on the disk: also when iput() frees an inode that ialloc() gives away
\* before its last reference is dropped (fs.c:332-362).
RefsExact ==
    \A i \in Inums :
       LET Held(t) == Cardinality({k \in 1 .. Len(th[t].puts) : th[t].puts[k] = i})
                      + Cardinality({x \in {"ip", "old", "cwd"} : th[t][x] = i})
                      + (IF th[t].fd = None THEN 0 ELSE IF th[t].fd.ip = i THEN 1 ELSE 0)
           Sum(n, t) == n + Held(t)
       IN  /\ s.itable[i].ref = FoldLeft(Sum, 0, SetToSeq(Threads))
           /\ s.itable[i].valid => s.itable[i].d = s.din[i]

\* allocated, without a name and without a user
Lost(i) == s.din[i].type # Free /\ s.din[i].nlink = 0 /\ s.itable[i].ref = 0

\* An inode without a name is in use or free, for every order in which threads
\* drop their references: unless ialloc() gave it away while iput() was still
\* to drop the reference of its last life (fs.c:341-358).
Reclaimed == \A i \in Inums \ raced : ~Lost(i)

\* What the comment of iput() says: "If that was the last reference and the inode
\* has no links to it, free the inode (and its content) on disk" (fs.c:332-333).
\* It does not hold of an inode that ialloc() gave away too early.
ReclaimedAll == \A i \in Inums : ~Lost(i)
=============================================================================
