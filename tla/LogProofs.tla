----------------------------- MODULE LogProofs ------------------------------
(***************************************************************************)
(* Proofs about Log: its inductive invariant, the durability of quiescent  *)
(* states, and that it implements AtomicFs.                                *)
(***************************************************************************)
EXTENDS Log, FiniteSetTheorems, TLAPS

CommitLabels == {"write_log", "write_head", "install", "clear", "done"}

At(l) == \E t \in Threads : pc[t] = l

\* Operations: outstanding counts them, a commit excludes them, and every
\* modified buffer that is not logged yet is locked by one of them.
OpInv ==
    /\ outstanding = Cardinality(Active)
    /\ committing = 1 <=> \E t \in Threads : pc[t] \in CommitLabels
    /\ committing = 1 => Active = {}
    /\ \A t, u \in Threads : pc[t] \in CommitLabels /\ pc[u] \in CommitLabels => t = u
    /\ \A t \in Threads : pc[t] = "logging" <=> buf[t] # NoBlock
    /\ \A t, u \in Threads : buf[t] # NoBlock /\ buf[t] = buf[u] => t = u

NoDup(s) == \A j, k \in DOMAIN s : s[j] = s[k] => j = k

\* The log blocks below k hold what the cache does.
CopiedBelow(k) == \A j \in DOMAIN lh : j < k => logd[j] = cache[lh[j]]

\* The home locations of the log blocks below k hold what those do.
InstalledBelow(k) == \A j \in DOMAIN lh : j < k => home[lh[j]] = logd[j]

\* The header on disk is empty but between the two write_head() of a commit,
\* and what a commit has copied so far is in place.
CommitInv ==
    boot = "up" =>
        /\ ~At("install") /\ ~At("clear") => head = <<>>
        /\ At("write_log")  => tail \in DOMAIN lh /\ CopiedBelow(tail)
        /\ At("write_head") => tail = 1 /\ lh # <<>> /\ CopiedBelow(Len(lh) + 1)
        /\ At("install")    => /\ tail \in DOMAIN lh /\ head = lh
                               /\ CopiedBelow(Len(lh) + 1) /\ InstalledBelow(tail)
        /\ At("clear")      => /\ tail = 1 /\ head = lh
                               /\ CopiedBelow(Len(lh) + 1) /\ InstalledBelow(Len(lh) + 1)
        /\ At("done")       => lh = <<>>

\* A buffer differs from its home block only while it is locked or pinned.
CacheInv ==
    boot = "up" =>
        /\ \A b \in Blocks : ~Logged(b) /\ ~Locked(b) => cache[b] = home[b]
        /\ ~At("install") /\ ~At("clear") => \A b \in Blocks : Logged(b) => pin[b] > 0
        /\ At("install") => \A j \in DOMAIN lh : j >= tail => pin[lh[j]] > 0

\* Recovery: nothing runs, and the log is installed up to tail.
BootInv ==
    boot # "up" =>
        /\ \A t \in Threads : pc[t] = "idle"
        /\ cache = home
        /\ boot = "read_head" => tail = 1
        /\ boot = "install" => tail \in DOMAIN lh /\ lh = head /\ InstalledBelow(tail)
        /\ boot = "clear" => \A j \in DOMAIN head : home[head[j]] = logd[j]

\* With no operation and no commit, the log is empty and nobody waits for space.
QuietInv ==
    boot = "up" /\ Active = {} /\ committing = 0 =>
        lh = <<>> /\ \A t \in Threads : pc[t] # "asleep"

\* An operation has written at most MAXOPBLOCKS blocks, the one it has locked among
\* them; what the operations may still log is reserved.
OpWrote ==
    \A t \in Threads :
        /\ IsFiniteSet(wrote[t]) /\ Cardinality(wrote[t]) <= MAXOPBLOCKS
        /\ t \notin Active => wrote[t] = {}
        /\ buf[t] # NoBlock => buf[t] \in wrote[t]

SpaceInv == OpWrote /\ LogSpace

IInv ==
    /\ TypeOK
    /\ OpInv
    /\ NoDup(lh) /\ NoDup(head)
    /\ CommitInv
    /\ CacheInv
    /\ BootInv
    /\ QuietInv
    /\ SpaceInv

-----------------------------------------------------------------------------

\* A disk made by mkfs has the right types.
LEMMA TypeInitial == Init => TypeOK
  BY SizeAssumption DEF Init, TypeOK, Slots, Labels

\* Every step keeps the types; that the header fits and that install_trans() finds
\* its blocks pinned needs the rest of the invariant.
LEMMA TypeInductive == IInv /\ [Next]_vars => TypeOK'
  <1> SUFFICES ASSUME IInv, [Next]_vars
               PROVE  TypeOK'
    OBVIOUS
  <1> USE SizeAssumption DEF IInv, TypeOK, Slots, disk, opvars
  <1>1. ASSUME NEW t \in Threads, begin_sleep(t)
        PROVE  TypeOK'
    BY <1>1 DEF begin_sleep, Goto, Labels
  <1>2. ASSUME NEW t \in Threads, begin_op(t)
        PROVE  TypeOK'
    BY <1>2 DEF begin_op, Goto, Labels
  <1>3. ASSUME NEW t \in Threads, NEW b \in Blocks, NEW v \in Data,
               modify(t, b, v)
        PROVE  TypeOK'
    BY <1>3 DEF modify, Goto, Labels
  <1>4. ASSUME NEW t \in Threads, log_write(t)
        PROVE  TypeOK'
    <2>1. buf[t] \in Blocks
      BY <1>4 DEF log_write, OpInv
    <2>2. CASE Logged(buf[t])
      BY <1>4, <2>2 DEF log_write, Goto, Labels
    <2>3. CASE ~Logged(buf[t])
      <3>1. lh' = Append(lh, buf[t]) /\ Len(lh) < size - 1
        BY <1>4, <2>3 DEF log_write, TooBig
      <3>2. lh' \in Seq(Blocks) /\ Len(lh') <= size - 1
        BY <2>1, <3>1
      <3>3. pin' = [pin EXCEPT ![buf[t]] = @ + 1] /\ pin[buf[t]] + 1 \in Nat
        BY <1>4, <2>1, <2>3 DEF log_write
      <3>4. pin' \in [Blocks -> Nat]
        BY Zenon, <2>1, <3>3
      <3>5. buf' \in [Threads -> Blocks \cup {NoBlock}] /\ pc' \in [Threads -> Labels]
        BY Zenon, <1>4 DEF log_write, Goto, Labels
      <3>. QED BY Zenon, <1>4, <3>2, <3>4, <3>5 DEF log_write
    <2>. QED BY Zenon, <2>2, <2>3
  <1>5. ASSUME NEW t \in Threads, log_write_panic(t)
        PROVE  TypeOK'
    BY <1>5 DEF log_write_panic
  <1>6. ASSUME NEW b \in Blocks, evict(b)
        PROVE  TypeOK'
    BY <1>6 DEF evict
  <1>7. ASSUME NEW t \in Threads, end_op(t)
        PROVE  TypeOK'
    BY <1>7 DEF end_op, GotoWaking, Labels
  <1>8. ASSUME NEW t \in Threads, end_op_last(t)
        PROVE  TypeOK'
    BY <1>8 DEF end_op_last, Goto, Labels
  <1>9. ASSUME NEW t \in Threads, write_log(t)
        PROVE  TypeOK'
    <2>1. tail \in DOMAIN lh
      BY <1>9 DEF write_log, CommitInv, At, Up
    <2>2. cache[lh[tail]] \in Data /\ tail \in 1 .. Len(lh)
      BY <2>1
    <2>3. tail' \in Slots
      <3>1. Len(lh) \in Nat /\ Len(lh) <= size - 1
        OBVIOUS
      <3>2. (tail < Len(lh) /\ tail' = tail + 1) \/ tail' = 1
        BY Zenon, <1>9 DEF write_log
      <3> HIDE DEF IInv, TypeOK
      <3>. QED BY <2>2, <3>1, <3>2
    <2>5. pc' \in [Threads -> Labels]
      BY Zenon, <1>9 DEF write_log, Goto, Labels
    <2>4. logd' \in [Slots -> Data]
      BY <1>9, <2>2 DEF write_log
    <2>. QED BY Zenon, <1>9, <2>3, <2>4, <2>5 DEF write_log
  <1>10. ASSUME NEW t \in Threads, write_head(t)
        PROVE  TypeOK'
    BY <1>10 DEF write_head, Goto, Labels
  <1>11. ASSUME NEW t \in Threads, install_trans(t)
        PROVE  TypeOK'
    <2>1. tail \in DOMAIN lh /\ pin[lh[tail]] > 0
      BY <1>11 DEF install_trans, CommitInv, CacheInv, At, Up
    <2>2. tail \in 1 .. Len(lh) /\ lh[tail] \in Blocks
      BY <2>1
    <2>3. tail' \in Slots
      <3>1. Len(lh) \in Nat /\ Len(lh) <= size - 1
        OBVIOUS
      <3>2. (tail < Len(lh) /\ tail' = tail + 1) \/ tail' = 1
        BY Zenon, <1>11 DEF install_trans
      <3> HIDE DEF IInv, TypeOK
      <3>. QED BY <2>2, <3>1, <3>2
    <2>5. pc' \in [Threads -> Labels]
      BY Zenon, <1>11 DEF install_trans, Goto, Labels
    <2>4. /\ home' \in [Blocks -> Data] /\ cache' \in [Blocks -> Data]
          /\ pin' \in [Blocks -> Nat]
      <3>1. logd[tail] \in Data
        <4>1. tail \in Slots
          BY <2>2
        <4>. QED BY Zenon, <4>1
      <3>2. pin[lh[tail]] - 1 \in Nat
        BY <2>1, <2>2
      <3>. QED BY Zenon, <1>11, <2>2, <3>1, <3>2 DEF install_trans, install1
    <2>. QED BY Zenon, <1>11, <2>3, <2>4, <2>5 DEF install_trans
  <1>12. ASSUME NEW t \in Threads, clear_head(t)
        PROVE  TypeOK'
    BY <1>12 DEF clear_head, Goto, Labels
  <1>13. ASSUME NEW t \in Threads, commit_done(t)
        PROVE  TypeOK'
    BY <1>13 DEF commit_done, GotoWaking, Labels
  <1>14. ASSUME crash
        PROVE  TypeOK'
    BY <1>14 DEF crash, Labels
  <1>15. ASSUME read_head
        PROVE  TypeOK'
    BY <1>15 DEF read_head
  <1>16. ASSUME recover_install
        PROVE  TypeOK'
    BY <1>16 DEF recover_install, install1, BootInv
  <1>17. ASSUME recover_clear
        PROVE  TypeOK'
    BY <1>17 DEF recover_clear
  <1>18. CASE UNCHANGED vars
    BY <1>18 DEF vars
  <1>. QED
    BY Zenon, <1>1, <1>2, <1>3, <1>4, <1>5, <1>6, <1>7, <1>8, <1>9, <1>10, <1>11, <1>12, <1>13, <1>14, <1>15, <1>16, <1>17, <1>18
    DEF Next, BeginStep, EndStep, CommitStep, RecoverStep

-----------------------------------------------------------------------------

\* There are finitely many operations.
LEMMA ActiveFinite == IsFiniteSet(Active)
  BY ThreadAssumption, FS_Subset DEF Active

\* At boot there is no operation and no commit.
LEMMA OpInitial == Init => OpInv
  <1> SUFFICES ASSUME Init
               PROVE  OpInv
    OBVIOUS
  <1>1. Active = {}
    BY DEF Init, Active
  <1>2. outstanding = Cardinality(Active)
    BY <1>1, FS_EmptySet DEF Init
  <1>. QED BY <1>1, <1>2 DEF Init, OpInv, CommitLabels

\* begin_op() and end_op() keep count of the operations, whatever happens between.
LEMMA OpInductive == IInv /\ [Next]_vars => OpInv'
  <1> SUFFICES ASSUME IInv, [Next]_vars
               PROVE  OpInv'
    OBVIOUS
  <1>a. /\ pc \in [Threads -> Labels] /\ buf \in [Threads -> Blocks \cup {NoBlock}]
        /\ outstanding \in Nat /\ committing \in {0, 1}
    BY DEF IInv, TypeOK
  <1>b. OpInv
    BY DEF IInv
  <1>1. ASSUME NEW t \in Threads, begin_sleep(t)
        PROVE  OpInv'
    <2>1. Active' = Active
      BY <1>1, <1>a DEF begin_sleep, Goto, Active
    <2>. QED BY <1>1, <1>a, <1>b, <2>1 DEF begin_sleep, Goto, OpInv, CommitLabels
  <1>2. ASSUME NEW t \in Threads, begin_op(t)
        PROVE  OpInv'
    <2>1. Active' = Active \cup {t} /\ t \notin Active
      BY <1>2, <1>a DEF begin_op, Goto, Active
    <2>2. outstanding' = Cardinality(Active')
      BY Zenon, <1>2, <1>a, <1>b, <2>1, ActiveFinite, FS_AddElement DEF begin_op, OpInv
    <2>. QED BY <1>2, <1>a, <1>b, <2>1, <2>2 DEF begin_op, MustWait, Goto, OpInv, CommitLabels
  <1>3. ASSUME NEW t \in Threads, NEW b \in Blocks, NEW v \in Data, modify(t, b, v)
        PROVE  OpInv'
    <2>1. Active' = Active
      BY <1>3, <1>a DEF modify, Goto, Active
    <2>. QED BY <1>3, <1>a, <1>b, <2>1, BlockAssumption
         DEF modify, Goto, Locked, OpInv, CommitLabels
  <1>4. ASSUME NEW t \in Threads, log_write(t)
        PROVE  OpInv'
    <2>1. Active' = Active
      BY <1>4, <1>a DEF log_write, Goto, Active
    <2>. QED BY <1>4, <1>a, <1>b, <2>1 DEF log_write, Goto, OpInv, CommitLabels
  <1>5. ASSUME NEW t \in Threads, end_op(t)
        PROVE  OpInv'
    <2>1. Active' = Active \ {t} /\ t \in Active
      BY <1>5, <1>a DEF end_op, GotoWaking, Active
    <2>2. outstanding' = Cardinality(Active')
      BY Zenon, <1>5, <1>a, <1>b, <2>1, ActiveFinite, FS_RemoveElement DEF end_op, OpInv
    <2>. QED BY <1>5, <1>a, <1>b, <2>1, <2>2 DEF end_op, GotoWaking, OpInv, CommitLabels
  <1>6. ASSUME NEW t \in Threads, end_op_last(t)
        PROVE  OpInv'
    <2>1. Active' = Active \ {t} /\ t \in Active
      BY <1>6, <1>a DEF end_op_last, Goto, Active
    <2>2. Cardinality(Active') = 0
      <3>1. Cardinality(Active) = 1
        BY <1>6, <1>b DEF end_op_last, OpInv
      <3>2. Cardinality(Active \ {t}) = Cardinality(Active) - 1
        BY <2>1, ActiveFinite, FS_RemoveElement
      <3>. QED BY <2>1, <3>1, <3>2
    <2>3. Active' = {}
      BY Zenon, <2>1, <2>2, ActiveFinite, FS_RemoveElement, FS_EmptySet
    <2>. QED BY <1>6, <1>a, <1>b, <2>1, <2>2, <2>3 DEF end_op_last, Goto, OpInv, CommitLabels
  <1>7. ASSUME NEW t \in Threads, write_log(t)
        PROVE  OpInv'
    <2>1. Active' = Active
      BY <1>7, <1>a DEF write_log, Goto, Active
    <2>. QED BY <1>7, <1>a, <1>b, <2>1 DEF write_log, Goto, OpInv, CommitLabels
  <1>8. ASSUME NEW t \in Threads, write_head(t)
        PROVE  OpInv'
    <2>1. Active' = Active
      BY <1>8, <1>a DEF write_head, Goto, Active
    <2>. QED BY <1>8, <1>a, <1>b, <2>1 DEF write_head, Goto, OpInv, CommitLabels
  <1>9. ASSUME NEW t \in Threads, install_trans(t)
        PROVE  OpInv'
    <2>1. Active' = Active
      BY <1>9, <1>a DEF install_trans, Goto, Active
    <2>. QED BY <1>9, <1>a, <1>b, <2>1 DEF install_trans, Goto, OpInv, CommitLabels
  <1>10. ASSUME NEW t \in Threads, clear_head(t)
        PROVE  OpInv'
    <2>1. Active' = Active
      BY <1>10, <1>a DEF clear_head, Goto, Active
    <2>. QED BY <1>10, <1>a, <1>b, <2>1 DEF clear_head, Goto, OpInv, CommitLabels
  <1>11. ASSUME NEW t \in Threads, commit_done(t)
         PROVE  OpInv'
    <2>1. Active' = Active
      BY <1>11, <1>a DEF commit_done, GotoWaking, Active
    <2>. QED BY <1>11, <1>a, <1>b, <2>1 DEF commit_done, GotoWaking, OpInv, CommitLabels
  <1>12. CASE crash
    <2>1. Active' = {}
      BY <1>12 DEF crash, Active
    <2>2. outstanding' = Cardinality(Active')
      BY <1>12, <2>1, FS_EmptySet DEF crash
    <2>. QED BY <1>12, <2>1, <2>2 DEF crash, OpInv, CommitLabels
  <1>13. CASE UNCHANGED <<pc, buf, outstanding, committing>>
    BY <1>13, <1>b DEF OpInv, Active
  <1>14. ASSUME NEW t \in Threads, log_write_panic(t)
         PROVE  OpInv'
    BY <1>13, <1>14 DEF log_write_panic, opvars
  <1>15. ASSUME NEW b \in Blocks, evict(b)
         PROVE  OpInv'
    BY <1>13, <1>15 DEF evict, opvars
  <1>16. CASE RecoverStep
    BY <1>13, <1>16 DEF RecoverStep, read_head, recover_install, recover_clear, opvars
  <1>17. CASE UNCHANGED vars
    BY <1>13, <1>17 DEF vars
  <1>. QED
    BY Zenon, <1>1, <1>2, <1>3, <1>4, <1>5, <1>6, <1>7, <1>8, <1>9, <1>10, <1>11, <1>12,
       <1>14, <1>15, <1>16, <1>17
    DEF Next, BeginStep, EndStep, CommitStep

-----------------------------------------------------------------------------

LogInv == NoDup(lh) /\ NoDup(head) /\ CommitInv /\ CacheInv /\ BootInv

\* While an operation is active nobody is in commit().
LEMMA ActiveExcludesCommit ==
  ASSUME OpInv, Active # {}
  PROVE  \A l \in CommitLabels : ~At(l)
  BY DEF OpInv, At

\* There is one committer.
LEMMA OneCommitter ==
  ASSUME OpInv, NEW t \in Threads, pc[t] \in CommitLabels
  PROVE  \A l \in CommitLabels : At(l) <=> pc[t] = l
  BY DEF OpInv, At

\* Append adds its element, at the end.
LEMMA AppendElements ==
  ASSUME NEW s \in Seq(Blocks), NEW e \in Blocks
  PROVE  \A c : (\E k \in DOMAIN Append(s, e) : Append(s, e)[k] = c)
                  <=> (\E k \in DOMAIN s : s[k] = c) \/ c = e
  <1> DEFINE a == Append(s, e)
  <1>1. DOMAIN a = 1 .. Len(s) + 1 /\ DOMAIN s = 1 .. Len(s) /\ Len(s) \in Nat
    OBVIOUS
  <1>2. a[Len(s) + 1] = e /\ \A k \in 1 .. Len(s) : a[k] = s[k]
    OBVIOUS
  <1> HIDE DEF a
  <1>3. \A c : (\E k \in DOMAIN a : a[k] = c) <=> (\E k \in DOMAIN s : s[k] = c) \/ c = e
    <2> TAKE c
    <2>1. ASSUME NEW k \in DOMAIN a, a[k] = c
          PROVE  (\E j \in DOMAIN s : s[j] = c) \/ c = e
      BY <1>1, <1>2, <2>1
    <2>2. ASSUME NEW j \in DOMAIN s, s[j] = c
          PROVE  \E k \in DOMAIN a : a[k] = c
      BY <1>1, <1>2, <2>2
    <2>3. ASSUME c = e
          PROVE  \E k \in DOMAIN a : a[k] = c
      BY <1>1, <1>2, <2>3
    <2>. QED BY <2>1, <2>2, <2>3
  <1>. QED BY <1>3 DEF a

\* An operation's step keeps LogInv if it leaves the log and the disk alone.
LEMMA SameLog ==
  ASSUME IInv, UNCHANGED <<home, head, logd, cache, pin, lh, tail, boot>>, boot = "up",
         \A b \in Blocks : Locked(b)' <=> Locked(b),
         \A l \in CommitLabels : At(l)' <=> At(l)
  PROVE  LogInv'
  <1>1. CommitInv'
    BY DEF IInv, CommitInv, CommitLabels, CopiedBelow, InstalledBelow
  <1>2. CacheInv'
    BY DEF IInv, CacheInv, CommitLabels, Logged
  <1>. QED BY <1>1, <1>2 DEF IInv, LogInv, NoDup, BootInv

\* Recycling a buffer loses nothing: what is not on disk is pinned or locked.
LEMMA EvictKeepsCache ==
  ASSUME IInv, NEW b \in Blocks, evict(b)
  PROVE  cache' = cache
  <1>a. /\ lh \in Seq(Blocks) /\ pin \in [Blocks -> Nat]
        /\ home \in [Blocks -> Data] /\ cache \in [Blocks -> Data]
    BY DEF IInv, TypeOK
  <1>b. CommitInv /\ CacheInv
    BY DEF IInv
  <1>1. boot = "up" /\ pin[b] = 0 /\ ~Locked(b)
    BY DEF evict, Up
  <1>2. ASSUME Logged(b)
        PROVE  cache[b] = home[b]
    <2>1. PICK k \in DOMAIN lh : lh[k] = b
      BY <1>2 DEF Logged
    <2>2. At("install") \/ At("clear")
      BY <1>a, <1>b, <1>1, <1>2 DEF CacheInv
    <2>3. k < Len(lh) + 1 /\ k \in Nat /\ Len(lh) \in Nat
      BY <1>a, <2>1
    <2>4. CASE At("install")
      <3>1. CopiedBelow(Len(lh) + 1) /\ InstalledBelow(tail) /\ tail \in DOMAIN lh
        BY <1>b, <1>1, <2>4 DEF CommitInv
      <3>2. k < tail
        <4>1. ~(k >= tail)
          <5>1. pin[lh[k]] = 0
            BY Zenon, <1>1, <2>1
          <5>2. ~(pin[lh[k]] > 0)
            BY <5>1
          <5>. QED BY Zenon, <1>b, <1>1, <2>1, <2>4, <5>2 DEF CacheInv
        <4>2. tail \in Nat
          BY <1>a, <3>1
        <4>. QED BY <2>3, <4>1, <4>2
      <3>3. logd[k] = cache[lh[k]] /\ home[lh[k]] = logd[k]
        BY <2>1, <2>3, <3>1, <3>2 DEF CopiedBelow, InstalledBelow
      <3>. QED BY <2>1, <3>3
    <2>5. CASE At("clear")
      <3>1. CopiedBelow(Len(lh) + 1) /\ InstalledBelow(Len(lh) + 1)
        BY <1>b, <1>1, <2>5 DEF CommitInv
      <3>2. logd[k] = cache[lh[k]] /\ home[lh[k]] = logd[k]
        BY <2>1, <2>3, <3>1 DEF CopiedBelow, InstalledBelow
      <3>. QED BY <2>1, <3>2
    <2>. QED BY <2>2, <2>4, <2>5
  <1>. QED
    BY <1>a, <1>b, <1>1, <1>2 DEF evict, CacheInv

\* At boot the log in memory is empty, and the cache is the disk.
LEMMA LogInitial == Init => LogInv
  BY DEF Init, LogInv, NoDup, CommitInv, CacheInv, BootInv

\* Every step, crash and recovery included, keeps log, header, cache and home
\* locations related as the stage of the commit demands.
LEMMA LogInductive == IInv /\ [Next]_vars => LogInv'
  <1> SUFFICES ASSUME IInv, [Next]_vars
               PROVE  LogInv'
    OBVIOUS
  <1>a. /\ pc \in [Threads -> Labels] /\ buf \in [Threads -> Blocks \cup {NoBlock}]
        /\ lh \in Seq(Blocks) /\ head \in Seq(Blocks) /\ pin \in [Blocks -> Nat]
        /\ home \in [Blocks -> Data] /\ cache \in [Blocks -> Data]
        /\ Len(lh) <= size - 1 /\ tail \in Slots /\ logd \in [Slots -> Data]
    BY DEF IInv, TypeOK
  <1>b. OpInv /\ NoDup(lh) /\ NoDup(head) /\ CommitInv /\ CacheInv /\ BootInv
    BY DEF IInv
  <1>1. ASSUME NEW t \in Threads, begin_sleep(t)
        PROVE  LogInv'
    <2>1. \A l \in CommitLabels : At(l)' <=> At(l)
      BY <1>1, <1>a DEF begin_sleep, Goto, At, CommitLabels
    <2>. QED BY <1>1, <2>1, SameLog DEF begin_sleep, Up, disk, Locked
  <1>2. ASSUME NEW t \in Threads, begin_op(t)
        PROVE  LogInv'
    <2>1. \A l \in CommitLabels : At(l)' <=> At(l)
      BY Zenon, <1>2, <1>a DEF begin_op, Goto, At, CommitLabels
    <2>. QED BY <1>2, <2>1, SameLog DEF begin_op, Up, disk, Locked
  <1>3. ASSUME NEW t \in Threads, NEW b \in Blocks, NEW v \in Data, modify(t, b, v)
        PROVE  LogInv'
    <2>1. \A l \in CommitLabels : ~At(l) /\ ~At(l)'
      <3>1. t \in Active
        BY <1>3 DEF modify, Active
      <3>2. \A l \in CommitLabels : ~At(l)
        BY Zenon, <3>1, <1>b, ActiveExcludesCommit
      <3>. QED BY <3>2, <1>3, <1>a DEF modify, Goto, At, CommitLabels
    <2>2. CommitInv'
      BY Zenon, <1>3, <1>b, <2>1 DEF modify, CommitInv, CommitLabels, disk
    <2>3. CacheInv'
      <3>1. \A c \in Blocks : Locked(c)' <=> Locked(c) \/ c = b
        BY Zenon, <1>3, <1>a, <1>b, BlockAssumption DEF modify, Locked, OpInv
      <3>. QED BY Zenon, <1>3, <1>a, <1>b, <2>1, <3>1
           DEF modify, CacheInv, CommitLabels, disk, Logged
    <2>. QED BY ZenonT(60), <1>3, <1>b, <2>2, <2>3 DEF modify, LogInv, NoDup, BootInv, disk, Up

  <1>4. ASSUME NEW t \in Threads, log_write(t)
        PROVE  LogInv'
    <2>1. \A l \in CommitLabels : ~At(l) /\ ~At(l)'
      <3>1. t \in Active
        BY <1>4 DEF log_write, Active
      <3>2. \A l \in CommitLabels : ~At(l)
        BY Zenon, <3>1, <1>b, ActiveExcludesCommit
      <3>. QED BY <3>2, <1>4, <1>a DEF log_write, Goto, At, CommitLabels
    <2>2. CommitInv'
      BY Zenon, <1>4, <1>b, <2>1 DEF log_write, CommitInv, CommitLabels, disk
    <2>3. buf[t] \in Blocks /\ \A c \in Blocks : Locked(c) <=> Locked(c)' \/ c = buf[t]
      BY Zenon, <1>4, <1>a, <1>b, BlockAssumption DEF log_write, Locked, OpInv
    <2>4. /\ \A c \in Blocks : Logged(c)' <=> Logged(c) \/ c = buf[t]
          /\ NoDup(lh)'
          /\ \A c \in Blocks : Logged(c)' => pin'[c] > 0
      <3>0. \A c \in Blocks : Logged(c) => pin[c] > 0
        BY Zenon, <1>4, <1>b, <2>1 DEF log_write, CacheInv, CommitLabels, Up
      <3>1. CASE Logged(buf[t])
        BY Zenon, <1>4, <1>b, <3>0, <3>1 DEF log_write, Logged, NoDup
      <3>2. CASE ~Logged(buf[t])
        <4>1. lh' = Append(lh, buf[t]) /\ pin' = [pin EXCEPT ![buf[t]] = @ + 1]
          BY <1>4, <3>2 DEF log_write
        <4>2. \A c \in Blocks : Logged(c)' <=> Logged(c) \/ c = buf[t]
          <5>1. \A c : (\E k \in DOMAIN Append(lh, buf[t]) : Append(lh, buf[t])[k] = c)
                         <=> (\E k \in DOMAIN lh : lh[k] = c) \/ c = buf[t]
            <6>1. lh \in Seq(Blocks) /\ buf[t] \in Blocks
              BY <1>a, <2>3
            <6>. QED BY <6>1, AppendElements, Zenon
          <5>. QED BY <4>1, <5>1 DEF Logged
        <4>3. NoDup(lh)'
          <5> DEFINE s == Append(lh, buf[t])
          <5>0. Len(lh) \in Nat /\ DOMAIN lh = 1 .. Len(lh)
            BY <1>a
          <5>1. /\ DOMAIN s = 1 .. Len(lh) + 1 /\ s[Len(lh) + 1] = buf[t]
                /\ \A k \in 1 .. Len(lh) : s[k] = lh[k]
            BY <1>a, <2>3
          <5>2. \A k \in 1 .. Len(lh) : lh[k] # buf[t]
            BY Zenon, <3>2, <5>0 DEF Logged
          <5>3. \A j, k \in 1 .. Len(lh) : lh[j] = lh[k] => j = k
            BY Zenon, <1>b, <5>0 DEF NoDup
          <5> HIDE DEF s
          <5>4. \A j, k \in DOMAIN s : s[j] = s[k] => j = k
            BY <5>0, <5>1, <5>2, <5>3
          <5>. QED BY Zenon, <4>1, <5>4 DEF NoDup, s
        <4>. QED BY <1>a, <2>3, <3>0, <4>1, <4>2, <4>3
      <3>. QED BY Zenon, <3>1, <3>2
    <2>5. CacheInv'
      BY Zenon, <1>4, <1>a, <1>b, <2>1, <2>3, <2>4 DEF log_write, CacheInv, CommitLabels, disk
    <2>. QED BY Zenon, <1>4, <1>b, <2>2, <2>4, <2>5 DEF log_write, LogInv, NoDup, BootInv, disk, Up
  <1>5. ASSUME NEW t \in Threads, log_write_panic(t)
        PROVE  LogInv'
    BY Zenon, <1>5, SameLog DEF log_write_panic, opvars, Up, disk, Locked, At
  <1>6. ASSUME NEW b \in Blocks, evict(b)
        PROVE  LogInv'
    BY Zenon, <1>6, EvictKeepsCache, SameLog DEF evict, opvars, Up, disk, Locked, At
  <1>7. ASSUME NEW t \in Threads, end_op(t)
        PROVE  LogInv'
    <2>1. \A l \in CommitLabels : At(l)' <=> At(l)
      BY ZenonT(60), <1>7, <1>a DEF end_op, GotoWaking, At, CommitLabels
    <2>. QED BY <1>7, <2>1, SameLog DEF end_op, Up, disk, Locked
  <1>8. ASSUME NEW t \in Threads, end_op_last(t)
        PROVE  LogInv'
    <2>1. \A l \in CommitLabels : ~At(l)
      <3>1. t \in Active
        BY <1>8 DEF end_op_last, Active
      <3>. QED BY <3>1, <1>b, ActiveExcludesCommit
    <2>2. /\ ~At("write_head")' /\ ~At("install")' /\ ~At("clear")'
          /\ At("done")' => lh = <<>>
          /\ At("write_log")' => lh # <<>>
      BY <1>8, <1>a, <2>1 DEF end_op_last, Goto, At, CommitLabels
    <2>3. CommitInv'
      <3>1. lh # <<>> => 1 \in DOMAIN lh
        BY <1>a
      <3>2. CopiedBelow(1)
        BY <1>a DEF CopiedBelow
      <3>. QED BY Zenon, <1>8, <1>b, <2>1, <2>2, <3>1, <3>2
           DEF end_op_last, CommitInv, CommitLabels, CopiedBelow, disk, Up
    <2>4. CacheInv'
      BY Zenon, <1>8, <1>b, <2>1, <2>2 DEF end_op_last, CacheInv, CommitLabels, Logged, Locked, disk, Up
    <2>. QED BY <1>8, <1>b, <2>3, <2>4 DEF end_op_last, LogInv, NoDup, BootInv, disk, Up
  <1>9. ASSUME NEW t \in Threads, write_log(t)
        PROVE  LogInv'
    <2>1. \A l \in CommitLabels : At(l) <=> l = "write_log"
      BY ZenonT(60), <1>9, <1>b, OneCommitter DEF write_log, CommitLabels
    <2>2. boot = "up" /\ boot' = "up" /\ head = <<>> /\ tail \in DOMAIN lh /\ CopiedBelow(tail)
      BY <1>9, <1>b, <2>1 DEF write_log, CommitInv, Up, CommitLabels
    <2>3. logd' = [logd EXCEPT ![tail] = cache[lh[tail]]] /\ tail \in 1 .. Len(lh)
      BY <1>9, <1>a, <2>2 DEF write_log
    <2>4. /\ ~At("install")' /\ ~At("clear")' /\ ~At("done")'
          /\ At("write_log")' => tail < Len(lh) /\ tail' = tail + 1
          /\ At("write_head")' => tail = Len(lh) /\ tail' = 1
      <3>0. pc[t] = "write_log" /\ \A u \in Threads : u # t => pc[u] \notin CommitLabels
        BY <1>9, <1>b DEF write_log, OpInv, CommitLabels
      <3>1. CASE tail < Len(lh)
        <4>1. pc' = pc /\ tail' = tail + 1
          BY <1>9, <3>1, <2>3 DEF write_log
        <4>. QED BY ZenonT(60), <3>0, <3>1, <4>1 DEF At, CommitLabels
      <3>2. CASE tail = Len(lh)
        <4>1. pc' = [pc EXCEPT ![t] = "write_head"] /\ tail' = 1
          BY <1>9, <3>2, <2>3 DEF write_log, Goto
        <4>. QED BY Zenon, <1>a, <3>0, <3>2, <4>1 DEF At, CommitLabels
      <3>. QED BY <1>a, <2>3, <3>1, <3>2
    <2>5. \A j \in DOMAIN lh : j < tail + 1 => logd'[j] = cache[lh[j]]
      <3> SUFFICES ASSUME NEW j \in DOMAIN lh, j < tail + 1
                   PROVE  logd'[j] = cache[lh[j]]
        OBVIOUS
      <3>0. j \in 1 .. Len(lh) /\ Len(lh) \in Nat
        BY <1>a
      <3>s. Len(lh) <= size - 1 /\ tail \in Slots
        BY Zenon, <1>a
      <3>n. size \in Nat
        BY SizeAssumption
      <3>j. j \in Slots
        BY <3>0, <3>s, <3>n DEF Slots
      <3>1. j = tail \/ j < tail
        BY <3>0, <2>3
      <3>2. logd \in [Slots -> Data]
        BY <1>a
      <3>. QED BY Zenon, <2>2, <2>3, <3>s, <3>j, <3>1, <3>2 DEF CopiedBelow
    <2>6. CommitInv'
      <3>1. UNCHANGED <<head, cache, lh>> /\ Len(lh) \in Nat
        BY <1>9, <1>a DEF write_log
      <3>2. At("write_log")' => tail' \in DOMAIN lh' /\ CopiedBelow(tail)'
        BY <1>a, <2>3, <2>4, <2>5, <3>1 DEF CopiedBelow
      <3>3. At("write_head")' => tail' = 1 /\ lh' # <<>> /\ CopiedBelow(Len(lh) + 1)'
        BY <1>a, <2>3, <2>4, <2>5, <3>1 DEF CopiedBelow
      <3>. QED BY <2>2, <2>4, <3>1, <3>2, <3>3 DEF CommitInv
    <2>7. CacheInv'
      BY Zenon, <1>9, <1>b, <2>1, <2>2, <2>4 DEF write_log, CacheInv, CommitLabels, Logged, Locked
    <2>. QED BY Zenon, <1>9, <1>b, <2>2, <2>6, <2>7 DEF write_log, LogInv, NoDup, BootInv
  <1>10. ASSUME NEW t \in Threads, write_head(t)
         PROVE  LogInv'
    <2>1. \A l \in CommitLabels : At(l) <=> l = "write_head"
      BY <1>10, <1>b, OneCommitter DEF write_head, CommitLabels
    <2>2. /\ boot = "up" /\ boot' = "up" /\ head' = lh
          /\ UNCHANGED <<home, logd, cache, pin, lh, buf, tail>>
      BY <1>10 DEF write_head, Up
    <2>3. tail = 1 /\ lh # <<>> /\ CopiedBelow(Len(lh) + 1)
      BY Zenon, <1>b, <2>1, <2>2 DEF CommitInv, CommitLabels
    <2>4. \A l \in CommitLabels : At(l)' <=> l = "install"
      BY Zenon, <1>10, <1>a, <1>b DEF write_head, Goto, At, OpInv, CommitLabels
    <2>5. CommitInv'
      <3>1. 1 \in DOMAIN lh /\ InstalledBelow(1)
        BY <1>a, <2>3 DEF InstalledBelow
      <3>. QED BY <2>2, <2>3, <2>4, <3>1 DEF CommitInv, CommitLabels, CopiedBelow, InstalledBelow
    <2>6. CacheInv'
      <3>1. \A j \in DOMAIN lh : lh[j] \in Blocks /\ Logged(lh[j])
        BY <1>a DEF Logged
      <3>2. \A j \in DOMAIN lh : pin[lh[j]] > 0
        BY Zenon, <1>b, <2>1, <2>2, <3>1 DEF CacheInv, CommitLabels
      <3>. QED BY <1>b, <2>2, <2>4, <3>2 DEF CacheInv, CommitLabels, Logged, Locked
    <2>. QED BY <1>b, <2>2, <2>5, <2>6 DEF LogInv, NoDup, BootInv
  <1>11. ASSUME NEW t \in Threads, install_trans(t)
         PROVE  LogInv'
    <2>1. \A l \in CommitLabels : At(l) <=> l = "install"
      BY Zenon, <1>11, <1>b, OneCommitter DEF install_trans, CommitLabels
    <2>2. /\ boot = "up" /\ boot' = "up" /\ UNCHANGED <<head, logd, lh, buf>>
          /\ home' = [home EXCEPT ![lh[tail]] = logd[tail]]
          /\ cache' = [cache EXCEPT ![lh[tail]] = logd[tail]]
          /\ pin' = [pin EXCEPT ![lh[tail]] = @ - 1]
      BY Zenon, <1>11 DEF install_trans, install1, Up
    <2>3. /\ head = lh /\ tail \in DOMAIN lh
          /\ CopiedBelow(Len(lh) + 1) /\ InstalledBelow(tail)
      BY Zenon, <1>b, <2>1, <2>2 DEF CommitInv, CommitLabels
    <2>4. /\ ~At("write_log")' /\ ~At("write_head")' /\ ~At("done")'
          /\ At("install")' => tail < Len(lh) /\ tail' = tail + 1
          /\ At("clear")' => tail = Len(lh) /\ tail' = 1
          /\ At("install")' \/ At("clear")'
      <3>0. pc[t] = "install" /\ \A u \in Threads : u # t => pc[u] \notin CommitLabels
        BY <1>11, <1>b DEF install_trans, OpInv, CommitLabels
      <3>1. CASE tail < Len(lh)
        <4>1. pc' = pc /\ tail' = tail + 1
          BY <1>11, <1>a, <3>1 DEF install_trans
        <4>. QED BY Zenon, <3>0, <3>1, <4>1 DEF At, CommitLabels
      <3>2. CASE tail = Len(lh)
        <4>1. pc' = [pc EXCEPT ![t] = "clear"] /\ tail' = 1
          BY <1>11, <1>a, <3>2 DEF install_trans, Goto
        <4>. QED BY Zenon, <1>a, <3>0, <3>2, <4>1 DEF At, CommitLabels
      <3>. QED BY <1>a, <2>3, <3>1, <3>2
    <2>5. tail \in 1 .. Len(lh) /\ Len(lh) \in Nat /\ logd[tail] = cache[lh[tail]]
      <3>1. tail \in 1 .. Len(lh) /\ Len(lh) \in Nat
        BY <1>a, <2>3
      <3>. QED BY <2>3, <3>1 DEF CopiedBelow
    <2>6. cache' = cache
      BY ZenonT(60), <1>a, <2>2, <2>5
    <2>7. \A j \in DOMAIN lh : j < tail + 1 => home'[lh[j]] = logd[j]
      <3> TAKE j \in DOMAIN lh
      <3> HAVE j < tail + 1
      <3>1. lh[j] \in Blocks /\ j \in 1 .. Len(lh)
        BY <1>a
      <3>2. CASE j = tail
        BY Zenon, <1>a, <2>2, <3>1, <3>2
      <3>3. CASE j < tail
        <4>1. lh[j] # lh[tail]
          BY <1>b, <2>3, <2>5, <3>1, <3>3 DEF NoDup
        <4>. QED BY Zenon, <1>a, <2>2, <2>3, <3>1, <3>3, <4>1 DEF InstalledBelow
      <3>. QED BY <2>5, <3>1, <3>2, <3>3
    <2>8. \A j \in DOMAIN lh : j >= tail + 1 => pin'[lh[j]] > 0
      <3>1. \A j \in DOMAIN lh : j >= tail => pin[lh[j]] > 0
        BY Zenon, <1>b, <2>1, <2>2 DEF CacheInv, CommitLabels
      <3>2. ASSUME NEW j \in DOMAIN lh, j >= tail + 1
            PROVE  pin'[lh[j]] > 0
        <4>1. j >= tail /\ j # tail /\ lh[j] \in Blocks
          BY <1>a, <2>5, <3>2
        <4>2. lh[j] # lh[tail]
          BY Zenon, <1>b, <2>3, <4>1 DEF NoDup
        <4>3. pin'[lh[j]] = pin[lh[j]]
          BY Zenon, <1>a, <2>2, <4>1, <4>2
        <4>. QED BY Zenon, <3>1, <4>1, <4>3
      <3>. QED BY Zenon, <3>2
    <2>9. CommitInv'
      <3>1. CopiedBelow(Len(lh) + 1)'
        BY ZenonT(60), <2>2, <2>3, <2>6 DEF CopiedBelow
      <3>2. At("install")' => tail' \in DOMAIN lh' /\ InstalledBelow(tail)'
        BY <1>a, <2>2, <2>4, <2>5, <2>7 DEF InstalledBelow
      <3>3. At("clear")' => tail' = 1 /\ InstalledBelow(Len(lh) + 1)'
        BY Zenon, <1>a, <2>2, <2>4, <2>5, <2>7 DEF InstalledBelow
      <3>. QED BY Zenon, <2>2, <2>3, <2>4, <3>1, <3>2, <3>3 DEF CommitInv
    <2>10. CacheInv'
      <3>1. \A b \in Blocks : ~Logged(b)' /\ ~Locked(b)' => cache'[b] = home'[b]
        BY Zenon, <1>a, <1>b, <2>2, <2>5, <2>6 DEF CacheInv, Logged, Locked
      <3>. QED BY Zenon, <2>2, <2>4, <2>8, <3>1 DEF CacheInv
    <2>. QED BY Zenon, <1>b, <2>2, <2>9, <2>10 DEF LogInv, NoDup, BootInv
  <1>12. ASSUME NEW t \in Threads, clear_head(t)
         PROVE  LogInv'
    <2>1. \A l \in CommitLabels : At(l) <=> l = "clear"
      BY <1>12, <1>b, OneCommitter DEF clear_head, CommitLabels
    <2>2. /\ boot = "up" /\ boot' = "up" /\ head' = <<>> /\ lh' = <<>>
          /\ UNCHANGED <<home, logd, cache, pin, buf, tail>>
      BY <1>12 DEF clear_head, Up
    <2>3. CopiedBelow(Len(lh) + 1) /\ InstalledBelow(Len(lh) + 1)
      BY Zenon, <1>b, <2>1, <2>2 DEF CommitInv, CommitLabels
    <2>4. \A l \in CommitLabels : At(l)' <=> l = "done"
      BY Zenon, <1>12, <1>a, <1>b DEF clear_head, Goto, At, OpInv, CommitLabels
    <2>5. CommitInv'
      BY ZenonT(60), <2>2, <2>4 DEF CommitInv, CommitLabels
    <2>6. CacheInv'
      <3>1. \A j \in DOMAIN lh : cache[lh[j]] = home[lh[j]]
        <4>1. \A j \in DOMAIN lh : j < Len(lh) + 1
          BY <1>a
        <4>. QED BY <2>3, <4>1 DEF CopiedBelow, InstalledBelow
      <3>2. \A b \in Blocks : Logged(b) => cache[b] = home[b]
        BY Zenon, <3>1 DEF Logged
      <3>. QED BY <1>b, <2>2, <2>4, <3>2 DEF CacheInv, CommitLabels, Logged, Locked
    <2>. QED BY <2>2, <2>5, <2>6 DEF LogInv, NoDup, BootInv
  <1>13. ASSUME NEW t \in Threads, commit_done(t)
         PROVE  LogInv'
    <2>1. \A l \in CommitLabels : At(l) <=> l = "done"
      BY Zenon, <1>13, <1>b, OneCommitter DEF commit_done, CommitLabels
    <2>2. \A l \in CommitLabels : ~At(l)'
      BY Zenon, <1>13, <1>a, <1>b DEF commit_done, GotoWaking, At, OpInv, CommitLabels
    <2>3. CommitInv'
      BY Zenon, <1>13, <1>b, <2>1, <2>2 DEF commit_done, disk, CommitInv, CommitLabels
    <2>4. CacheInv'
      BY Zenon, <1>13, <1>b, <2>1, <2>2 DEF commit_done, disk, CacheInv, CommitLabels, Logged, Locked
    <2>. QED BY Zenon, <1>13, <1>b, <2>3, <2>4 DEF commit_done, disk, LogInv, NoDup, BootInv, Up
  <1>14. CASE crash
    <2>1. /\ boot' = "read_head" /\ lh' = <<>> /\ head' = head /\ cache' = home /\ home' = home
          /\ tail' = 1 /\ pc' = [t \in Threads |-> "idle"]
      BY Zenon, <1>14 DEF crash, disk
    <2>2. NoDup(lh)'
      BY <2>1 DEF NoDup
    <2>3. NoDup(head)'
      BY Zenon, <1>b, <2>1 DEF NoDup
    <2>4. CommitInv' /\ CacheInv' /\ BootInv'
      BY Zenon, <2>1 DEF CommitInv, CacheInv, BootInv
    <2>. QED BY Zenon, <2>2, <2>3, <2>4 DEF LogInv
  <1>15. CASE read_head
    <2>1. boot = "read_head" /\ lh' = head /\ boot' = IF head = <<>> THEN "clear" ELSE "install"
      BY <1>15 DEF read_head
    <2>2. UNCHANGED <<home, head, logd, cache, pc, tail>>
      BY ZenonT(60), <1>15 DEF read_head, disk, opvars
    <2>3. BootInv'
      BY <1>a, <1>b, <2>1, <2>2 DEF BootInv, InstalledBelow
    <2>. QED BY Zenon, <1>b, <2>1, <2>2, <2>3 DEF LogInv, NoDup, CommitInv, CacheInv
  <1>16. CASE recover_install
    <2>1. /\ boot = "install" /\ boot' # "up" /\ UNCHANGED <<head, logd, lh, pc>>
          /\ home' = [home EXCEPT ![lh[tail]] = logd[tail]]
          /\ cache' = [cache EXCEPT ![lh[tail]] = logd[tail]]
      BY ZenonT(60), <1>16 DEF recover_install, install1, opvars
    <2>2. /\ cache = home /\ lh = head /\ tail \in 1 .. Len(lh) /\ Len(lh) \in Nat
          /\ InstalledBelow(tail) /\ \A t \in Threads : pc[t] = "idle"
      BY <1>a, <1>b, <2>1 DEF BootInv
    <2>3. \A j \in DOMAIN lh : j < tail + 1 => home'[lh[j]] = logd[j]
      <3> TAKE j \in DOMAIN lh
      <3> HAVE j < tail + 1
      <3>1. lh[j] \in Blocks /\ j \in 1 .. Len(lh)
        BY <1>a
      <3>2. CASE j = tail
        BY Zenon, <1>a, <2>1, <3>1, <3>2
      <3>3. CASE j < tail
        <4>1. lh[j] # lh[tail]
          BY <1>a, <1>b, <2>2, <3>1, <3>3 DEF NoDup
        <4>. QED BY Zenon, <1>a, <2>1, <2>2, <3>1, <3>3, <4>1 DEF InstalledBelow
      <3>. QED BY <2>2, <3>1, <3>2, <3>3
    <2>4. BootInv'
      <3>1. CASE tail < Len(lh)
        <4>1. tail' = tail + 1 /\ boot' = "install"
          BY <1>16, <2>2, <3>1 DEF recover_install
        <4>. QED BY <1>a, <2>1, <2>2, <2>3, <3>1, <4>1 DEF BootInv, InstalledBelow
      <3>2. CASE tail = Len(lh)
        <4>1. boot' = "clear"
          BY <1>16, <2>2, <3>2 DEF recover_install
        <4>. QED BY <1>a, <2>1, <2>2, <2>3, <3>2, <4>1 DEF BootInv
      <3>. QED BY <2>2, <3>1, <3>2
    <2>. QED BY Zenon, <1>b, <2>1, <2>4 DEF LogInv, NoDup, CommitInv, CacheInv
  <1>17. CASE recover_clear
    BY SMTT(30), <1>17, <1>b
    DEF recover_clear, opvars, LogInv, NoDup, CommitInv, CacheInv, BootInv, At, Logged
  <1>18. CASE UNCHANGED vars
    BY Zenon, <1>18, <1>b DEF vars, LogInv, NoDup, CommitInv, CacheInv, BootInv, At, Logged,
                       Locked, CopiedBelow, InstalledBelow
  <1>. QED
    BY Zenon, <1>1, <1>2, <1>3, <1>4, <1>5, <1>6, <1>7, <1>8, <1>9, <1>10, <1>11, <1>12,
       <1>13, <1>14, <1>15, <1>16, <1>17, <1>18
    DEF Next, BeginStep, EndStep, CommitStep, RecoverStep

-----------------------------------------------------------------------------

\* Nobody is left asleep, and nothing is left in the log, when the last one leaves.
LEMMA QuietInductive == IInv /\ [Next]_vars => QuietInv'
  <1> SUFFICES ASSUME IInv, [Next]_vars
               PROVE  QuietInv'
    OBVIOUS
  <1>a. pc \in [Threads -> Labels] /\ outstanding \in Nat
    BY DEF IInv, TypeOK
  <1>b. OpInv /\ QuietInv
    BY DEF IInv
  <1>1. ASSUME NEW t \in Threads, begin_sleep(t)
        PROVE  QuietInv'
    <2>1. Active' = Active
      BY <1>1, <1>a DEF begin_sleep, Goto, Active
    <2>2. ASSUME Active = {}, committing = 0
          PROVE  FALSE
      <3>1. Len(lh) = 0 /\ outstanding = 0
        BY Zenon, <1>1, <1>b, <2>2, FS_EmptySet DEF begin_sleep, Up, QuietInv, OpInv
      <3>. QED BY <1>1, <2>2, <3>1, SizeAssumption DEF begin_sleep, MustWait
    <2>. QED BY Zenon, <1>1, <2>1, <2>2 DEF begin_sleep, QuietInv
  <1>2. ASSUME NEW t \in Threads, begin_op(t)
        PROVE  QuietInv'
    BY Zenon, <1>2, <1>a DEF begin_op, Goto, Active, QuietInv
  <1>3. ASSUME NEW t \in Threads, NEW b \in Blocks, NEW v \in Data, modify(t, b, v)
        PROVE  QuietInv'
    BY Zenon, <1>3, <1>a DEF modify, Goto, Active, QuietInv
  <1>4. ASSUME NEW t \in Threads, log_write(t)
        PROVE  QuietInv'
    BY <1>4, <1>a DEF log_write, Goto, Active, QuietInv
  <1>5. ASSUME NEW t \in Threads, end_op(t)
        PROVE  QuietInv'
    <2>1. t \in Active /\ Active' = Active \ {t}
      BY Zenon, <1>5, <1>a DEF end_op, GotoWaking, Active
    <2>2. Cardinality(Active \ {t}) = outstanding - 1
      BY Zenon, <1>b, <2>1, ActiveFinite, FS_RemoveElement DEF OpInv
    <2>3. Active' # {}
      <3>1. outstanding - 1 # 0
        BY <1>5, <1>a DEF end_op
      <3>2. Active \ {t} # {}
        BY Zenon, <2>2, <3>1, FS_EmptySet
      <3>. QED BY Zenon, <2>1, <3>2
    <2>. QED BY Zenon, <2>3 DEF QuietInv
  <1>6. ASSUME NEW t \in Threads, end_op_last(t)
        PROVE  QuietInv'
    BY <1>6 DEF end_op_last, QuietInv
  <1>7. ASSUME NEW t \in Threads,
               write_log(t) \/ write_head(t) \/ install_trans(t) \/ clear_head(t)
        PROVE  QuietInv'
    <2>1. committing # 0 /\ committing' = committing
      BY SMTT(30), <1>7, <1>b DEF write_log, write_head, install_trans, clear_head, OpInv, CommitLabels
    <2>. QED BY <2>1 DEF QuietInv
  <1>8. ASSUME NEW t \in Threads, commit_done(t)
        PROVE  QuietInv'
    <2>1. lh = <<>>
      BY Zenon, <1>8 DEF commit_done, IInv, CommitInv, At, Up
    <2>. QED BY Zenon, <1>8, <1>a, <2>1 DEF commit_done, GotoWaking, QuietInv
  <1>9. CASE crash \/ RecoverStep
    BY <1>9 DEF crash, RecoverStep, read_head, recover_install, recover_clear, opvars,
                IInv, BootInv, QuietInv
  <1>10. CASE UNCHANGED <<pc, lh, boot, committing>>
    BY <1>10, <1>b DEF QuietInv, Active
  <1>11. ASSUME NEW t \in Threads, log_write_panic(t)
         PROVE  QuietInv'
    BY Zenon, <1>10, <1>11 DEF log_write_panic, opvars
  <1>12. ASSUME NEW b \in Blocks, evict(b)
         PROVE  QuietInv'
    BY Zenon, <1>10, <1>12 DEF evict, opvars
  <1>13. CASE UNCHANGED vars
    BY <1>10, <1>13 DEF vars
  <1>. QED
    BY <1>1, <1>2, <1>3, <1>4, <1>5, <1>6, <1>7, <1>8, <1>9, <1>11, <1>12, <1>13
    DEF Next, BeginStep, EndStep, CommitStep

-----------------------------------------------------------------------------

\* The blocks of operation t that are in the log.
InLog(t) == {b \in wrote[t] : Logged(b)}

\* Pairs of an operation and one of n numbers are finitely many, n for each.
LEMMA PairsCounted ==
  ASSUME NEW A, IsFiniteSet(A), NEW n \in Nat, NEW P \in SUBSET (A \X (1 .. n))
  PROVE  IsFiniteSet(P) /\ Cardinality(P) \in Nat /\ Cardinality(P) <= Cardinality(A) * n
  <1>1. IsFiniteSet(1 .. n) /\ Cardinality(1 .. n) = n
    BY FS_Interval
  <1>2. IsFiniteSet(A \X (1 .. n)) /\ Cardinality(A \X (1 .. n)) = Cardinality(A) * n
    BY Zenon, <1>1, FS_Product
  <1>3. IsFiniteSet(P) /\ Cardinality(P) <= Cardinality(A \X (1 .. n))
    BY Zenon, <1>2, FS_Subset
  <1>4. Cardinality(P) \in Nat
    BY Zenon, <1>3, FS_CardinalityType
  <1>. QED BY Zenon, <1>2, <1>3, <1>4

\* What is promised is finite and at most MAXOPBLOCKS for each active operation.
LEMMA PromisedBounded ==
  /\ IsFiniteSet(Promised) /\ Cardinality(Promised) \in Nat
  /\ Cardinality(Promised) <= Cardinality(Active) * MAXOPBLOCKS
  <1>1. Promised \in SUBSET (Active \X (1 .. MAXOPBLOCKS))
    BY Zenon DEF Promised
  <1>2. MAXOPBLOCKS \in Nat
    BY SizeAssumption
  <1>. QED BY Zenon, <1>1, <1>2, ActiveFinite, PairsCounted

\* The same of the next state.
LEMMA PromisedBoundedNext ==
  /\ IsFiniteSet(Promised') /\ Cardinality(Promised') \in Nat
  /\ Cardinality(Promised') <= Cardinality(Active') * MAXOPBLOCKS
  <1>1. Promised' \in SUBSET (Active' \X (1 .. MAXOPBLOCKS))
    BY Zenon DEF Promised
  <1>2. MAXOPBLOCKS \in Nat
    BY SizeAssumption
  <1>3. IsFiniteSet(Active')
    BY Zenon, ThreadAssumption, FS_Subset DEF Active
  <1>. QED BY Zenon, <1>1, <1>2, <1>3, PairsCounted

\* Who has more blocks in the log may add fewer.
LEMMA UnusedShrinks ==
  ASSUME NEW t \in Threads, IsFiniteSet(wrote[t]), IsFiniteSet(wrote'[t]),
         InLog(t) \subseteq InLog(t)'
  PROVE  Unused(t) \in Int /\ Unused(t)' \in Int /\ Unused(t)' <= Unused(t)
  <1>1. IsFiniteSet(InLog(t)) /\ IsFiniteSet(InLog(t)')
    BY Zenon, FS_Subset DEF InLog
  <1>2. Cardinality(InLog(t)) <= Cardinality(InLog(t)')
    BY Zenon, <1>1, FS_Subset
  <1>3. Cardinality(InLog(t)) \in Nat /\ Cardinality(InLog(t)') \in Nat
    BY Zenon, <1>1, FS_CardinalityType
  <1>4. /\ Unused(t) = MAXOPBLOCKS - Cardinality(InLog(t))
        /\ Unused(t)' = MAXOPBLOCKS - Cardinality(InLog(t)')
    BY Zenon DEF Unused, InLog
  <1>. QED BY <1>2, <1>3, <1>4, SizeAssumption

\* No more is promised when no operation begins and none may add more than before.
LEMMA PromisedShrinks ==
  ASSUME Active' \subseteq Active,
         \A u \in Active' : Unused(u) \in Int /\ Unused(u)' \in Int /\ Unused(u)' <= Unused(u)
  PROVE  Promised' \subseteq Promised
  <1> SUFFICES ASSUME NEW x \in Promised'
               PROVE  x \in Promised
    OBVIOUS
  <1>1. x \in Active' \X (1 .. MAXOPBLOCKS) /\ x[2] <= Unused(x[1])'
    BY Zenon DEF Promised
  <1>2. x \in Active \X (1 .. MAXOPBLOCKS) /\ x[1] \in Active' /\ x[2] \in 1 .. MAXOPBLOCKS
    BY <1>1
  <1>3. x[2] <= Unused(x[1])
    BY <1>1, <1>2, SizeAssumption
  <1>. QED BY Zenon, <1>2, <1>3 DEF Promised

\* The reservation holds on when nothing is added to the log or to the promises.
LEMMA SpaceKept ==
  ASSUME LogSpace, Up' => Up, Promised' \subseteq Promised,
         lh \in Seq(Blocks), lh' = lh
  PROVE  LogSpace'
  <1>1. Cardinality(Promised') <= Cardinality(Promised)
    BY Zenon, PromisedBounded, FS_Subset
  <1>2. Cardinality(Promised) \in Nat /\ Cardinality(Promised') \in Nat
    BY Zenon, PromisedBounded, PromisedBoundedNext
  <1>3. Len(lh) \in Nat /\ LOGSIZE \in Nat
    BY SizeAssumption
  <1>. QED BY <1>1, <1>2, <1>3 DEF LogSpace

\* An empty log with no operation has space.
LEMMA SpaceEmpty ==
  ASSUME lh' = <<>>, Active' = {}
  PROVE  LogSpace'
  <1>1. Promised' = {}
    BY Zenon DEF Promised
  <1>2. Cardinality(Promised') = 0
    BY Zenon, <1>1, FS_EmptySet
  <1>3. Len(lh') = 0
    OBVIOUS
  <1>. QED BY <1>2, <1>3, SizeAssumption DEF LogSpace

\* At boot nothing is written and nothing promised.
LEMMA SpaceInitial == Init => SpaceInv
  <1> SUFFICES ASSUME Init
               PROVE  SpaceInv
    OBVIOUS
  <1>1. Promised = {} /\ Len(lh) = 0
    BY DEF Init, Promised, Active
  <1>2. LogSpace
    BY <1>1, FS_EmptySet, SizeAssumption DEF LogSpace
  <1>3. IsFiniteSet({}) /\ Cardinality({}) <= MAXOPBLOCKS
    BY FS_EmptySet, SizeAssumption
  <1>. QED BY Zenon, <1>2, <1>3 DEF Init, SpaceInv, OpWrote

\* What an operation does not touch keeps its count, as long as the log keeps its blocks.
LEMMA OthersUnused ==
  ASSUME OpWrote, OpWrote', NEW u \in Threads, wrote[u] \subseteq wrote'[u],
         \A b : Logged(b) => Logged(b)'
  PROVE  Unused(u) \in Int /\ Unused(u)' \in Int /\ Unused(u)' <= Unused(u)
  <1>1. IsFiniteSet(wrote[u]) /\ IsFiniteSet(wrote'[u])
    BY Zenon DEF OpWrote
  <1>2. InLog(u) \subseteq InLog(u)'
    BY Zenon DEF InLog
  <1>. QED BY Zenon, <1>1, <1>2, UnusedShrinks

\* log_write() of a block that is not in the log takes one of the slots promised to it.
LEMMA LoggingTakesSlot ==
  ASSUME IInv, OpWrote', NEW t \in Threads, log_write(t), ~Logged(buf[t])
  PROVE  \E x \in Promised : Promised' \subseteq Promised \ {x}
  <1>a. /\ pc \in [Threads -> Labels] /\ buf \in [Threads -> Blocks \cup {NoBlock}]
        /\ lh \in Seq(Blocks)
    BY DEF IInv, TypeOK
  <1>b. OpInv /\ OpWrote
    BY Zenon DEF IInv, SpaceInv
  <1>1. buf[t] \in Blocks /\ buf[t] \in wrote[t]
    <2>1. buf[t] # NoBlock
      BY Zenon, <1>b DEF log_write, OpInv
    <2>. QED BY Zenon, <1>a, <1>b, <2>1 DEF OpWrote
  <1>2. lh' = Append(lh, buf[t]) /\ wrote' = wrote
    BY Zenon DEF log_write
  <1>3. \A b : Logged(b)' <=> Logged(b) \/ b = buf[t]
    <2>1. \A c : (\E k \in DOMAIN Append(lh, buf[t]) : Append(lh, buf[t])[k] = c)
                   <=> (\E k \in DOMAIN lh : lh[k] = c) \/ c = buf[t]
      BY Zenon, <1>a, <1>1, AppendElements
    <2>. QED BY Zenon, <1>2, <2>1 DEF Logged
  <1>4. Active' = Active /\ t \in Active
    BY <1>a DEF log_write, Goto, Active
  <1>5. \A u \in Active' : Unused(u) \in Int /\ Unused(u)' \in Int /\ Unused(u)' <= Unused(u)
    <2>1. \A b : Logged(b) => Logged(b)'
      BY Zenon, <1>3
    <2>2. \A u \in Threads : wrote[u] \subseteq wrote'[u]
      BY Zenon, <1>2
    <2>3. \A u \in Active' : u \in Threads
      BY Zenon DEF Active
    <2>. QED BY Zenon, <1>b, <2>1, <2>2, <2>3, OthersUnused
  <1>6. Promised' \subseteq Promised
    BY Zenon, <1>4, <1>5, PromisedShrinks
  <1>7. InLog(t)' = InLog(t) \cup {buf[t]} /\ buf[t] \notin InLog(t)
    BY Zenon, <1>1, <1>2, <1>3 DEF InLog
  <1>8. /\ IsFiniteSet(InLog(t)) /\ Cardinality(InLog(t)) \in Nat
        /\ Cardinality(InLog(t)') = Cardinality(InLog(t)) + 1
        /\ Cardinality(InLog(t)') <= MAXOPBLOCKS
    <2>1. IsFiniteSet(wrote[t]) /\ Cardinality(wrote[t]) <= MAXOPBLOCKS
      BY Zenon, <1>b DEF OpWrote
    <2>2. InLog(t) \subseteq wrote[t] /\ InLog(t)' \subseteq wrote[t]
      BY Zenon, <1>2 DEF InLog
    <2>3. IsFiniteSet(InLog(t)) /\ IsFiniteSet(InLog(t)')
      BY Zenon, <2>1, <2>2, FS_Subset
    <2>4. Cardinality(InLog(t)') <= Cardinality(wrote[t])
      BY Zenon, <2>1, <2>2, FS_Subset
    <2>5. Cardinality(InLog(t)') = Cardinality(InLog(t)) + 1
      BY Zenon, <1>7, <2>3, FS_AddElement
    <2>6. Cardinality(InLog(t)) \in Nat /\ Cardinality(wrote[t]) \in Nat
      BY Zenon, <2>1, <2>3, FS_CardinalityType
    <2>. QED BY <2>1, <2>3, <2>4, <2>5, <2>6, SizeAssumption
  <1> DEFINE k == Unused(t)
             x == <<t, k>>
  <1>9. /\ Unused(t) = MAXOPBLOCKS - Cardinality(InLog(t))
        /\ Unused(t)' = MAXOPBLOCKS - Cardinality(InLog(t)')
    BY Zenon DEF Unused, InLog
  <1>10. k \in 1 .. MAXOPBLOCKS /\ ~(k <= Unused(t)') /\ k <= Unused(t)
    BY <1>8, <1>9, SizeAssumption
  <1> HIDE DEF k
  <1>11. x[1] = t /\ x[2] = k /\ x \in Active \X (1 .. MAXOPBLOCKS)
    BY <1>4, <1>10
  <1> HIDE DEF x
  <1>12. x \in Promised
    BY Zenon, <1>10, <1>11 DEF Promised
  <1>13. x \notin Promised'
    BY Zenon, <1>10, <1>11 DEF Promised
  <1>. QED BY Zenon, <1>6, <1>12, <1>13

\* Every step keeps the reservation: begin_op() makes it, log_write() draws on it.
LEMMA SpaceInductive == IInv /\ [Next]_vars => SpaceInv'
  <1> SUFFICES ASSUME IInv, [Next]_vars
               PROVE  SpaceInv'
    OBVIOUS
  <1>a. /\ pc \in [Threads -> Labels] /\ buf \in [Threads -> Blocks \cup {NoBlock}]
        /\ wrote \in [Threads -> SUBSET Blocks] /\ lh \in Seq(Blocks)
    BY DEF IInv, TypeOK
  <1>b. OpInv /\ OpWrote /\ LogSpace
    BY Zenon DEF IInv, SpaceInv
  <1>c. ASSUME UNCHANGED <<wrote, buf>>, Active' = Active
        PROVE  OpWrote'
    BY Zenon, <1>b, <1>c DEF OpWrote
  <1>d. ASSUME UNCHANGED <<wrote, buf, lh>>, Active' = Active, Up' => Up
        PROVE  SpaceInv'
    <2>1. OpWrote'
      BY Zenon, <1>c, <1>d
    <2>2. Promised' = Promised
      BY Zenon, <1>d DEF Promised, Unused, Logged
    <2>. QED BY Zenon, <1>a, <1>b, <1>d, <2>1, <2>2, SpaceKept DEF SpaceInv
  <1>1. ASSUME NEW t \in Threads, begin_sleep(t)
        PROVE  SpaceInv'
    <2>1. Active' = Active
      BY <1>1, <1>a DEF begin_sleep, Goto, Active
    <2>2. UNCHANGED <<wrote, buf, lh>> /\ (Up' => Up)
      BY Zenon, <1>1 DEF begin_sleep
    <2>. QED BY Zenon, <1>d, <2>1, <2>2
  <1>2. ASSUME NEW t \in Threads, begin_op(t)
        PROVE  SpaceInv'
    <2>1. Active' = Active \cup {t} /\ t \notin Active
      BY <1>2, <1>a DEF begin_op, Goto, Active
    <2>2. OpWrote'
      BY Zenon, <1>2, <1>b, <2>1 DEF begin_op, OpWrote
    <2>3. Cardinality(Active') = outstanding + 1
      BY Zenon, <1>b, <2>1, ActiveFinite, FS_AddElement DEF OpInv
    <2>4. ~(Len(lh) + (outstanding + 1) * MAXOPBLOCKS > LOGSIZE) /\ lh' = lh
      BY Zenon, <1>2 DEF begin_op, MustWait
    <2>5. Cardinality(Promised') <= (outstanding + 1) * MAXOPBLOCKS
      BY Zenon, <2>3, PromisedBoundedNext
    <2>6. /\ Len(lh) \in Nat /\ LOGSIZE \in Nat /\ outstanding + 1 \in Nat
          /\ MAXOPBLOCKS \in Nat /\ Cardinality(Promised') \in Nat
      BY <1>a, SizeAssumption, PromisedBoundedNext DEF IInv, TypeOK
    <2>7. (outstanding + 1) * MAXOPBLOCKS \in Nat
      BY <2>6
    <2> DEFINE r == (outstanding + 1) * MAXOPBLOCKS
    <2> HIDE DEF r
    <2>8. ~(Len(lh) + r > LOGSIZE) /\ Cardinality(Promised') <= r /\ r \in Nat
      BY Zenon, <2>4, <2>5, <2>7 DEF r
    <2>9. Len(lh) + Cardinality(Promised') <= LOGSIZE
      BY <2>6, <2>8
    <2>. QED BY Zenon, <2>2, <2>4, <2>9 DEF SpaceInv, LogSpace
  <1>3. ASSUME NEW t \in Threads, NEW b \in Blocks, NEW v \in Data, modify(t, b, v)
        PROVE  SpaceInv'
    <2>1. Active' = Active /\ t \in Active
      BY <1>3, <1>a DEF modify, Goto, Active
    <2>2. /\ wrote'[t] = wrote[t] \cup {b} /\ buf'[t] = b
          /\ \A u \in Threads \ {t} : wrote'[u] = wrote[u] /\ buf'[u] = buf[u]
      BY <1>3, <1>a DEF modify
    <2>3. IsFiniteSet(wrote'[t]) /\ Cardinality(wrote'[t]) <= MAXOPBLOCKS
      <3>1. IsFiniteSet(wrote[t]) /\ Cardinality(wrote[t]) <= MAXOPBLOCKS
        BY Zenon, <1>b DEF OpWrote
      <3>2. CASE b \in wrote[t]
        <4>1. wrote'[t] = wrote[t]
          BY Zenon, <2>2, <3>2
        <4>. QED BY Zenon, <3>1, <4>1
      <3>3. CASE b \notin wrote[t]
        <4>1. Cardinality(wrote[t]) < MAXOPBLOCKS
          BY Zenon, <1>3, <3>3 DEF modify
        <4>2. Cardinality(wrote[t] \cup {b}) = Cardinality(wrote[t]) + 1
          BY Zenon, <3>1, <3>3, FS_AddElement
        <4>3. Cardinality(wrote[t]) \in Nat
          BY Zenon, <3>1, FS_CardinalityType
        <4>4. Cardinality(wrote[t]) + 1 <= MAXOPBLOCKS
          BY <4>1, <4>3, SizeAssumption
        <4>5. IsFiniteSet(wrote[t] \cup {b})
          BY Zenon, <3>1, FS_AddElement
        <4>. QED BY Zenon, <2>2, <4>2, <4>4, <4>5
      <3>. QED BY Zenon, <3>2, <3>3
    <2>4. OpWrote'
      <3> SUFFICES ASSUME NEW u \in Threads
                   PROVE  (/\ IsFiniteSet(wrote[u]) /\ Cardinality(wrote[u]) <= MAXOPBLOCKS
                           /\ u \notin Active => wrote[u] = {}
                           /\ buf[u] # NoBlock => buf[u] \in wrote[u])'
        BY Zenon DEF OpWrote
      <3>1. CASE u = t
        BY Zenon, <2>1, <2>2, <2>3, <3>1
      <3>2. CASE u # t
        BY Zenon, <1>b, <2>1, <2>2, <3>2 DEF OpWrote
      <3>. QED BY Zenon, <3>1, <3>2
    <2>5. lh' = lh /\ (Up' => Up) /\ \A c : Logged(c) => Logged(c)'
      BY Zenon, <1>3 DEF modify, Logged
    <2>6. \A u \in Active' : Unused(u) \in Int /\ Unused(u)' \in Int /\ Unused(u)' <= Unused(u)
      <3>1. \A u \in Threads : wrote[u] \subseteq wrote'[u]
        BY Zenon, <2>2
      <3>2. \A u \in Active' : u \in Threads
        BY Zenon DEF Active
      <3>. QED BY Zenon, <1>b, <2>4, <2>5, <3>1, <3>2, OthersUnused
    <2>7. Promised' \subseteq Promised
      BY Zenon, <2>1, <2>6, PromisedShrinks
    <2>. QED BY Zenon, <1>a, <1>b, <2>4, <2>5, <2>7, SpaceKept DEF SpaceInv
  <1>4. ASSUME NEW t \in Threads, log_write(t)
        PROVE  SpaceInv'
    <2>1. Active' = Active /\ t \in Active
      BY <1>4, <1>a DEF log_write, Goto, Active
    <2>2. wrote' = wrote /\ (Up' => Up) /\ Up
      BY Zenon, <1>4 DEF log_write
    <2>3. \A u \in Threads : buf'[u] = buf[u] \/ buf'[u] = NoBlock
      BY <1>4, <1>a DEF log_write
    <2>4. OpWrote'
      BY Zenon, <1>b, <2>1, <2>2, <2>3 DEF OpWrote
    <2>5. CASE Logged(buf[t])
      <3>1. lh' = lh
        BY Zenon, <1>4, <2>5 DEF log_write
      <3>2. Promised' = Promised
        BY Zenon, <2>1, <2>2, <3>1 DEF Promised, Unused, Logged
      <3>. QED BY Zenon, <1>a, <1>b, <2>2, <2>4, <3>1, <3>2, SpaceKept DEF SpaceInv
    <2>6. CASE ~Logged(buf[t])
      <3>1. PICK x \in Promised : Promised' \subseteq Promised \ {x}
        BY Zenon, <1>4, <2>4, <2>6, LoggingTakesSlot
      <3>2. Cardinality(Promised \ {x}) = Cardinality(Promised) - 1 /\ IsFiniteSet(Promised \ {x})
        BY Zenon, <3>1, PromisedBounded, FS_RemoveElement
      <3>3. Cardinality(Promised') <= Cardinality(Promised \ {x})
        BY Zenon, <3>1, <3>2, FS_Subset
      <3>4. Len(lh') = Len(lh) + 1
        <4>1. lh' = Append(lh, buf[t])
          BY Zenon, <1>4, <2>6 DEF log_write
        <4>2. buf[t] \in Blocks
          BY Zenon, <1>4, <1>a, <1>b DEF log_write, OpInv
        <4>. QED BY <1>a, <4>1, <4>2
      <3>5. Len(lh) + Cardinality(Promised) <= LOGSIZE
        BY Zenon, <1>b, <2>2 DEF LogSpace
      <3>6. /\ Cardinality(Promised) \in Nat /\ Cardinality(Promised') \in Nat
            /\ Len(lh) \in Nat /\ LOGSIZE \in Nat
        BY <1>a, SizeAssumption, PromisedBounded, PromisedBoundedNext
      <3>7. Len(lh') + Cardinality(Promised') <= LOGSIZE
        BY <3>2, <3>3, <3>4, <3>5, <3>6
      <3>. QED BY Zenon, <2>4, <3>7 DEF SpaceInv, LogSpace
    <2>. QED BY Zenon, <2>5, <2>6
  <1>5. ASSUME NEW t \in Threads, end_op(t) \/ end_op_last(t)
        PROVE  SpaceInv'
    <2>1. Active' = Active \ {t} /\ t \in Active
      BY <1>5, <1>a DEF end_op, end_op_last, Goto, GotoWaking, Active
    <2>2. /\ wrote'[t] = {} /\ \A u \in Threads \ {t} : wrote'[u] = wrote[u]
          /\ buf' = buf /\ lh' = lh /\ (Up' => Up)
      BY <1>5, <1>a DEF end_op, end_op_last, Up
    <2>3. buf[t] = NoBlock
      BY Zenon, <1>5, <1>a, <1>b DEF end_op, end_op_last, OpInv
    <2>4. IsFiniteSet({}) /\ Cardinality({}) <= MAXOPBLOCKS
      BY FS_EmptySet, SizeAssumption
    <2>5. OpWrote'
      <3> SUFFICES ASSUME NEW u \in Threads
                   PROVE  (/\ IsFiniteSet(wrote[u]) /\ Cardinality(wrote[u]) <= MAXOPBLOCKS
                           /\ u \notin Active => wrote[u] = {}
                           /\ buf[u] # NoBlock => buf[u] \in wrote[u])'
        BY Zenon DEF OpWrote
      <3>1. CASE u = t
        BY Zenon, <2>1, <2>2, <2>3, <2>4, <3>1
      <3>2. CASE u # t
        BY Zenon, <1>b, <2>1, <2>2, <3>2 DEF OpWrote
      <3>. QED BY Zenon, <3>1, <3>2
    <2>6. \A u \in Active' : Unused(u) \in Int /\ Unused(u)' \in Int /\ Unused(u)' <= Unused(u)
      <3>1. \A u \in Active' : u \in Threads /\ wrote[u] \subseteq wrote'[u]
        BY Zenon, <2>1, <2>2 DEF Active
      <3>2. \A c : Logged(c) => Logged(c)'
        BY Zenon, <2>2 DEF Logged
      <3>. QED BY Zenon, <1>b, <2>5, <3>1, <3>2, OthersUnused
    <2>7. Promised' \subseteq Promised
      <3>1. Active' \subseteq Active
        BY Zenon, <2>1
      <3>. QED BY Zenon, <3>1, <2>6, PromisedShrinks
    <2>. QED BY Zenon, <1>a, <1>b, <2>2, <2>5, <2>7, SpaceKept DEF SpaceInv
  <1>6. ASSUME NEW t \in Threads, write_log(t) \/ write_head(t) \/ install_trans(t) \/ commit_done(t)
        PROVE  SpaceInv'
    <2>1. Active' = Active
      BY <1>6, <1>a DEF write_log, write_head, install_trans, commit_done, Goto, GotoWaking, Active
    <2>2. UNCHANGED <<wrote, buf, lh>> /\ (Up' => Up)
      BY <1>6 DEF write_log, write_head, install_trans, commit_done
    <2>. QED BY Zenon, <1>d, <2>1, <2>2
  <1>7. ASSUME NEW t \in Threads, clear_head(t)
        PROVE  SpaceInv'
    <2>1. Active' = Active
      BY <1>7, <1>a DEF clear_head, Goto, Active
    <2>2. Active = {}
      BY Zenon, <1>7, <1>b DEF clear_head, OpInv, CommitLabels
    <2>3. UNCHANGED <<wrote, buf>> /\ lh' = <<>>
      BY Zenon, <1>7 DEF clear_head
    <2>. QED BY Zenon, <1>c, <2>1, <2>2, <2>3, SpaceEmpty DEF SpaceInv
  <1>8. CASE crash
    <2>1. lh' = <<>> /\ Active' = {}
      BY <1>8 DEF crash, Active
    <2>2. \A t \in Threads : wrote'[t] = {} /\ buf'[t] = NoBlock
      BY Zenon, <1>8 DEF crash
    <2>3. IsFiniteSet({}) /\ Cardinality({}) <= MAXOPBLOCKS
      BY FS_EmptySet, SizeAssumption
    <2>4. OpWrote'
      BY Zenon, <2>2, <2>3 DEF OpWrote
    <2>. QED BY Zenon, <2>1, <2>4, SpaceEmpty DEF SpaceInv
  <1>9. CASE RecoverStep
    <2>1. UNCHANGED <<pc, wrote, buf>> /\ (~Up' \/ lh' = <<>>) /\ boot # "up"
      BY <1>9 DEF RecoverStep, read_head, recover_install, recover_clear, opvars, Up
    <2>2. Active' = Active /\ Active = {}
      BY <2>1 DEF IInv, BootInv, Active
    <2>3. LogSpace'
      BY Zenon, <2>1, <2>2, SpaceEmpty DEF LogSpace
    <2>. QED BY Zenon, <1>c, <2>1, <2>2, <2>3 DEF SpaceInv
  <1>10. ASSUME NEW t \in Threads, log_write_panic(t)
         PROVE  SpaceInv'
    <2>1. UNCHANGED <<wrote, buf, lh, pc>> /\ (Up' => Up)
      BY <1>10 DEF log_write_panic, opvars, Up
    <2>. QED BY Zenon, <1>d, <2>1 DEF Active
  <1>11. ASSUME NEW b \in Blocks, evict(b)
         PROVE  SpaceInv'
    <2>1. UNCHANGED <<wrote, buf, lh, pc>> /\ (Up' => Up)
      BY Zenon, <1>11 DEF evict, opvars
    <2>. QED BY Zenon, <1>d, <2>1 DEF Active
  <1>12. CASE UNCHANGED vars
    <2>1. UNCHANGED <<wrote, buf, lh, pc>> /\ (Up' => Up)
      BY <1>12 DEF vars, Up
    <2>. QED BY Zenon, <1>d, <2>1 DEF Active
  <1>. QED
    BY Zenon, <1>1, <1>2, <1>3, <1>4, <1>5, <1>6, <1>7, <1>8, <1>9, <1>10, <1>11, <1>12
    DEF Next, BeginStep, EndStep, CommitStep

\* Every reachable state satisfies the invariant.
LEMMA Invariance == Spec => []IInv
  <1>1. Init => IInv
    BY Zenon, TypeInitial, OpInitial, LogInitial, SpaceInitial DEF IInv, LogInv, QuietInv, Init
  <1>2. IInv /\ [Next]_vars => IInv'
    BY Zenon, TypeInductive, OpInductive, LogInductive, QuietInductive, SpaceInductive DEF IInv, LogInv
  <1>. QED BY <1>1, <1>2, PTL DEF Spec

-----------------------------------------------------------------------------

\* The log and the header on disk stay within the log area, at every crash point.
THEOREM TypeCorrect == Spec => []TypeOK
  BY Invariance, PTL DEF IInv

\* A thread that sleeps in begin_op() always has somebody to wake it.
THEOREM SleeperHasWaker == Spec => []BeginWoken
  <1>1. IInv => BeginWoken
    BY Zenon DEF IInv, TypeOK, QuietInv, BeginWoken, Up
  <1>. QED BY <1>1, Invariance, PTL

\* begin_op() reserves: what is logged and what active operations may still log fits
\* in LOGSIZE, for any number of concurrent operations, absorption included.
THEOREM SpaceReserved == Spec => []LogSpace
  <1>1. IInv => LogSpace
    BY Zenon DEF IInv, SpaceInv
  <1>. QED BY <1>1, Invariance, PTL

\* log_write() has a slot below LOGSIZE for every block that is not in the log yet.
THEOREM NewBlockFits ==
  Spec => [](Up => \A t \in Threads : pc[t] = "logging" /\ ~Logged(buf[t]) => Len(lh) < LOGSIZE)
  <1> DEFINE Fits == Up => \A t \in Threads : pc[t] = "logging" /\ ~Logged(buf[t])
                                                => Len(lh) < LOGSIZE
  <1>1. IInv => Fits
    <2> SUFFICES ASSUME IInv, Up, NEW t \in Threads, pc[t] = "logging", ~Logged(buf[t])
                 PROVE  Len(lh) < LOGSIZE
      BY Zenon
    <2>1. OpInv /\ OpWrote /\ LogSpace /\ lh \in Seq(Blocks)
      BY Zenon DEF IInv, TypeOK, SpaceInv
    <2>2. IsFiniteSet(wrote[t]) /\ Cardinality(wrote[t]) <= MAXOPBLOCKS /\ buf[t] \in wrote[t]
      BY Zenon, <2>1 DEF OpInv, OpWrote
    <2>3. InLog(t) \subseteq wrote[t] /\ InLog(t) # wrote[t]
      BY Zenon, <2>2 DEF InLog
    <2>4. IsFiniteSet(InLog(t)) /\ Cardinality(InLog(t)) <= Cardinality(wrote[t])
          /\ Cardinality(wrote[t]) # Cardinality(InLog(t))
      BY Zenon, <2>2, <2>3, FS_Subset
    <2>5. Cardinality(InLog(t)) \in Nat /\ Cardinality(wrote[t]) \in Nat
      BY Zenon, <2>2, <2>4, FS_CardinalityType
    <2>6. Unused(t) = MAXOPBLOCKS - Cardinality(InLog(t))
      BY Zenon DEF Unused, InLog
    <2>7. 1 \in 1 .. MAXOPBLOCKS /\ 1 <= Unused(t)
      BY <2>2, <2>4, <2>5, <2>6, SizeAssumption
    <2> DEFINE x == <<t, 1>>
    <2>8. x[1] = t /\ x[2] = 1 /\ x \in Active \X (1 .. MAXOPBLOCKS)
      BY <2>7 DEF Active
    <2> HIDE DEF x
    <2>9. x \in Promised
      BY Zenon, <2>7, <2>8 DEF Promised
    <2>10. Cardinality(Promised) # 0
      BY Zenon, <2>9, PromisedBounded, FS_EmptySet
    <2>11. Len(lh) + Cardinality(Promised) <= LOGSIZE
      BY Zenon, <2>1 DEF LogSpace
    <2>12. Cardinality(Promised) \in Nat /\ Len(lh) \in Nat /\ LOGSIZE \in Nat
      BY <2>1, PromisedBounded, SizeAssumption
    <2>. QED BY <2>10, <2>11, <2>12
  <1>. QED BY <1>1, Invariance, PTL

\* What the header names is recovered from the log, the rest from home.
LEMMA RecoveredBlocks ==
  ASSUME NoDup(head)
  PROVE  /\ \A j \in DOMAIN head : head[j] \in Blocks => Recovered[head[j]] = logd[j]
         /\ \A b \in Blocks : (\A j \in DOMAIN head : head[j] # b) => Recovered[b] = home[b]
  <1>1. ASSUME NEW j \in DOMAIN head, head[j] \in Blocks
        PROVE  Recovered[head[j]] = logd[j]
    <2>1. (CHOOSE k \in DOMAIN head : head[k] = head[j]) = j
      BY DEF NoDup
    <2>. QED BY Zenon, <1>1, <2>1 DEF Recovered
  <1>. QED BY Zenon, <1>1 DEF Recovered

\* The same of the next state.
LEMMA RecoveredNext ==
  ASSUME NoDup(head)'
  PROVE  /\ \A j \in DOMAIN head' : head'[j] \in Blocks => Recovered'[head'[j]] = logd'[j]
         /\ \A b \in Blocks : (\A j \in DOMAIN head' : head'[j] # b) => Recovered'[b] = home'[b]
  <1>1. ASSUME NEW j \in DOMAIN head', head'[j] \in Blocks
        PROVE  Recovered'[head'[j]] = logd'[j]
    <2>1. (CHOOSE k \in DOMAIN head' : head'[k] = head'[j]) = j
      BY DEF NoDup
    <2>. QED BY Zenon, <1>1, <2>1 DEF Recovered
  <1>. QED BY <1>1 DEF Recovered

\* An empty header means the disk is as it should be.
LEMMA NothingToRecover ==
  /\ TypeOK /\ head = <<>> => Recovered = home
  /\ TypeOK' /\ head' = <<>> => Recovered' = home'
  BY DEF TypeOK, Recovered

\* Nobody has a buffer locked outside an operation.
LEMMA QuietUnlocked ==
  ASSUME OpInv, Active = {}
  PROVE  \A b \in Blocks : ~Locked(b)
  BY BlockAssumption DEF OpInv, Active, Locked

\* Once no operation and no commit is running, the disk holds what memory holds.
THEOREM Durability == Spec => []QuiescentDurable
  <1>1. IInv => QuiescentDurable
    <2> SUFFICES ASSUME IInv, Up, Active = {}, committing = 0
                 PROVE  Recovered = cache
      BY DEF QuiescentDurable
    <2>1. TypeOK /\ OpInv /\ lh = <<>> /\ boot = "up"
      BY Zenon DEF IInv, QuietInv, Up
    <2>2. head = <<>>
      BY ZenonT(60), <2>1 DEF IInv, OpInv, CommitInv, CommitLabels, At
    <2>3. \A b \in Blocks : cache[b] = home[b]
      BY <2>1, QuietUnlocked DEF IInv, CacheInv, Logged
    <2>. QED BY <2>1, <2>2, <2>3, NothingToRecover DEF TypeOK
  <1>. QED BY <1>1, Invariance, PTL

-----------------------------------------------------------------------------

\* Installing a log block changes nothing that recovery would not redo.
LEMMA InstallKeepsRecovered ==
  ASSUME TypeOK, head = lh, tail \in DOMAIN lh, install1, UNCHANGED <<head, logd>>
  PROVE  Recovered' = Recovered
  <1>1. \A b \in Blocks : (\A k \in DOMAIN head : head[k] # b) => home'[b] = home[b]
    BY Zenon DEF TypeOK, install1
  <1>. QED BY Zenon, <1>1 DEF Recovered

\* A header whose blocks are all installed changes nothing.
LEMMA RecoveredHome ==
  ASSUME TypeOK, NoDup(head), \A j \in DOMAIN head : home[head[j]] = logd[j]
  PROVE  Recovered = home
  <1>1. \A j \in DOMAIN head : head[j] \in Blocks
    BY DEF TypeOK
  <1>2. \A b \in Blocks : Recovered[b] = home[b]
    <2> TAKE b \in Blocks
    <2>1. CASE \E j \in DOMAIN head : head[j] = b
      <3>1. PICK j \in DOMAIN head : head[j] = b
        BY Zenon, <2>1
      <3>2. Recovered[head[j]] = logd[j] /\ home[head[j]] = logd[j]
        BY Zenon, <1>1, <3>1, RecoveredBlocks
      <3>. QED BY Zenon, <3>1, <3>2
    <2>2. CASE ~ \E j \in DOMAIN head : head[j] = b
      BY Zenon, <1>1, <2>2, RecoveredBlocks
    <2>. QED BY <2>1, <2>2
  <1>. QED BY <1>2 DEF Recovered, TypeOK

\* Every step of the log is a step of AtomicFs, or changes nothing it can see:
\* write_head() is Commit, log_write() and install_trans() are invisible.
LEMMA Simulation == IInv /\ IInv' /\ [Next]_vars => [Atomic!Next]_(Atomic!vars)
  <1> SUFFICES ASSUME IInv, IInv', [Next]_vars
               PROVE  [Atomic!Next]_(Atomic!vars)
    OBVIOUS
  <1> DEFINE Same == Recovered' = Recovered /\ View' = View /\ Active' = Active
  <1>s. Same => [Atomic!Next]_(Atomic!vars)
    BY DEF Atomic!vars
  <1>a. TypeOK /\ OpInv /\ NoDup(head) /\ CommitInv /\ CacheInv /\ BootInv
    BY DEF IInv
  <1>b. TypeOK' /\ NoDup(head)'
    BY DEF IInv
  <1>c. pc \in [Threads -> Labels]
    BY <1>a DEF TypeOK
  <1>1. ASSUME NEW t \in Threads, begin_sleep(t)
        PROVE  Same
    BY <1>1, <1>c DEF begin_sleep, Goto, Active, Recovered, View, disk
  <1>2. ASSUME NEW t \in Threads, begin_op(t)
        PROVE  Atomic!Begin(t)
    <2>1. t \notin Active /\ Active' = Active \cup {t}
      BY Zenon, <1>2, <1>c DEF begin_op, Goto, Active
    <2>2. Recovered' = Recovered /\ View' = View
      BY <1>2 DEF begin_op, Recovered, View, disk
    <2>. QED BY <2>1, <2>2 DEF Atomic!Begin
  <1>3. ASSUME NEW t \in Threads, NEW b \in Blocks, NEW v \in Data, modify(t, b, v)
        PROVE  Atomic!Write(t, b, v)
    <2>1. t \in Active /\ Active' = Active
      BY Zenon, <1>3, <1>c DEF modify, Goto, Active
    <2>2. Recovered' = Recovered /\ View' = [View EXCEPT ![b] = v]
      BY Zenon, <1>3 DEF modify, Recovered, View, disk, Up
    <2>. QED BY Zenon, <2>1, <2>2 DEF Atomic!Write
  <1>4. ASSUME NEW t \in Threads, log_write(t)
        PROVE  Same
    BY Zenon, <1>4, <1>c DEF log_write, Goto, Active, Recovered, View, disk
  <1>5. ASSUME NEW t \in Threads, log_write_panic(t)
        PROVE  Same
    BY Zenon, <1>5 DEF log_write_panic, opvars, Active, Recovered, View, disk
  <1>6. ASSUME NEW b \in Blocks, evict(b)
        PROVE  Same
    BY Zenon, <1>6, EvictKeepsCache DEF evict, opvars, Active, Recovered, View, disk
  <1>7. ASSUME NEW t \in Threads, end_op(t)
        PROVE  Atomic!End(t)
    <2>1. t \in Active /\ Active' = Active \ {t}
      BY <1>7, <1>c DEF end_op, GotoWaking, Active
    <2>2. Recovered' = Recovered /\ View' = View
      BY <1>7 DEF end_op, Recovered, View, disk
    <2>. QED BY <2>1, <2>2 DEF Atomic!End
  <1>8. ASSUME NEW t \in Threads, end_op_last(t)
        PROVE  Atomic!End(t)
    <2>1. t \in Active /\ Active' = Active \ {t}
      BY Zenon, <1>8, <1>c DEF end_op_last, Goto, Active
    <2>2. Recovered' = Recovered /\ View' = View
      BY Zenon, <1>8 DEF end_op_last, Recovered, View, disk
    <2>. QED BY <2>1, <2>2 DEF Atomic!End
  <1>9. ASSUME NEW t \in Threads, write_log(t)
        PROVE  Same
    <2>1. head = <<>>
      <3>1. ~At("install") /\ ~At("clear")
        BY Zenon, <1>9, <1>a, OneCommitter DEF write_log, CommitLabels
      <3>. QED BY Zenon, <1>9, <1>a, <3>1 DEF write_log, CommitInv, Up
    <2>2. Recovered' = Recovered
      BY ZenonT(60), <1>9, <1>a, <1>b, <2>1, NothingToRecover DEF write_log
    <2>3. Active' = Active
      BY <1>9, <1>c DEF write_log, Goto, Active
    <2>. QED BY Zenon, <1>9, <2>2, <2>3 DEF write_log, View
  <1>10. ASSUME NEW t \in Threads, write_head(t)
         PROVE  Atomic!Commit
    <2>1. /\ boot = "up" /\ boot' = "up" /\ head' = lh
          /\ UNCHANGED <<home, logd, cache>> /\ Active = {} /\ Active' = Active
      BY Zenon, <1>10, <1>a, <1>c DEF write_head, Up, Goto, Active, OpInv, CommitLabels
    <2>2. \A b \in Blocks : Logged(b) => Recovered'[b] = cache[b]
      <3>1. CopiedBelow(Len(lh) + 1)
        BY Zenon, <1>10, <1>a DEF write_head, CommitInv, At, Up
      <3>2. \A j \in DOMAIN lh : logd[j] = cache[lh[j]] /\ lh[j] \in Blocks
        <4>1. \A j \in DOMAIN lh : j < Len(lh) + 1 /\ lh[j] \in Blocks
          BY <1>a DEF TypeOK
        <4>. QED BY Zenon, <3>1, <4>1 DEF CopiedBelow
      <3>3. \A j \in DOMAIN lh : Recovered'[lh[j]] = logd[j]
        BY Zenon, <1>b, <2>1, <3>2, RecoveredNext
      <3>. QED BY Zenon, <3>2, <3>3 DEF Logged
    <2>3. \A b \in Blocks : ~Logged(b) => Recovered'[b] = cache[b]
      <3>1. \A b \in Blocks : ~Logged(b) => cache[b] = home[b]
        BY Zenon, <1>a, <2>1, QuietUnlocked DEF CacheInv
      <3>2. \A b \in Blocks : ~Logged(b) => Recovered'[b] = home[b]
        BY Zenon, <1>b, <2>1, RecoveredNext DEF Logged
      <3>. QED BY Zenon, <3>1, <3>2
    <2>4. Recovered' = cache
      BY Zenon, <1>a, <2>2, <2>3 DEF Recovered, TypeOK
    <2>. QED BY Zenon, <2>1, <2>4 DEF Atomic!Commit, View
  <1>11. ASSUME NEW t \in Threads, install_trans(t)
         PROVE  Same
    <2>1. tail \in DOMAIN lh /\ head = lh /\ boot = "up" /\ boot' = "up"
      BY <1>11, <1>a DEF install_trans, CommitInv, At, Up
    <2>2. Recovered' = Recovered
      BY Zenon, <1>11, <1>a, <2>1, InstallKeepsRecovered DEF install_trans
    <2>3. cache' = cache
      <3>1. tail < Len(lh) + 1
        BY <1>a, <2>1 DEF TypeOK
      <3>2. logd[tail] = cache[lh[tail]]
        BY Zenon, <1>11, <1>a, <2>1, <3>1 DEF install_trans, CommitInv, At, CopiedBelow
      <3>. QED BY Zenon, <1>11, <1>a, <3>2 DEF install_trans, install1, TypeOK
    <2>4. Active' = Active
      BY <1>11, <1>c DEF install_trans, Goto, Active
    <2>. QED BY <2>1, <2>2, <2>3, <2>4 DEF View
  <1>12. ASSUME NEW t \in Threads, clear_head(t)
         PROVE  Same
    <2>1. /\ boot = "up" /\ boot' = "up" /\ head = lh /\ head' = <<>>
          /\ InstalledBelow(Len(lh) + 1) /\ UNCHANGED <<home, cache>>
      BY Zenon, <1>12, <1>a DEF clear_head, CommitInv, At, Up
    <2>2. \A j \in DOMAIN head : home[head[j]] = logd[j]
      BY <1>a, <2>1 DEF InstalledBelow, TypeOK
    <2>3. Recovered' = home
      BY Zenon, <1>b, <2>1, NothingToRecover
    <2>4. Recovered = home
      BY Zenon, <1>a, <2>2, RecoveredHome
    <2>5. Active' = Active
      BY ZenonT(60), <1>12, <1>c DEF clear_head, Goto, Active
    <2>. QED BY Zenon, <2>1, <2>3, <2>4, <2>5 DEF View
  <1>13. ASSUME NEW t \in Threads, commit_done(t)
         PROVE  Same
    BY <1>13, <1>c DEF commit_done, GotoWaking, Active, Recovered, View, disk
  <1>14. ASSUME crash
         PROVE  Atomic!Crash
    <2>1. Recovered' = Recovered /\ View' = Recovered /\ Active' = {}
      BY Zenon, <1>14 DEF crash, disk, Recovered, View, Active
    <2>. QED BY Zenon, <2>1 DEF Atomic!Crash
  <1>15. ASSUME read_head
         PROVE  Same
    <2>1. UNCHANGED <<home, head, logd, pc>> /\ boot # "up" /\ boot' # "up"
      BY <1>15 DEF read_head, disk, opvars
    <2>. QED BY <2>1 DEF Recovered, View, Active
  <1>16. ASSUME recover_install
         PROVE  Same
    <2>1. /\ UNCHANGED <<head, logd, pc>> /\ boot # "up" /\ boot' # "up"
          /\ head = lh /\ tail \in DOMAIN lh
      BY Zenon, <1>16, <1>a DEF recover_install, opvars, BootInv
    <2>2. Recovered' = Recovered
      BY Zenon, <1>16, <1>a, <2>1, InstallKeepsRecovered DEF recover_install
    <2>. QED BY Zenon, <2>1, <2>2 DEF View, Active
  <1>17. ASSUME recover_clear
         PROVE  Same
    <2>1. /\ boot = "clear" /\ boot' = "up" /\ head' = <<>> /\ cache = home
          /\ UNCHANGED <<home, cache, pc>>
          /\ \A j \in DOMAIN head : home[head[j]] = logd[j]
      BY Zenon, <1>17, <1>a DEF recover_clear, opvars, BootInv
    <2>2. Recovered' = home
      BY Zenon, <1>b, <2>1, NothingToRecover
    <2>3. Recovered = home
      BY Zenon, <1>a, <2>1, RecoveredHome
    <2>. QED BY Zenon, <2>1, <2>2, <2>3 DEF View, Active
  <1>18. ASSUME UNCHANGED vars
         PROVE  Same
    BY <1>18 DEF vars, Recovered, View, Active
  <1> HIDE DEF Same
  <1>. QED
    <2>1. Same \/ Atomic!Next
      BY <1>1, <1>2, <1>3, <1>4, <1>5, <1>6, <1>7, <1>8, <1>9, <1>10, <1>11, <1>12,
         <1>13, <1>14, <1>15, <1>16, <1>17, <1>18
      DEF Next, BeginStep, EndStep, CommitStep, RecoverStep, Atomic!Next
    <2>. QED BY <1>s, <2>1

\* Whatever the crash points, the file system above the log sees an atomic one:
\* what a reboot finds is the memory of a moment when no operation was active,
\* and a commit is the only step that moves that moment forward.
THEOREM CrashSafety == Spec => AtomicFsSpec
  <1>1. Init => Atomic!Init
    <2> SUFFICES ASSUME Init
                 PROVE  Atomic!Init
      OBVIOUS
    <2>1. Recovered = home /\ View = home /\ Active = {}
      BY TypeInitial, NothingToRecover DEF Init, View, Active
    <2>. QED BY Zenon, <2>1 DEF Atomic!Init, Init
  <1>2. IInv /\ IInv' /\ [Next]_vars => [Atomic!Next]_(Atomic!vars)
    BY Simulation
  <1>. QED BY <1>1, <1>2, Invariance, PTL DEF Spec, AtomicFsSpec, Atomic!Spec
=============================================================================
