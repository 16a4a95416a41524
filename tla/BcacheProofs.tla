---------------------------- MODULE BcacheProofs ----------------------------
(***************************************************************************)
(* Proofs about Bcache, for any numbers of threads, buffers and blocks:    *)
(* its reference counts are exact, and it implements BlockStore.           *)
(***************************************************************************)
EXTENDS Bcache, FiniteSetTheorems, TLAPS

Labels == {"idle", "lock", "locksleep", "lockwoken", "rw", "have", "release"}

Requests == [block : Blocks, write : BOOLEAN, done : BOOLEAN]

TypeInv ==
    /\ store \in [Blocks -> Data] /\ bdata \in [Bufs -> Data]
    /\ req \in [Bufs -> Requests \cup {None}]
    /\ pc \in [Threads -> Labels] /\ buf \in [Threads -> Bufs \cup {None}]
    /\ block \in [Bufs -> Blocks \cup {None}]
    /\ valid \in [Bufs -> BOOLEAN] /\ pin \in [Bufs -> BOOLEAN]
    /\ refcnt \in [Bufs -> Int]
    /\ locked \in [Bufs -> Threads \cup {None}]
    /\ owes \in [Threads -> {"nothing", "changed", "written"}]

Owner(t) == pc[t] \in {"rw", "have"}

Users(b) == {t \in Threads : buf[t] = b}

\* A thread inside bread() to brelse() refers to a buffer with a block.
ThreadInv ==
    \A t \in Threads :
        /\ pc[t] = "idle" <=> buf[t] = None
        /\ pc[t] # "idle" => block[buf[t]] # None
        /\ pc[t] = "have" => valid[buf[t]]
        /\ owes[t] # "nothing" => Owner(t) /\ valid[buf[t]]

LockInv == \A t \in Threads, b \in Bufs : locked[b] = t <=> buf[t] = b /\ Owner(t)

RefInv == \A b \in Bufs : refcnt[b] = Cardinality(Users(b)) + (IF pin[b] THEN 1 ELSE 0)

BlockInv ==
    /\ \A b, c \in Bufs : block[b] # None /\ block[b] = block[c] => b = c
    /\ \A b \in Bufs : valid[b] => block[b] # None
    /\ \A b \in Bufs : pin[b] => valid[b]

\* A request is the owner's, for its block; once done, buffer and block agree.
ReqInv ==
    \A b \in Bufs : req[b] # None =>
        /\ \E t \in Threads : buf[t] = b /\ pc[t] = "rw"
        /\ req[b].block = block[b] /\ req[b].write = valid[b]
        /\ req[b].done => bdata[b] = store[block[b]]

\* A valid buffer that differs from its block is pinned, or its holder has yet
\* to pin or write it.
CleanInv ==
    /\ \A b \in Bufs : valid[b] /\ ~pin[b] /\ bdata[b] # store[block[b]]
                          => \E t \in Threads : buf[t] = b /\ owes[t] = "changed"
    /\ \A t \in Threads : owes[t] = "written" => bdata[buf[t]] = store[block[buf[t]]]

IInv == TypeInv /\ ThreadInv /\ LockInv /\ RefInv /\ BlockInv /\ ReqInv /\ CleanInv

\* binit(): no block is cached.
LEMMA Initial == Init => IInv
  <1> SUFFICES ASSUME Init PROVE IInv
    OBVIOUS
  <1>1. TypeInv
    BY DEF Init, RawInit, InitStore, TypeInv, Labels
  <1>2. ThreadInv /\ LockInv
    BY Zenon, NoneAssumption DEF Init, ThreadInv, LockInv, Owner
  <1>3. RefInv
    <2>1. ASSUME NEW b \in Bufs PROVE Users(b) = {}
      BY Zenon, NoneAssumption DEF Init, Users
    <2>2. Cardinality({}) = 0
      BY Zenon, FS_EmptySet
    <2>3. ASSUME NEW b \in Bufs
          PROVE  refcnt[b] = Cardinality(Users(b)) + (IF pin[b] THEN 1 ELSE 0)
      <3>1. refcnt[b] = 0 /\ ~pin[b]
        BY Zenon DEF Init
      <3>. QED BY <3>1, <2>1, <2>2
    <2>. QED BY <2>3, Zenon DEF RefInv
  <1>4. BlockInv /\ CleanInv
    BY Zenon DEF Init, BlockInv, CleanInv
  <1>5. ReqInv
    BY Zenon DEF Init, RawInit, ReqInv
  <1>. QED BY Zenon, <1>1, <1>2, <1>3, <1>4, <1>5 DEF IInv

\* b->refcnt is zero only for a buffer that no thread and no transaction refers to.
LEMMA UnusedBuffer ==
  ASSUME IInv, NEW b \in Bufs, refcnt[b] = 0
  PROVE  ~pin[b] /\ \A t \in Threads : buf[t] # b
  <1>1. IsFiniteSet(Users(b))
    BY Zenon, ThreadsAssumption, FS_Subset DEF Users
  <1>2. Cardinality(Users(b)) \in Nat
    BY Zenon, <1>1, FS_CardinalityType
  <1>3. 0 = Cardinality(Users(b)) + (IF pin[b] THEN 1 ELSE 0)
    BY Zenon DEF IInv, RefInv
  <1>4. ~pin[b] /\ Cardinality(Users(b)) = 0
    BY <1>2, <1>3
  <1>5. Users(b) = {}
    BY Zenon, <1>1, <1>4, FS_EmptySet
  <1>. QED BY Zenon, <1>4, <1>5 DEF Users

\* A thread that takes a reference to b is one more user of b.
LEMMA UsersGain ==
  ASSUME IInv, NEW t \in Threads, NEW b \in Bufs, buf[t] = None,
         buf' = [buf EXCEPT ![t] = b]
  PROVE  /\ Cardinality(Users(b)') = Cardinality(Users(b)) + 1
         /\ \A c \in Bufs \ {b} : Users(c)' = Users(c)
  <1>1. buf'[t] = b /\ \A u \in Threads \ {t} : buf'[u] = buf[u]
    BY Zenon DEF IInv, TypeInv
  <1>2. Users(b)' = Users(b) \cup {t} /\ t \notin Users(b)
    BY Zenon, <1>1, NoneAssumption DEF Users
  <1>3. IsFiniteSet(Users(b))
    BY Zenon, ThreadsAssumption, FS_Subset DEF Users
  <1>4. Cardinality(Users(b)') = Cardinality(Users(b)) + 1
    BY Zenon, <1>2, <1>3, FS_AddElement
  <1>5. ASSUME NEW c \in Bufs \ {b} PROVE Users(c)' = Users(c)
    BY Zenon, <1>1, NoneAssumption DEF Users
  <1>. QED BY Zenon, <1>4, <1>5

\* bget() finds the block: one more reference, to the only buffer that has it.
LEMMA HitStep ==
  ASSUME IInv, NEW t \in Threads, NEW b \in Bufs, pc[t] = "idle", block[b] # None,
         refcnt' = [refcnt EXCEPT ![b] = @ + 1], buf' = [buf EXCEPT ![t] = b],
         pc' = [pc EXCEPT ![t] = "lock"],
         UNCHANGED <<rawvars, block, valid, locked, lru, pin, owes, panicked>>
  PROVE  IInv'
  <1>1. UNCHANGED <<store, bdata, req>>
    BY Zenon DEF rawvars
  <1>2. buf[t] = None
    BY Zenon DEF IInv, ThreadInv
  <1>3. /\ buf'[t] = b /\ pc'[t] = "lock"
        /\ \A u \in Threads \ {t} : buf'[u] = buf[u] /\ pc'[u] = pc[u]
    BY Zenon DEF IInv, TypeInv
  <1>4. TypeInv'
    BY <1>1 DEF IInv, TypeInv, Labels
  <1>5. ThreadInv'
    <2>1. owes[t] = "nothing"
      BY Zenon DEF IInv, ThreadInv, Owner
    <2>. QED BY <1>3, <2>1, NoneAssumption DEF IInv, ThreadInv, Owner
  <1>6. LockInv'
    <2>1. \A u \in Threads, c \in Bufs :
             (buf'[u] = c /\ Owner(u)') <=> (buf[u] = c /\ Owner(u))
      BY Zenon, <1>3 DEF Owner
    <2>. QED BY <2>1 DEF IInv, LockInv
  <1>7. RefInv'
    <2>1. refcnt'[b] = refcnt[b] + 1 /\ \A c \in Bufs \ {b} : refcnt'[c] = refcnt[c]
      BY Zenon DEF IInv, TypeInv
    <2>2. Cardinality(Users(b)') = Cardinality(Users(b)) + 1
      BY Zenon, <1>2, UsersGain
    <2>3. \A c \in Bufs \ {b} : Users(c)' = Users(c)
      BY Zenon, <1>2, UsersGain
    <2>4. Cardinality(Users(b)) \in Nat
      BY Zenon, ThreadsAssumption, FS_Subset, FS_CardinalityType DEF Users
    <2>5. refcnt[b] = Cardinality(Users(b)) + (IF pin[b] THEN 1 ELSE 0)
      BY Zenon DEF IInv, RefInv
    <2>6. refcnt'[b] = Cardinality(Users(b)') + (IF pin[b] THEN 1 ELSE 0)
      BY <2>1, <2>2, <2>4, <2>5
    <2>7. ASSUME NEW c \in Bufs, c # b
          PROVE  refcnt'[c] = Cardinality(Users(c)') + (IF pin[c] THEN 1 ELSE 0)
      BY <2>1, <2>3, <2>7, Zenon DEF IInv, RefInv
    <2>. QED BY <2>6, <2>7, Zenon DEF RefInv
  <1>8. BlockInv'
    BY Zenon DEF IInv, BlockInv
  <1>9. ReqInv'
    <2>1. ASSUME NEW c \in Bufs, NEW u \in Threads, buf[u] = c, pc[u] = "rw"
          PROVE  buf'[u] = c /\ pc'[u] = "rw"
      BY Zenon, <1>3, <2>1
    <2>2. ASSUME NEW c \in Bufs, req[c] # None
          PROVE  \E u \in Threads : buf'[u] = c /\ pc'[u] = "rw"
      BY <2>1, <2>2 DEF IInv, ReqInv
    <2>. QED BY <1>1, <2>2, Zenon DEF IInv, ReqInv
  <1>10. CleanInv'
    <2>1. ASSUME NEW u \in Threads, owes[u] # "nothing" PROVE buf'[u] = buf[u]
      BY Zenon, <1>3, <2>1 DEF IInv, ThreadInv, Owner
    <2>. QED BY <1>1, <2>1 DEF IInv, CleanInv
  <1>. QED BY Zenon, <1>4, <1>5, <1>6, <1>7, <1>8, <1>9, <1>10 DEF IInv

\* bget() recycles a buffer that nobody refers to.
LEMMA MissStep ==
  ASSUME IInv, NEW t \in Threads, NEW b \in Bufs, NEW k \in Blocks, pc[t] = "idle",
         Cached(k) = {}, refcnt[b] = 0,
         block' = [block EXCEPT ![b] = k], valid' = [valid EXCEPT ![b] = FALSE],
         refcnt' = [refcnt EXCEPT ![b] = 1], buf' = [buf EXCEPT ![t] = b],
         pc' = [pc EXCEPT ![t] = "lock"],
         UNCHANGED <<rawvars, locked, lru, pin, owes, panicked>>
  PROVE  IInv'
  <1>1. /\ store' = store /\ bdata' = bdata /\ req' = req
        /\ pin' = pin /\ owes' = owes
    BY Zenon DEF rawvars
  <1>2. buf[t] = None /\ owes[t] = "nothing"
    BY Zenon DEF IInv, ThreadInv, Owner
  <1>3. ~pin[b] /\ \A u \in Threads : buf[u] # b
    BY Zenon, UnusedBuffer
  <1>4. req[b] = None
    BY <1>3, Zenon DEF IInv, ReqInv
  <1>5. /\ buf'[t] = b /\ pc'[t] = "lock"
        /\ \A u \in Threads \ {t} : buf'[u] = buf[u] /\ pc'[u] = pc[u]
    BY Zenon DEF IInv, TypeInv
  <1>6. /\ block'[b] = k /\ ~valid'[b] /\ refcnt'[b] = 1
        /\ \A c \in Bufs \ {b} : /\ block'[c] = block[c] /\ valid'[c] = valid[c]
                                 /\ refcnt'[c] = refcnt[c]
    BY Zenon DEF IInv, TypeInv
  <1>7. k # None /\ \A c \in Bufs : block[c] # k
    BY Zenon, NoneAssumption DEF Cached
  <1>8. TypeInv'
    BY <1>1 DEF IInv, TypeInv, Labels
  <1>9. ThreadInv'
    <2>1. ASSUME NEW u \in Threads, pc[u] # "idle" PROVE buf[u] \in Bufs \ {b}
      BY <1>3, <2>1 DEF IInv, TypeInv, ThreadInv
    <2>2. ASSUME NEW u \in Threads, pc[u] # "idle"
          PROVE  block'[buf[u]] = block[buf[u]] /\ valid'[buf[u]] = valid[buf[u]]
      BY <1>6, <2>1, <2>2, Zenon
    <2>3. owes' = owes /\ b # None
      BY Zenon, NoneAssumption
    <2>4. ASSUME NEW u \in Threads, u # t
          PROVE  /\ pc'[u] = "idle" <=> buf'[u] = None
                 /\ pc'[u] # "idle" => block'[buf'[u]] # None
                 /\ pc'[u] = "have" => valid'[buf'[u]]
                 /\ owes'[u] # "nothing" => Owner(u)' /\ valid'[buf'[u]]
      <3>1. buf'[u] = buf[u] /\ pc'[u] = pc[u]
        BY Zenon, <1>5, <2>4
      <3>2. /\ pc[u] = "idle" <=> buf[u] = None
            /\ pc[u] # "idle" => block[buf[u]] # None
            /\ pc[u] = "have" => valid[buf[u]]
            /\ owes[u] # "nothing" => Owner(u) /\ valid[buf[u]]
        BY Zenon DEF IInv, ThreadInv
      <3>. QED BY Zenon, <2>2, <2>3, <3>1, <3>2 DEF Owner
    <2>. QED BY <1>2, <1>5, <1>6, <1>7, <2>3, <2>4 DEF ThreadInv
  <1>10. LockInv'
    <2>1. \A u \in Threads, c \in Bufs :
             (buf'[u] = c /\ Owner(u)') <=> (buf[u] = c /\ Owner(u))
      BY Zenon, <1>2, <1>5 DEF Owner
    <2>. QED BY <2>1 DEF IInv, LockInv
  <1>11. RefInv'
    <2>1. Users(b) = {} /\ Cardinality({}) = 0
      BY Zenon, <1>3, FS_EmptySet DEF Users
    <2>2. Cardinality(Users(b)') = 1
      <3>1. Cardinality(Users(b)') = Cardinality(Users(b)) + 1
        BY Zenon, <1>2, UsersGain
      <3>. QED BY <2>1, <3>1
    <2>3. \A c \in Bufs \ {b} : Users(c)' = Users(c)
      BY Zenon, <1>2, UsersGain
    <2>4. refcnt'[b] = Cardinality(Users(b)') + (IF pin'[b] THEN 1 ELSE 0)
      BY <1>3, <1>6, <2>2
    <2>5. ASSUME NEW c \in Bufs, c # b
          PROVE  refcnt'[c] = Cardinality(Users(c)') + (IF pin'[c] THEN 1 ELSE 0)
      BY <1>6, <2>3, <2>5 DEF IInv, RefInv
    <2>. QED BY <2>4, <2>5, Zenon DEF RefInv
  <1>12. BlockInv'
    BY <1>3, <1>6, <1>7 DEF IInv, BlockInv
  <1>13. ReqInv'
    <2>1. ASSUME NEW c \in Bufs, NEW u \in Threads, buf[u] = c, pc[u] = "rw"
          PROVE  buf'[u] = c /\ pc'[u] = "rw"
      BY Zenon, <1>5, <2>1
    <2>2. ASSUME NEW c \in Bufs, req[c] # None
          PROVE  c # b /\ \E u \in Threads : buf'[u] = c /\ pc'[u] = "rw"
      BY <1>4, <2>1, <2>2 DEF IInv, ReqInv
    <2>3. ASSUME NEW c \in Bufs, req[c] # None
          PROVE  /\ req[c].block = block'[c] /\ req[c].write = valid'[c]
                 /\ req[c].done => bdata[c] = store[block'[c]]
      <3>1. block'[c] = block[c] /\ valid'[c] = valid[c]
        BY <1>6, <2>2, <2>3, Zenon
      <3>2. /\ req[c].block = block[c] /\ req[c].write = valid[c]
            /\ req[c].done => bdata[c] = store[block[c]]
        BY <2>3, Zenon DEF IInv, ReqInv
      <3>. QED BY Zenon, <3>1, <3>2
    <2>. QED BY <1>1, <2>2, <2>3, Zenon DEF ReqInv
  <1>14. CleanInv'
    <2>1. ASSUME NEW u \in Threads, owes[u] # "nothing"
          PROVE  buf'[u] = buf[u] /\ buf[u] \in Bufs \ {b}
      BY <1>2, <1>3, <1>5, <2>1 DEF IInv, TypeInv, ThreadInv, Owner
    <2>2. ASSUME NEW c \in Bufs, valid'[c], ~pin[c], bdata[c] # store[block'[c]]
          PROVE  \E u \in Threads : buf'[u] = c /\ owes[u] = "changed"
      <3>1. c # b
        BY Zenon, <1>6, <2>2
      <3>2. PICK u \in Threads : buf[u] = c /\ owes[u] = "changed"
        BY <1>6, <2>2, <3>1 DEF IInv, CleanInv
      <3>. QED BY Zenon, <2>1, <3>2
    <2>3. ASSUME NEW u \in Threads, owes[u] = "written"
          PROVE  bdata[buf'[u]] = store[block'[buf'[u]]]
      BY <1>6, <2>1, <2>3 DEF IInv, CleanInv
    <2>. QED BY <1>1, <2>2, <2>3 DEF CleanInv
  <1>. QED BY Zenon, <1>8, <1>9, <1>10, <1>11, <1>12, <1>13, <1>14 DEF IInv

\* The sleep lock is exclusive: a buffer in use has one owner, and the others
\* that refer to it have done nothing to it.
LEMMA OneOwner ==
  ASSUME IInv, NEW t \in Threads, Owner(t)
  PROVE  /\ buf[t] \in Bufs /\ locked[buf[t]] = t /\ block[buf[t]] \in Blocks
         /\ \A u \in Threads : Owner(u) /\ buf[u] = buf[t] => u = t
  <1>1. buf[t] \in Bufs
    BY DEF IInv, TypeInv, ThreadInv, Owner
  <1>2. locked[buf[t]] = t
    BY Zenon, <1>1 DEF IInv, LockInv
  <1>3. block[buf[t]] \in Blocks
    BY <1>1 DEF IInv, TypeInv, ThreadInv, Owner
  <1>4. ASSUME NEW u \in Threads, Owner(u), buf[u] = buf[t] PROVE u = t
    BY Zenon, <1>1, <1>2, <1>4 DEF IInv, LockInv
  <1>. QED BY Zenon, <1>1, <1>2, <1>3, <1>4

\* What no reference is taken or dropped in keeps the counts exact.
LEMMA SameRefs ==
  ASSUME IInv, UNCHANGED <<buf, refcnt, pin>>
  PROVE  RefInv'
  <1>1. \A b \in Bufs : Users(b)' = Users(b)
    BY Zenon DEF Users
  <1>. QED BY Zenon, <1>1 DEF IInv, RefInv

\* acquiresleep() goes to sleep, and kill() wakes it.
LEMMA WaitStep ==
  ASSUME IInv, NEW t \in Threads, NEW l \in {"lock", "locksleep", "lockwoken"},
         pc[t] \in {"lock", "locksleep", "lockwoken"},
         pc' = [pc EXCEPT ![t] = l], UNCHANGED <<rawvars, buf, bvars>>
  PROVE  IInv'
  <1>1. UNCHANGED <<store, bdata, req, buf, block, valid, refcnt, locked, pin, owes>>
    BY Zenon DEF rawvars, bvars
  <1>2. /\ pc'[t] = l /\ l \in Labels
        /\ \A u \in Threads \ {t} : pc'[u] = pc[u]
    BY Zenon DEF IInv, TypeInv, Labels
  <1>3. \A u \in Threads : Owner(u)' <=> Owner(u)
    BY Zenon, <1>2 DEF Owner
  <1>4. TypeInv'
    BY Zenon, <1>1, <1>2 DEF IInv, TypeInv
  <1>5. ThreadInv'
    BY Zenon, <1>1, <1>2, <1>3 DEF IInv, ThreadInv
  <1>6. LockInv'
    BY <1>1, <1>3 DEF IInv, LockInv
  <1>7. RefInv'
    BY Zenon, <1>1, SameRefs
  <1>8. BlockInv' /\ CleanInv'
    BY <1>1 DEF IInv, BlockInv, CleanInv
  <1>9. ReqInv'
    <2>1. \A u \in Threads : pc[u] = "rw" => pc'[u] = "rw"
      BY Zenon, <1>2
    <2>. QED BY <1>1, <2>1 DEF IInv, ReqInv
  <1>. QED BY Zenon, <1>4, <1>5, <1>6, <1>7, <1>8, <1>9 DEF IInv

\* acquiresleep() takes the lock of a buffer that has no owner.
LEMMA TakeStep ==
  ASSUME IInv, NEW t \in Threads, pc[t] \in {"lock", "lockwoken"}, locked[buf[t]] = None,
         locked' = [locked EXCEPT ![buf[t]] = t],
         pc' = [pc EXCEPT ![t] = IF valid[buf[t]] THEN "have" ELSE "rw"],
         UNCHANGED <<rawvars, buf, block, valid, refcnt, pin, owes>>
  PROVE  IInv'
  <1>1. /\ store' = store /\ bdata' = bdata /\ req' = req
        /\ buf' = buf /\ block' = block /\ valid' = valid
        /\ refcnt' = refcnt /\ pin' = pin /\ owes' = owes
    BY Zenon DEF rawvars
  <1>2. buf[t] \in Bufs
    BY Zenon DEF IInv, TypeInv, ThreadInv
  <1>3. /\ valid[buf[t]] => pc'[t] = "have"
        /\ ~valid[buf[t]] => pc'[t] = "rw"
        /\ \A u \in Threads \ {t} : pc'[u] = pc[u]
    BY Zenon DEF IInv, TypeInv
  <1>4. /\ locked'[buf[t]] = t
        /\ \A c \in Bufs \ {buf[t]} : locked'[c] = locked[c]
    BY Zenon, <1>2 DEF IInv, TypeInv
  <1>5. Owner(t)' /\ ~Owner(t) /\ \A u \in Threads \ {t} : Owner(u)' <=> Owner(u)
    BY Zenon, <1>3 DEF Owner
  <1>6. TypeInv'
    BY Zenon, <1>1, <1>2 DEF IInv, TypeInv, Labels
  <1>7. ThreadInv'
    BY <1>1, <1>3, <1>5 DEF IInv, ThreadInv
  <1>8. LockInv'
    <2>1. \A u \in Threads : ~(buf[u] = buf[t] /\ Owner(u))
      BY Zenon, <1>2, NoneAssumption DEF IInv, LockInv
    <2>2. ASSUME NEW u \in Threads, NEW c \in Bufs
          PROVE  locked'[c] = u <=> buf[u] = c /\ Owner(u)'
      BY <1>2, <1>4, <1>5, <2>1 DEF IInv, LockInv
    <2>. QED BY <1>1, <2>2 DEF LockInv
  <1>9. RefInv'
    BY Zenon, <1>1, SameRefs
  <1>10. BlockInv' /\ CleanInv'
    BY <1>1 DEF IInv, BlockInv, CleanInv
  <1>11. ReqInv'
    <2>1. \A u \in Threads : pc[u] = "rw" => pc'[u] = "rw"
      BY Zenon, <1>3
    <2>. QED BY <1>1, <2>1 DEF IInv, ReqInv
  <1>. QED BY Zenon, <1>6, <1>7, <1>8, <1>9, <1>10, <1>11 DEF IInv

\* bwrite() enters the disk driver.
LEMMA WriteStep ==
  ASSUME IInv, NEW t \in Threads, pc[t] = "have",
         pc' = [pc EXCEPT ![t] = "rw"], UNCHANGED <<rawvars, buf, bvars>>
  PROVE  IInv'
  <1>1. /\ store' = store /\ bdata' = bdata /\ req' = req /\ buf' = buf
        /\ block' = block /\ valid' = valid /\ refcnt' = refcnt
        /\ locked' = locked /\ pin' = pin /\ owes' = owes
    BY Zenon DEF rawvars, bvars
  <1>2. pc'[t] = "rw" /\ \A u \in Threads \ {t} : pc'[u] = pc[u]
    BY Zenon DEF IInv, TypeInv
  <1>3. \A u \in Threads : Owner(u)' <=> Owner(u)
    BY Zenon, <1>2 DEF Owner
  <1>4. TypeInv'
    BY Zenon, <1>1 DEF IInv, TypeInv, Labels
  <1>5. ThreadInv'
    BY Zenon, <1>1, <1>2, <1>3 DEF IInv, ThreadInv
  <1>6. LockInv'
    BY Zenon, <1>1, <1>3 DEF IInv, LockInv
  <1>7. RefInv'
    BY Zenon, <1>1, SameRefs
  <1>8. BlockInv' /\ CleanInv'
    BY <1>1 DEF IInv, BlockInv, CleanInv
  <1>9. ReqInv'
    <2>1. \A u \in Threads : pc[u] = "rw" => pc'[u] = "rw"
      BY Zenon, <1>2
    <2>. QED BY <1>1, <2>1 DEF IInv, ReqInv
  <1>. QED BY Zenon, <1>4, <1>5, <1>6, <1>7, <1>8, <1>9 DEF IInv

\* virtio_disk_rw() starts.
LEMMA CallStep ==
  ASSUME IInv, NEW t \in Threads, pc[t] = "rw",
         Call(buf[t], block[buf[t]], valid[buf[t]], bdata[buf[t]]),
         UNCHANGED <<pc, buf, bvars>>
  PROVE  IInv'
  <1>1. /\ pc' = pc /\ buf' = buf
        /\ block' = block /\ valid' = valid /\ refcnt' = refcnt
        /\ locked' = locked /\ pin' = pin /\ owes' = owes
    BY Zenon DEF bvars
  <1>2. buf[t] \in Bufs /\ block[buf[t]] \in Blocks
    BY Zenon, OneOwner DEF Owner
  <1>3. store' = store /\ bdata' = bdata
    BY Zenon, <1>2 DEF Call, IInv, TypeInv
  <1>4. /\ req'[buf[t]] = [block |-> block[buf[t]], write |-> valid[buf[t]], done |-> FALSE]
        /\ \A c \in Bufs \ {buf[t]} : req'[c] = req[c]
    BY Zenon, <1>2 DEF Call, IInv, TypeInv
  <1>5. TypeInv'
    <2>1. [block |-> block[buf[t]], write |-> valid[buf[t]], done |-> FALSE] \in Requests
      BY Zenon, <1>2 DEF IInv, TypeInv, Requests
    <2>2. req' \in [Bufs -> Requests \cup {None}]
      BY Zenon, <1>2, <2>1 DEF Call, IInv, TypeInv
    <2>. QED BY Zenon, <1>1, <1>3, <2>2 DEF IInv, TypeInv
  <1>6. ThreadInv' /\ LockInv'
    BY <1>1 DEF IInv, ThreadInv, LockInv, Owner
  <1>7. RefInv'
    BY Zenon, <1>1, SameRefs
  <1>8. BlockInv' /\ CleanInv'
    BY <1>1, <1>3 DEF IInv, BlockInv, CleanInv
  <1>9. ReqInv'
    BY <1>1, <1>2, <1>3, <1>4 DEF IInv, ReqInv
  <1>. QED BY Zenon, <1>5, <1>6, <1>7, <1>8, <1>9 DEF IInv

\* The device transfers the block of the request, one way or the other.
LEMMA TransferStep ==
  ASSUME IInv, NEW t \in Threads, pc[t] = "rw", Transfer(buf[t]),
         UNCHANGED <<pc, buf, bvars>>
  PROVE  IInv'
  <1> DEFINE b == buf[t]
             k == block[b]
  <1>1. /\ pc' = pc /\ buf' = buf
        /\ block' = block /\ valid' = valid /\ refcnt' = refcnt
        /\ locked' = locked /\ pin' = pin /\ owes' = owes
    BY Zenon DEF bvars
  <1>2. b \in Bufs /\ k \in Blocks
    BY Zenon, OneOwner DEF Owner
  <1>3. \A c \in Bufs : block[c] = k => c = b
    BY Zenon, <1>2, NoneAssumption DEF IInv, BlockInv
  <1>4. req[b] # None /\ req[b].block = k /\ req[b].write = valid[b]
    BY Zenon, <1>2 DEF Transfer, IInv, ReqInv
  <1>5. req[b] \in Requests /\ \A c \in Bufs \ {b} : req'[c] = req[c]
    BY Zenon, <1>2, <1>4 DEF Transfer, IInv, TypeInv
  <1>6. /\ req'[b].block = k /\ req'[b].write = valid[b] /\ req'[b].done
        /\ req'[b] \in Requests
    BY Zenon, <1>2, <1>4, <1>5 DEF Transfer, IInv, TypeInv, Requests
  <1>7. /\ store'[k] = bdata'[b]
        /\ \A c \in Bufs \ {b} : bdata'[c] = bdata[c]
        /\ \A j \in Blocks \ {k} : store'[j] = store[j]
        /\ store' \in [Blocks -> Data] /\ bdata' \in [Bufs -> Data]
    BY <1>2, <1>4 DEF Transfer, IInv, TypeInv
  <1>8. TypeInv'
    <2>1. req' \in [Bufs -> Requests \cup {None}]
      BY Zenon, <1>2, <1>6 DEF Transfer, IInv, TypeInv
    <2>. QED BY Zenon, <1>1, <1>7, <2>1 DEF IInv, TypeInv
  <1>9. ThreadInv' /\ LockInv'
    BY <1>1 DEF IInv, ThreadInv, LockInv, Owner
  <1>10. RefInv' /\ BlockInv'
    BY Zenon, <1>1, SameRefs DEF IInv, BlockInv
  <1>11. ASSUME NEW c \in Bufs, c # b, block[c] # None
         PROVE  bdata'[c] = bdata[c] /\ store'[block[c]] = store[block[c]]
    <2>1. block[c] \in Blocks \ {k}
      BY Zenon, <1>3, <1>11 DEF IInv, TypeInv
    <2>. QED BY Zenon, <1>7, <1>11, <2>1
  <1>12. ReqInv'
    <2>1. ASSUME NEW c \in Bufs, c # b, req[c] # None
          PROVE  block[c] # None
      BY <2>1 DEF IInv, ReqInv, ThreadInv
    <2>2. ASSUME NEW c \in Bufs, c # b, req[c] # None, req[c].done
          PROVE  bdata'[c] = store'[block[c]]
      BY <1>11, <2>1, <2>2 DEF IInv, ReqInv
    <2>3. ASSUME NEW c \in Bufs, req'[c] # None
          PROVE  \E u \in Threads : buf[u] = c /\ pc[u] = "rw"
      BY Zenon, <1>5, <2>3 DEF IInv, ReqInv
    <2>4. ASSUME NEW c \in Bufs, req'[c] # None
          PROVE  /\ req'[c].block = block[c] /\ req'[c].write = valid[c]
                 /\ req'[c].done => bdata'[c] = store'[block[c]]
      <3>1. CASE c = b
        BY Zenon, <1>6, <1>7, <3>1
      <3>2. CASE c # b
        BY Zenon, <1>5, <2>2, <2>4, <3>2 DEF IInv, ReqInv
      <3>. QED BY Zenon, <3>1, <3>2
    <2>. QED BY <1>1, <2>3, <2>4 DEF ReqInv
  <1>13. CleanInv'
    <2>1. ASSUME NEW c \in Bufs, valid[c], ~pin[c], bdata'[c] # store'[block[c]]
          PROVE  \E u \in Threads : buf[u] = c /\ owes[u] = "changed"
      BY <1>7, <1>11, <2>1 DEF IInv, BlockInv, CleanInv
    <2>2. ASSUME NEW u \in Threads, owes[u] = "written"
          PROVE  bdata'[buf[u]] = store'[block[buf[u]]]
      <3>1. buf[u] \in Bufs /\ block[buf[u]] # None
        BY Zenon, <2>2 DEF IInv, TypeInv, ThreadInv, Owner
      <3>. QED BY Zenon, <1>7, <1>11, <2>2, <3>1 DEF IInv, CleanInv
    <2>. QED BY <1>1, <2>1, <2>2 DEF CleanInv
  <1>. QED BY Zenon, <1>8, <1>9, <1>10, <1>12, <1>13 DEF IInv

\* virtio_disk_rw() returns: bread() has the block, bwrite() has written it.
LEMMA ReturnStep ==
  ASSUME IInv, NEW t \in Threads, pc[t] = "rw", Return(buf[t]),
         valid' = [valid EXCEPT ![buf[t]] = TRUE],
         owes' = [owes EXCEPT ![t] = IF valid[buf[t]] THEN "written" ELSE @],
         pc' = [pc EXCEPT ![t] = "have"],
         UNCHANGED <<buf, block, refcnt, locked, pin>>
  PROVE  IInv'
  <1> DEFINE b == buf[t]
  <1>1. /\ store' = store /\ bdata' = bdata /\ buf' = buf /\ block' = block
        /\ refcnt' = refcnt /\ locked' = locked /\ pin' = pin
    BY Zenon DEF Return
  <1>2. /\ b \in Bufs /\ block[b] \in Blocks
        /\ \A u \in Threads : Owner(u) /\ buf[u] = b => u = t
    BY Zenon, OneOwner DEF Owner
  <1>3. bdata[b] = store[block[b]]
    BY Zenon, <1>2 DEF Return, IInv, ReqInv
  <1>4. /\ req'[b] = None
        /\ \A c \in Bufs \ {b} : req'[c] = req[c] /\ valid'[c] = valid[c]
        /\ valid'[b]
    BY Zenon, <1>2 DEF Return, IInv, TypeInv
  <1>5. /\ pc'[t] = "have" /\ owes'[t] \in {owes[t], "written"}
        /\ \A u \in Threads \ {t} : pc'[u] = pc[u] /\ owes'[u] = owes[u]
    BY Zenon DEF IInv, TypeInv
  <1>6. \A u \in Threads : Owner(u)' <=> Owner(u)
    BY Zenon, <1>5 DEF Owner
  <1>7. TypeInv'
    <2>1. req' \in [Bufs -> Requests \cup {None}]
      BY Zenon DEF Return, IInv, TypeInv
    <2>. QED BY Zenon, <1>1, <2>1 DEF IInv, TypeInv, Labels
  <1>8. \A c \in Bufs : valid[c] => valid'[c]
    BY Zenon, <1>4
  <1>9. ThreadInv'
    <2>1. ASSUME NEW u \in Threads, pc[u] # "idle" PROVE buf[u] \in Bufs
      BY <2>1 DEF IInv, TypeInv, ThreadInv
    <2>2. ASSUME NEW u \in Threads
          PROVE  /\ pc'[u] = "idle" <=> buf[u] = None
                 /\ pc'[u] # "idle" => block[buf[u]] # None
      BY <1>5 DEF IInv, ThreadInv
    <2>3. ASSUME NEW u \in Threads, pc'[u] = "have" PROVE valid'[buf[u]]
      BY <1>4, <1>5, <1>8, <2>1, <2>3 DEF IInv, ThreadInv
    <2>4. ASSUME NEW u \in Threads, owes'[u] # "nothing" PROVE Owner(u) /\ valid'[buf[u]]
      BY <1>4, <1>5, <1>8, <2>1, <2>4 DEF IInv, ThreadInv, Owner
    <2>. QED BY Zenon, <1>1, <1>6, <2>2, <2>3, <2>4 DEF ThreadInv
  <1>10. LockInv'
    BY <1>1, <1>6 DEF IInv, LockInv
  <1>11. RefInv'
    BY Zenon, <1>1, SameRefs
  <1>12. BlockInv'
    BY <1>1, <1>2, <1>4, <1>8, NoneAssumption DEF IInv, BlockInv
  <1>13. ReqInv'
    <2>1. ASSUME NEW c \in Bufs, req'[c] # None
          PROVE  c # b /\ req'[c] = req[c] /\ req[c] # None /\ valid'[c] = valid[c]
      BY Zenon, <1>4, <2>1
    <2>2. ASSUME NEW c \in Bufs, req'[c] # None
          PROVE  \E u \in Threads : buf'[u] = c /\ pc'[u] = "rw"
      <3>1. PICK u \in Threads : buf[u] = c /\ pc[u] = "rw"
        BY Zenon, <2>1, <2>2 DEF IInv, ReqInv
      <3>. QED BY Zenon, <1>1, <1>5, <2>1, <2>2, <3>1
    <2>3. ASSUME NEW c \in Bufs, req'[c] # None
          PROVE  /\ req'[c].block = block'[c] /\ req'[c].write = valid'[c]
                 /\ req'[c].done => bdata'[c] = store'[block'[c]]
      <3>1. /\ req[c].block = block[c] /\ req[c].write = valid[c]
            /\ req[c].done => bdata[c] = store[block[c]]
        BY <2>1, <2>3, Zenon DEF IInv, ReqInv
      <3>. QED BY Zenon, <1>1, <2>1, <2>3, <3>1
    <2>. QED BY <2>2, <2>3, Zenon DEF ReqInv
  <1>14. CleanInv'
    <2>1. ASSUME NEW c \in Bufs, valid'[c], ~pin[c], bdata[c] # store[block[c]]
          PROVE  \E u \in Threads : buf[u] = c /\ owes'[u] = "changed"
      <3>1. c # b
        BY Zenon, <1>3, <2>1
      <3>2. PICK u \in Threads : buf[u] = c /\ owes[u] = "changed"
        BY Zenon, <1>4, <2>1, <3>1 DEF IInv, CleanInv
      <3>. QED BY Zenon, <1>5, <3>1, <3>2
    <2>2. ASSUME NEW u \in Threads, owes'[u] = "written"
          PROVE  bdata[buf[u]] = store[block[buf[u]]]
      BY <1>3, <1>5, <2>2 DEF IInv, CleanInv
    <2>. QED BY <1>1, <2>1, <2>2 DEF CleanInv
  <1>. QED BY Zenon, <1>7, <1>9, <1>10, <1>11, <1>12, <1>13, <1>14 DEF IInv

\* The holder changes the data.
LEMMA ChangeStep ==
  ASSUME IInv, NEW t \in Threads, pc[t] = "have", NEW v \in Data,
         bdata' = [bdata EXCEPT ![buf[t]] = v],
         owes' = [owes EXCEPT ![t] = "changed"],
         UNCHANGED <<store, req, pc, buf, block, valid, refcnt, locked, pin>>
  PROVE  IInv'
  <1> DEFINE b == buf[t]
  <1>1. /\ b \in Bufs
        /\ \A u \in Threads : Owner(u) /\ buf[u] = b => u = t
    BY Zenon, OneOwner DEF Owner
  <1>2. req[b] = None
    BY Zenon, <1>1 DEF IInv, ReqInv, Owner
  <1>3. \A c \in Bufs \ {b} : bdata'[c] = bdata[c]
    BY Zenon DEF IInv, TypeInv
  <1>4. owes'[t] = "changed" /\ \A u \in Threads \ {t} : owes'[u] = owes[u]
    BY Zenon DEF IInv, TypeInv
  <1>5. TypeInv'
    BY Zenon DEF IInv, TypeInv
  <1>6. ThreadInv'
    BY Zenon, <1>4 DEF IInv, ThreadInv, Owner
  <1>7. LockInv'
    BY DEF IInv, LockInv, Owner
  <1>8. RefInv' /\ BlockInv'
    BY Zenon, SameRefs DEF IInv, BlockInv
  <1>9. ReqInv'
    BY <1>2, <1>3 DEF IInv, ReqInv
  <1>10. CleanInv'
    <2>1. ASSUME NEW c \in Bufs, valid[c], ~pin[c], bdata'[c] # store[block[c]]
          PROVE  \E u \in Threads : buf[u] = c /\ owes'[u] = "changed"
      <3>1. CASE c = b
        BY Zenon, <1>4, <3>1
      <3>2. CASE c # b
        <4>1. PICK u \in Threads : buf[u] = c /\ owes[u] = "changed"
          BY Zenon, <1>3, <2>1, <3>2 DEF IInv, CleanInv
        <4>. QED BY Zenon, <1>4, <3>2, <4>1
      <3>. QED BY Zenon, <3>1, <3>2
    <2>2. ASSUME NEW u \in Threads, owes'[u] = "written"
          PROVE  bdata'[buf[u]] = store[block[buf[u]]]
      <3>1. u # t /\ owes[u] = "written"
        BY Zenon, <1>4, <2>2
      <3>2. buf[u] \in Bufs \ {b}
        BY Zenon, <1>1, <3>1 DEF IInv, TypeInv, ThreadInv, Owner
      <3>. QED BY Zenon, <1>3, <3>1, <3>2 DEF IInv, CleanInv
    <2>. QED BY <2>1, <2>2 DEF CleanInv
  <1>. QED BY Zenon, <1>5, <1>6, <1>7, <1>8, <1>9, <1>10 DEF IInv

\* The count of a buffer follows its pin.
LEMMA PinRefs ==
  ASSUME IInv, NEW b \in Bufs, NEW p \in BOOLEAN, pin' = [pin EXCEPT ![b] = p],
         refcnt'[b] = refcnt[b] + (IF p THEN 1 ELSE 0) - (IF pin[b] THEN 1 ELSE 0),
         \A c \in Bufs \ {b} : refcnt'[c] = refcnt[c],
         buf' = buf
  PROVE  RefInv'
  <1>1. \A c \in Bufs : Users(c)' = Users(c)
    BY Zenon DEF Users
  <1>2. pin'[b] = p /\ \A c \in Bufs \ {b} : pin'[c] = pin[c]
    BY Zenon DEF IInv, TypeInv
  <1>3. Cardinality(Users(b)) \in Nat
    BY Zenon, ThreadsAssumption, FS_Subset, FS_CardinalityType DEF Users
  <1>4. refcnt[b] = Cardinality(Users(b)) + (IF pin[b] THEN 1 ELSE 0)
    BY Zenon DEF IInv, RefInv
  <1>5. refcnt'[b] = Cardinality(Users(b)) + (IF p THEN 1 ELSE 0)
    BY <1>3, <1>4
  <1>6. ASSUME NEW c \in Bufs
        PROVE  refcnt'[c] = Cardinality(Users(c)') + (IF pin'[c] THEN 1 ELSE 0)
    <2>1. CASE c = b
      BY Zenon, <1>1, <1>2, <1>5, <2>1
    <2>2. CASE c # b
      BY Zenon, <1>1, <1>2, <2>2 DEF IInv, RefInv
    <2>. QED BY Zenon, <2>1, <2>2
  <1>. QED BY <1>6, Zenon DEF RefInv

\* log_write() makes the buffer the log's.
LEMMA PinStep ==
  ASSUME IInv, NEW t \in Threads, pc[t] = "have", owes[t] = "changed",
         IF pin[buf[t]] THEN UNCHANGED refcnt
                        ELSE refcnt' = [refcnt EXCEPT ![buf[t]] = @ + 1],
         pin' = [pin EXCEPT ![buf[t]] = TRUE],
         owes' = [owes EXCEPT ![t] = "nothing"],
         UNCHANGED <<rawvars, pc, buf, block, valid, locked>>
  PROVE  IInv'
  <1> DEFINE b == buf[t]
  <1>1. /\ store' = store /\ bdata' = bdata /\ req' = req /\ pc' = pc
        /\ buf' = buf /\ block' = block /\ valid' = valid /\ locked' = locked
    BY Zenon DEF rawvars
  <1>2. b \in Bufs
    BY Zenon, OneOwner DEF Owner
  <1>3. pin'[b] /\ \A c \in Bufs \ {b} : pin'[c] = pin[c]
    BY Zenon, <1>2 DEF IInv, TypeInv
  <1>4. owes'[t] = "nothing" /\ \A u \in Threads \ {t} : owes'[u] = owes[u]
    BY Zenon DEF IInv, TypeInv
  <1>5. refcnt' \in [Bufs -> Int] /\ \A c \in Bufs \ {b} : refcnt'[c] = refcnt[c]
    BY <1>2 DEF IInv, TypeInv
  <1>6. refcnt'[b] = refcnt[b] + 1 - (IF pin[b] THEN 1 ELSE 0)
    BY <1>2 DEF IInv, TypeInv
  <1>7. TypeInv'
    BY Zenon, <1>1, <1>5 DEF IInv, TypeInv
  <1>8. ThreadInv'
    BY <1>1, <1>4 DEF IInv, ThreadInv, Owner
  <1>9. LockInv' /\ ReqInv'
    BY <1>1 DEF IInv, LockInv, ReqInv, Owner
  <1>10. RefInv'
    BY Zenon, <1>1, <1>2, <1>5, <1>6, PinRefs
  <1>11. BlockInv'
    BY <1>1, <1>2, <1>3 DEF IInv, BlockInv, ThreadInv
  <1>12. CleanInv'
    <2>1. ASSUME NEW c \in Bufs, valid[c], ~pin'[c], bdata[c] # store[block[c]]
          PROVE  \E u \in Threads : buf[u] = c /\ owes'[u] = "changed"
      <3>1. c # b /\ ~pin[c]
        BY Zenon, <1>3, <2>1
      <3>2. PICK u \in Threads : buf[u] = c /\ owes[u] = "changed"
        BY Zenon, <2>1, <3>1 DEF IInv, CleanInv
      <3>. QED BY Zenon, <1>4, <3>1, <3>2
    <2>2. ASSUME NEW u \in Threads, owes'[u] = "written"
          PROVE  bdata[buf[u]] = store[block[buf[u]]]
      BY Zenon, <1>4, <2>2 DEF IInv, CleanInv
    <2>. QED BY <1>1, <2>1, <2>2 DEF CleanInv
  <1>. QED BY Zenon, <1>7, <1>8, <1>9, <1>10, <1>11, <1>12 DEF IInv

\* install_trans() unpins a buffer that it has just written.
LEMMA UnpinStep ==
  ASSUME IInv, NEW t \in Threads, pc[t] = "have", owes[t] = "written", pin[buf[t]],
         refcnt' = [refcnt EXCEPT ![buf[t]] = @ - 1],
         pin' = [pin EXCEPT ![buf[t]] = FALSE],
         UNCHANGED <<rawvars, pc, buf, block, valid, locked, owes>>
  PROVE  IInv'
  <1> DEFINE b == buf[t]
  <1>1. /\ store' = store /\ bdata' = bdata /\ req' = req /\ pc' = pc /\ owes' = owes
        /\ buf' = buf /\ block' = block /\ valid' = valid /\ locked' = locked
    BY Zenon DEF rawvars
  <1>2. b \in Bufs /\ bdata[b] = store[block[b]]
    BY Zenon, OneOwner DEF Owner, IInv, CleanInv
  <1>3. ~pin'[b] /\ \A c \in Bufs \ {b} : pin'[c] = pin[c]
    BY Zenon, <1>2 DEF IInv, TypeInv
  <1>4. /\ refcnt'[b] = refcnt[b] + 0 - 1
        /\ \A c \in Bufs \ {b} : refcnt'[c] = refcnt[c]
    BY <1>2 DEF IInv, TypeInv
  <1>5. TypeInv'
    BY <1>1, <1>2 DEF IInv, TypeInv
  <1>6. ThreadInv' /\ LockInv' /\ ReqInv'
    BY <1>1 DEF IInv, ThreadInv, LockInv, ReqInv, Owner
  <1>7. RefInv'
    BY Zenon, <1>1, <1>2, <1>4, PinRefs
  <1>8. BlockInv'
    BY <1>1, <1>3 DEF IInv, BlockInv
  <1>9. CleanInv'
    BY <1>1, <1>2, <1>3 DEF IInv, CleanInv
  <1>. QED BY Zenon, <1>5, <1>6, <1>7, <1>8, <1>9 DEF IInv

\* releasesleep() gives up a buffer that nothing more is to be done to.
LEMMA GiveStep ==
  ASSUME IInv, NEW t \in Threads, pc[t] = "have", owes[t] # "changed",
         locked' = [locked EXCEPT ![buf[t]] = None],
         pc' = [u \in Threads |-> IF u = t THEN "release"
                                  ELSE IF pc[u] = "locksleep" /\ buf[u] = buf[t]
                                  THEN "lockwoken" ELSE pc[u]],
         owes' = [owes EXCEPT ![t] = "nothing"],
         UNCHANGED <<rawvars, buf, block, valid, refcnt, pin>>
  PROVE  IInv'
  <1> DEFINE b == buf[t]
  <1>1. /\ store' = store /\ bdata' = bdata /\ req' = req /\ buf' = buf
        /\ block' = block /\ valid' = valid /\ refcnt' = refcnt /\ pin' = pin
    BY Zenon DEF rawvars
  <1>2. /\ b \in Bufs /\ locked[b] = t
        /\ \A u \in Threads : Owner(u) /\ buf[u] = b => u = t
    BY Zenon, OneOwner DEF Owner
  <1>3. /\ pc'[t] = "release"
        /\ \A u \in Threads \ {t} : \/ pc'[u] = pc[u]
                                    \/ pc'[u] = "lockwoken" /\ pc[u] = "locksleep"
    OBVIOUS
  <1>4. owes'[t] = "nothing" /\ \A u \in Threads \ {t} : owes'[u] = owes[u]
    BY Zenon DEF IInv, TypeInv
  <1>5. locked'[b] = None /\ \A c \in Bufs \ {b} : locked'[c] = locked[c]
    BY Zenon, <1>2 DEF IInv, TypeInv
  <1>6. ~Owner(t)' /\ \A u \in Threads \ {t} : Owner(u)' <=> Owner(u)
    BY Zenon, <1>3 DEF Owner
  <1>7. TypeInv'
    BY Zenon, <1>1, <1>2 DEF IInv, TypeInv, Labels
  <1>8. ThreadInv'
    <2>1. ASSUME NEW u \in Threads
          PROVE  /\ pc'[u] = "idle" <=> pc[u] = "idle"
                 /\ pc'[u] = "have" => pc[u] = "have"
      BY Zenon, <1>3
    <2>2. ASSUME NEW u \in Threads, owes'[u] # "nothing"
          PROVE  Owner(u)' /\ valid[buf[u]]
      BY Zenon, <1>4, <1>6, <2>2 DEF IInv, ThreadInv
    <2>. QED BY Zenon, <1>1, <2>1, <2>2 DEF IInv, ThreadInv
  <1>9. LockInv'
    <2>1. ASSUME NEW u \in Threads, NEW c \in Bufs
          PROVE  locked'[c] = u <=> buf[u] = c /\ Owner(u)'
      BY <1>2, <1>5, <1>6, NoneAssumption DEF IInv, LockInv
    <2>. QED BY <1>1, <2>1 DEF LockInv
  <1>10. RefInv' /\ BlockInv'
    BY Zenon, <1>1, SameRefs DEF IInv, BlockInv
  <1>11. ReqInv'
    <2>1. \A u \in Threads : pc[u] = "rw" => pc'[u] = "rw"
      BY Zenon, <1>3
    <2>. QED BY <1>1, <2>1 DEF IInv, ReqInv
  <1>12. CleanInv'
    <2>1. ASSUME NEW c \in Bufs, valid[c], ~pin[c], bdata[c] # store[block[c]]
          PROVE  \E u \in Threads : buf[u] = c /\ owes'[u] = "changed"
      <3>1. PICK u \in Threads : buf[u] = c /\ owes[u] = "changed"
        BY Zenon, <2>1 DEF IInv, CleanInv
      <3>. QED BY Zenon, <1>4, <3>1
    <2>2. ASSUME NEW u \in Threads, owes'[u] = "written"
          PROVE  bdata[buf[u]] = store[block[buf[u]]]
      BY Zenon, <1>4, <2>2 DEF IInv, CleanInv
    <2>. QED BY <1>1, <2>1, <2>2 DEF CleanInv
  <1>. QED BY Zenon, <1>7, <1>8, <1>9, <1>10, <1>11, <1>12 DEF IInv

\* brelse() drops the reference.
LEMMA DropStep ==
  ASSUME IInv, NEW t \in Threads, pc[t] = "release", NEW b \in Bufs, buf[t] = b,
         refcnt' = [refcnt EXCEPT ![b] = @ - 1],
         buf' = [buf EXCEPT ![t] = None], pc' = [pc EXCEPT ![t] = "idle"],
         UNCHANGED <<rawvars, block, valid, locked, pin, owes>>
  PROVE  IInv'
  <1>1. /\ store' = store /\ bdata' = bdata /\ req' = req /\ block' = block
        /\ valid' = valid /\ locked' = locked /\ pin' = pin /\ owes' = owes
    BY Zenon DEF rawvars
  <1>2. owes[t] = "nothing"
    BY Zenon DEF IInv, ThreadInv, Owner
  <1>3. /\ buf'[t] = None /\ pc'[t] = "idle"
        /\ \A u \in Threads \ {t} : buf'[u] = buf[u] /\ pc'[u] = pc[u]
    BY Zenon DEF IInv, TypeInv
  <1>4. TypeInv'
    BY <1>1 DEF IInv, TypeInv, Labels
  <1>5. ThreadInv'
    BY <1>1, <1>2, <1>3 DEF IInv, ThreadInv, Owner
  <1>6. LockInv'
    <2>1. \A u \in Threads, c \in Bufs :
             (buf'[u] = c /\ Owner(u)') <=> (buf[u] = c /\ Owner(u))
      BY Zenon, <1>3, NoneAssumption DEF Owner
    <2>. QED BY <1>1, <2>1 DEF IInv, LockInv
  <1>7. RefInv'
    <2>1. Users(b)' = Users(b) \ {t} /\ t \in Users(b)
      BY Zenon, <1>3, NoneAssumption DEF Users
    <2>2. \A c \in Bufs \ {b} : Users(c)' = Users(c)
      BY Zenon, <1>3, NoneAssumption DEF Users
    <2>3. IsFiniteSet(Users(b))
      BY Zenon, ThreadsAssumption, FS_Subset DEF Users
    <2>4. Cardinality(Users(b)) \in Nat
      BY Zenon, <2>3, FS_CardinalityType
    <2>5. Cardinality(Users(b)') = Cardinality(Users(b)) - 1
      BY Zenon, <2>1, <2>3, FS_RemoveElement
    <2>6. refcnt'[b] = refcnt[b] - 1 /\ \A c \in Bufs \ {b} : refcnt'[c] = refcnt[c]
      BY Zenon DEF IInv, TypeInv
    <2>7. refcnt[b] = Cardinality(Users(b)) + (IF pin[b] THEN 1 ELSE 0)
      BY Zenon DEF IInv, RefInv
    <2>8. ASSUME NEW c \in Bufs
          PROVE  refcnt'[c] = Cardinality(Users(c)') + (IF pin[c] THEN 1 ELSE 0)
      <3>1. CASE c = b
        BY <2>4, <2>5, <2>6, <2>7, <3>1
      <3>2. CASE c # b
        BY Zenon, <2>2, <2>6, <3>2 DEF IInv, RefInv
      <3>. QED BY Zenon, <3>1, <3>2
    <2>. QED BY Zenon, <1>1, <2>8 DEF RefInv
  <1>8. BlockInv'
    BY Zenon, <1>1 DEF IInv, BlockInv
  <1>9. ReqInv'
    <2>1. ASSUME NEW c \in Bufs, req[c] # None
          PROVE  \E u \in Threads : buf'[u] = c /\ pc'[u] = "rw"
      <3>1. PICK u \in Threads : buf[u] = c /\ pc[u] = "rw"
        BY Zenon, <2>1 DEF IInv, ReqInv
      <3>. QED BY Zenon, <1>3, <3>1
    <2>. QED BY <1>1, <2>1 DEF IInv, ReqInv
  <1>10. CleanInv'
    <2>1. ASSUME NEW u \in Threads, owes[u] # "nothing" PROVE buf'[u] = buf[u]
      BY Zenon, <1>2, <1>3, <2>1
    <2>. QED BY <1>1, <2>1 DEF IInv, CleanInv
  <1>. QED BY Zenon, <1>4, <1>5, <1>6, <1>7, <1>8, <1>9, <1>10 DEF IInv

\* Every step of a thread keeps the invariant.
LEMMA Step == IInv /\ [Next]_vars => IInv'
  <1> SUFFICES ASSUME IInv, [Next]_vars PROVE IInv'
    OBVIOUS
  <1>1. ASSUME NEW t \in Threads, bget(t) PROVE IInv'
    <2>1. pc[t] = "idle" /\ pc' = [pc EXCEPT ![t] = "lock"]
      BY Zenon, <1>1 DEF bget, At, Goto
    <2>2. UNCHANGED <<rawvars, locked, lru, pin, owes, panicked>>
      BY Zenon, <1>1 DEF bget
    <2>3. PICK k \in Blocks :
             \/ \E b \in Cached(k) :
                   /\ refcnt' = [refcnt EXCEPT ![b] = @ + 1]
                   /\ buf' = [buf EXCEPT ![t] = b]
                   /\ UNCHANGED <<block, valid>>
             \/ /\ Cached(k) = {}
                /\ \E b \in Bufs :
                      /\ LeastRecent(b)
                      /\ block' = [block EXCEPT ![b] = k]
                      /\ valid' = [valid EXCEPT ![b] = FALSE]
                      /\ refcnt' = [refcnt EXCEPT ![b] = 1]
                      /\ buf' = [buf EXCEPT ![t] = b]
      BY <1>1, Zenon DEF bget
    <2>4. ASSUME NEW b \in Cached(k), refcnt' = [refcnt EXCEPT ![b] = @ + 1],
                 buf' = [buf EXCEPT ![t] = b], UNCHANGED <<block, valid>>
          PROVE  IInv'
      <3>1. b \in Bufs /\ block[b] # None
        BY Zenon, NoneAssumption DEF Cached
      <3>. QED BY Zenon, <2>1, <2>2, <2>4, <3>1, HitStep
    <2>5. ASSUME Cached(k) = {}, NEW b \in Bufs, LeastRecent(b),
                 block' = [block EXCEPT ![b] = k], valid' = [valid EXCEPT ![b] = FALSE],
                 refcnt' = [refcnt EXCEPT ![b] = 1], buf' = [buf EXCEPT ![t] = b]
          PROVE  IInv'
      <3>1. refcnt[b] = 0
        BY Zenon, <2>5 DEF LeastRecent, Unused
      <3>. QED BY Zenon, <2>1, <2>2, <2>5, <3>1, MissStep
    <2>. QED BY <2>3, <2>4, <2>5, Zenon
  <1>2. ASSUME NEW t \in Threads, acquiresleep(t) PROVE IInv'
    <2>1. UNCHANGED <<rawvars, buf, block, valid, refcnt, lru, pin, owes, panicked>>
      BY Zenon, <1>2 DEF acquiresleep
    <2>2. pc[t] \in {"lock", "lockwoken"}
      BY Zenon, <1>2 DEF acquiresleep, At
    <2>3. CASE LockFree(t)
      BY Zenon, <1>2, <2>1, <2>2, <2>3, TakeStep DEF acquiresleep, LockFree, Goto
    <2>4. CASE ~LockFree(t)
      <3>1. pc' = [pc EXCEPT ![t] = "locksleep"] /\ UNCHANGED locked
        BY Zenon, <1>2, <2>4 DEF acquiresleep, Goto
      <3>. QED BY Zenon, <2>1, <2>2, <3>1, WaitStep DEF bvars
    <2>. QED BY Zenon, <2>3, <2>4
  <1>3. ASSUME NEW t \in Threads, Rw(t) PROVE IInv'
    <2>1. pc[t] = "rw" /\ UNCHANGED <<buf, block, refcnt, locked, lru, pin, panicked>>
      BY Zenon, <1>3 DEF Rw, At
    <2>2. CASE Call(buf[t], block[buf[t]], valid[buf[t]], bdata[buf[t]])
               /\ UNCHANGED <<pc, valid, owes>>
      BY Zenon, <2>1, <2>2, CallStep DEF bvars
    <2>3. CASE Transfer(buf[t]) /\ UNCHANGED <<pc, valid, owes>>
      BY Zenon, <2>1, <2>3, TransferStep DEF bvars
    <2>4. CASE /\ Return(buf[t])
               /\ valid' = [valid EXCEPT ![buf[t]] = TRUE]
               /\ owes' = [owes EXCEPT ![t] = IF valid[buf[t]] THEN "written" ELSE @]
               /\ Goto(t, "have")
      BY Zenon, <2>1, <2>4, ReturnStep DEF Goto
    <2>. QED BY Zenon, <1>3, <2>2, <2>3, <2>4 DEF Rw
  <1>4. ASSUME NEW t \in Threads, change(t) PROVE IInv'
    BY Zenon, <1>4, ChangeStep DEF change, At
  <1>5. ASSUME NEW t \in Threads, bwrite(t) PROVE IInv'
    BY Zenon, <1>5, WriteStep DEF bwrite, At, Goto
  <1>6. ASSUME NEW t \in Threads, log_write(t) PROVE IInv'
    BY Zenon, <1>6, PinStep DEF log_write, bpin, At
  <1>7. ASSUME NEW t \in Threads, bunpin(t) PROVE IInv'
    BY Zenon, <1>7, UnpinStep DEF bunpin, At
  <1>8. ASSUME NEW t \in Threads, releasesleep(t) PROVE IInv'
    BY Zenon, <1>8, GiveStep DEF releasesleep, At
  <1>9. ASSUME NEW t \in Threads, brelse(t) PROVE IInv'
    <2>1. PICK b \in Bufs : buf[t] = b
      BY Zenon, <1>9 DEF brelse, At, IInv, TypeInv, ThreadInv
    <2>. QED BY Zenon, <1>9, <2>1, DropStep DEF brelse, At, Goto
  <1>10. ASSUME NEW t \in Threads, kill(t) PROVE IInv'
    BY Zenon, <1>10, WaitStep DEF kill, At, Goto
  <1>11. ASSUME UNCHANGED <<store, bdata, req, pc, buf, block, valid, refcnt, locked,
                            pin, owes>>
         PROVE  IInv'
    <2>1. \A b \in Bufs : Users(b)' = Users(b)
      BY Zenon, <1>11 DEF Users
    <2>2. TypeInv' /\ ThreadInv' /\ LockInv'
      BY <1>11 DEF IInv, TypeInv, ThreadInv, LockInv, Owner
    <2>3. RefInv' /\ BlockInv'
      BY Zenon, <1>11, <2>1 DEF IInv, RefInv, BlockInv
    <2>4. ReqInv' /\ CleanInv'
      <3>1. ReqInv'
        BY <1>11 DEF IInv, ReqInv
      <3>2. CleanInv'
        BY <1>11 DEF IInv, CleanInv
      <3>. QED BY <3>1, <3>2
    <2>. QED BY Zenon, <2>2, <2>3, <2>4 DEF IInv
  <1>12. ASSUME NEW t \in Threads, bget_panic(t) PROVE IInv'
    BY Zenon, <1>11, <1>12 DEF bget_panic, rawvars
  <1>13. CASE UNCHANGED vars
    BY Zenon, <1>11, <1>13 DEF vars, rawvars, bvars
  <1>. QED BY Zenon, <1>1, <1>2, <1>3, <1>4, <1>5, <1>6, <1>7, <1>8, <1>9, <1>10, <1>12, <1>13
           DEF Next

\* The inductive invariant holds throughout.
LEMMA Invariance == Spec => []IInv
  BY Initial, Step, PTL DEF Spec

\* bget(), brelse(), bpin() and bunpin() keep b->refcnt exact, so that nobody's
\* buffer is recycled, and no block is ever in two buffers.
THEOREM ReferencesExact == Spec => []RefsExact
  <1>1. IInv => RefsExact
    <2> SUFFICES ASSUME IInv, NEW b \in Bufs
                 PROVE  /\ refcnt[b] = Cardinality({t \in Threads : buf[t] = b})
                                         + (IF pin[b] THEN 1 ELSE 0)
                        /\ block[b] # None => Cached(block[b]) = {b}
                        /\ pin[b] => valid[b]
      BY Zenon DEF RefsExact
    <2>1. refcnt[b] = Cardinality(Users(b)) + (IF pin[b] THEN 1 ELSE 0)
      BY Zenon DEF IInv, RefInv
    <2>2. block[b] # None => Cached(block[b]) = {b}
      BY Zenon DEF IInv, BlockInv, Cached
    <2>. QED BY <2>1, <2>2, Zenon DEF Users, IInv, BlockInv
  <1>. QED BY <1>1, Invariance, PTL

-----------------------------------------------------------------------------

(* The cache implements the block store *)

NotIn(k) == \A b \in Bufs : ~(valid[b] /\ block[b] = k)

\* What the block store sees: the valid buffer of a block, or else the disk.
Mapped ==
    /\ content \in [Blocks -> Data] /\ holder \in [Blocks -> Threads \cup {None}]
    /\ \A b \in Bufs : valid[b] => /\ content[block[b]] = bdata[b]
                                   /\ holder[block[b]] = locked[b]
    /\ \A k \in Blocks : NotIn(k) => content[k] = store[k] /\ holder[k] = None

\* A block has one valid buffer at most, so the choices in content and holder are
\* no choices.
LEMMA Mapping == IInv => Mapped
  <1> SUFFICES ASSUME IInv PROVE Mapped
    OBVIOUS
  <1>1. ASSUME NEW b \in Bufs, valid[b]
        PROVE  block[b] \in Blocks /\ Valid(block[b]) = {b}
    BY <1>1 DEF IInv, TypeInv, BlockInv, Valid, Cached
  <1>2. ASSUME NEW b \in Bufs, valid[b]
        PROVE  content[block[b]] = bdata[b] /\ holder[block[b]] = locked[b]
    <2>1. /\ (CHOOSE c \in {b} : TRUE) = b
          /\ locked[b] # None => (CHOOSE c \in {b} : locked[c] # None) = b
      BY Zenon
    <2>2. content[block[b]] = bdata[CHOOSE c \in {b} : TRUE]
      BY Zenon, <1>1, <1>2 DEF content
    <2>3. CASE locked[b] # None
      BY Zenon, <1>1, <1>2, <2>1, <2>2, <2>3 DEF holder
    <2>4. CASE locked[b] = None
      BY Zenon, <1>1, <1>2, <2>1, <2>2, <2>4 DEF holder
    <2>. QED BY Zenon, <2>3, <2>4
  <1>3. ASSUME NEW k \in Blocks, NotIn(k)
        PROVE  content[k] = store[k] /\ holder[k] = None
    <2>1. Valid(k) = {}
      BY Zenon, <1>3 DEF NotIn, Valid, Cached
    <2>. QED BY Zenon, <2>1 DEF content, holder
  <1>4. ASSUME NEW k \in Blocks
        PROVE  content[k] \in Data /\ holder[k] \in Threads \cup {None}
    <2>1. CASE NotIn(k)
      BY Zenon, <1>3, <2>1 DEF IInv, TypeInv
    <2>2. CASE ~NotIn(k)
      <3>1. PICK b \in Bufs : valid[b] /\ block[b] = k
        BY Zenon, <2>2 DEF NotIn
      <3>. QED BY Zenon, <1>2, <3>1 DEF IInv, TypeInv
    <2>. QED BY Zenon, <2>1, <2>2
  <1>5. content \in [Blocks -> Data]
    <2>1. content = [k \in Blocks |-> content[k]]
      BY DEF content
    <2>. QED BY Zenon, <1>4, <2>1
  <1>6. holder \in [Blocks -> Threads \cup {None}]
    <2>1. holder = [k \in Blocks |-> holder[k]]
      BY Zenon DEF holder
    <2>. QED BY Zenon, <1>4, <2>1
  <1>. QED BY Zenon, <1>2, <1>3, <1>5, <1>6 DEF Mapped

\* A block whose buffer, or whose place on the disk, does not change.
Kept(k) ==
    \/ \E b \in Bufs : /\ valid[b] /\ valid'[b] /\ block[b] = k /\ block'[b] = k
                       /\ bdata'[b] = bdata[b] /\ locked'[b] = locked[b]
    \/ NotIn(k) /\ NotIn(k)' /\ store'[k] = store[k]

\* A kept block shows the block store the same contents and the same holder.
LEMMA KeptBlock ==
  ASSUME Mapped, Mapped', NEW k \in Blocks, Kept(k)
  PROVE  content'[k] = content[k] /\ holder'[k] = holder[k]
  <1>1. CASE NotIn(k) /\ NotIn(k)' /\ store'[k] = store[k]
    BY Zenon, <1>1 DEF Mapped
  <1>2. CASE \E b \in Bufs : /\ valid[b] /\ valid'[b] /\ block[b] = k /\ block'[b] = k
                             /\ bdata'[b] = bdata[b] /\ locked'[b] = locked[b]
    BY <1>2 DEF Mapped
  <1>. QED BY Zenon, <1>1, <1>2 DEF Kept

\* Nothing that the block store can see changes when every block is kept.
LEMMA KeptAll ==
  ASSUME Mapped, Mapped', \A k \in Blocks : Kept(k)
  PROVE  UNCHANGED <<content, holder>>
  <1>1. \A k \in Blocks : content'[k] = content[k] /\ holder'[k] = holder[k]
    BY Zenon, KeptBlock
  <1>. QED BY <1>1 DEF Mapped

\* A step that touches neither data, blocks nor sleep locks is invisible above.
LEMMA SameBlocks ==
  ASSUME Mapped, Mapped', UNCHANGED <<store, bdata, block, valid, locked>>
  PROVE  UNCHANGED <<content, holder>>
  <1>1. ASSUME NEW k \in Blocks PROVE Kept(k)
    BY Zenon DEF Kept, NotIn
  <1>. QED BY Zenon, <1>1, KeptAll

\* Recycling a buffer loses nothing: its block is on the disk.
LEMMA MissSame ==
  ASSUME IInv, Mapped, Mapped', NEW b \in Bufs, NEW k \in Blocks,
         Cached(k) = {}, refcnt[b] = 0,
         block' = [block EXCEPT ![b] = k], valid' = [valid EXCEPT ![b] = FALSE],
         UNCHANGED <<store, bdata, locked>>
  PROVE  UNCHANGED <<content, holder>>
  <1>1. ~pin[b] /\ \A u \in Threads : buf[u] # b
    BY Zenon, UnusedBuffer
  <1>2. locked[b] = None
    BY <1>1 DEF IInv, TypeInv, LockInv
  <1>3. /\ block'[b] = k /\ ~valid'[b]
        /\ \A c \in Bufs \ {b} : block'[c] = block[c] /\ valid'[c] = valid[c]
    BY Zenon DEF IInv, TypeInv
  <1>4. ASSUME NEW j \in Blocks, ~(valid[b] /\ block[b] = j)
        PROVE  content'[j] = content[j] /\ holder'[j] = holder[j]
    <2>1. CASE NotIn(j)
      <3>1. NotIn(j)'
        BY Zenon, <1>3, <2>1 DEF NotIn
      <3>. QED BY Zenon, <2>1, <3>1, KeptBlock DEF Kept
    <2>2. CASE ~NotIn(j)
      <3>1. PICK c \in Bufs : valid[c] /\ block[c] = j
        BY Zenon, <2>2 DEF NotIn
      <3>2. c # b
        BY Zenon, <1>4, <3>1
      <3>3. valid'[c] /\ block'[c] = j
        BY Zenon, <1>3, <3>1, <3>2
      <3>4. Kept(j)
        BY Zenon, <3>1, <3>3 DEF Kept
      <3>. QED BY Zenon, <3>4, KeptBlock
    <2>. QED BY Zenon, <2>1, <2>2
  <1>5. ASSUME NEW j \in Blocks, valid[b], block[b] = j
        PROVE  content'[j] = content[j] /\ holder'[j] = holder[j]
    <2>1. bdata[b] = store[j]
      BY Zenon, <1>1, <1>5 DEF IInv, CleanInv
    <2>2. content[j] = store[j] /\ holder[j] = None
      BY Zenon, <1>2, <1>5, <2>1 DEF Mapped
    <2>3. \A c \in Bufs \ {b} : block[c] # j
      BY Zenon, <1>5, NoneAssumption DEF IInv, BlockInv
    <2>4. NotIn(j)'
      BY Zenon, <1>3, <2>3 DEF NotIn
    <2>. QED BY Zenon, <2>2, <2>4 DEF Mapped
  <1>. QED BY <1>4, <1>5 DEF Mapped

\* A write brings the disk up to the buffer, a read fills a buffer that is not valid
\* yet: the block store sees neither.
LEMMA TransferSame ==
  ASSUME IInv, Mapped, Mapped', NEW t \in Threads, pc[t] = "rw", Transfer(buf[t]),
         UNCHANGED <<block, valid, locked>>
  PROVE  UNCHANGED <<content, holder>>
  <1> DEFINE b == buf[t]
             k == block[b]
  <1>1. b \in Bufs /\ k \in Blocks
    BY Zenon, OneOwner DEF Owner
  <1>2. \A c \in Bufs : block[c] = k => c = b
    BY Zenon, <1>1, NoneAssumption DEF IInv, BlockInv
  <1>3. req[b] # None /\ req[b].block = k /\ req[b].write = valid[b]
    BY Zenon, <1>1 DEF Transfer, IInv, ReqInv
  <1>4. CASE valid[b]
    <2>1. bdata' = bdata /\ \A j \in Blocks \ {k} : store'[j] = store[j]
      BY Zenon, <1>1, <1>3, <1>4 DEF Transfer, IInv, TypeInv
    <2>2. ASSUME NEW j \in Blocks PROVE Kept(j)
      <3>1. CASE NotIn(j)
        <4>1. j # k
          BY Zenon, <1>1, <1>4, <3>1 DEF NotIn
        <4>2. NotIn(j)'
          BY Zenon, <3>1 DEF NotIn
        <4>. QED BY Zenon, <2>1, <3>1, <4>1, <4>2 DEF Kept
      <3>2. CASE ~NotIn(j)
        BY Zenon, <2>1, <3>2 DEF NotIn, Kept
      <3>. QED BY Zenon, <3>1, <3>2
    <2>. QED BY Zenon, <2>2, KeptAll
  <1>5. CASE ~valid[b]
    <2>1. store' = store /\ \A c \in Bufs \ {b} : bdata'[c] = bdata[c]
      BY Zenon, <1>1, <1>3, <1>5 DEF Transfer, IInv, TypeInv
    <2>2. ASSUME NEW j \in Blocks PROVE Kept(j)
      <3>1. CASE NotIn(j)
        BY Zenon, <2>1, <3>1 DEF NotIn, Kept
      <3>2. CASE ~NotIn(j)
        <4>1. PICK c \in Bufs : valid[c] /\ block[c] = j
          BY Zenon, <3>2 DEF NotIn
        <4>2. bdata'[c] = bdata[c]
          BY Zenon, <1>5, <2>1, <4>1
        <4>. QED BY Zenon, <4>1, <4>2 DEF Kept
      <3>. QED BY Zenon, <3>1, <3>2
    <2>. QED BY Zenon, <2>2, KeptAll
  <1>. QED BY Zenon, <1>4, <1>5

\* acquiresleep() of a valid buffer takes the block.
LEMMA TakeMove ==
  ASSUME IInv, Mapped, Mapped', NEW t \in Threads, NEW b \in Bufs, locked[b] = None,
         locked' = [locked EXCEPT ![b] = t],
         UNCHANGED <<store, bdata, block, valid>>
  PROVE  /\ valid[b] => Store!Take(t, block[b]) /\ block[b] \in Blocks
         /\ ~valid[b] => UNCHANGED <<content, holder>>
  <1>1. locked'[b] = t /\ \A c \in Bufs \ {b} : locked'[c] = locked[c]
    BY Zenon DEF IInv, TypeInv
  <1>2. ASSUME NEW j \in Blocks, ~(valid[b] /\ block[b] = j) PROVE Kept(j)
    <2>1. CASE NotIn(j)
      BY Zenon, <2>1 DEF NotIn, Kept
    <2>2. CASE ~NotIn(j)
      <3>1. PICK c \in Bufs : valid[c] /\ block[c] = j
        BY Zenon, <2>2 DEF NotIn
      <3>2. locked'[c] = locked[c]
        BY Zenon, <1>1, <1>2, <3>1
      <3>. QED BY Zenon, <3>1, <3>2 DEF Kept
    <2>. QED BY Zenon, <2>1, <2>2
  <1>3. CASE valid[b]
    <2> DEFINE k == block[b]
    <2>1. k \in Blocks
      BY Zenon, <1>3 DEF IInv, TypeInv, BlockInv
    <2>2. /\ content[k] = bdata[b] /\ holder[k] = None
          /\ content'[k] = bdata[b] /\ holder'[k] = t
      BY Zenon, <1>1, <1>3 DEF Mapped
    <2>3. \A j \in Blocks \ {k} : content'[j] = content[j] /\ holder'[j] = holder[j]
      BY Zenon, <1>2, KeptBlock
    <2>4. content' = content /\ holder' = [holder EXCEPT ![k] = t]
      BY <2>1, <2>2, <2>3 DEF Mapped
    <2>. QED BY Zenon, <1>3, <2>1, <2>2, <2>4 DEF Store!Take
  <1>4. CASE ~valid[b]
    BY Zenon, <1>2, <1>4, KeptAll
  <1>. QED BY Zenon, <1>3, <1>4

\* bread() has the block when its data is in; the return of a bwrite() is not seen.
LEMMA ReturnMove ==
  ASSUME IInv, Mapped, Mapped', NEW t \in Threads, NEW b \in Bufs, buf[t] = b,
         pc[t] = "rw", Return(b), valid' = [valid EXCEPT ![b] = TRUE],
         UNCHANGED <<block, locked>>
  PROVE  /\ ~valid[b] => Store!Take(t, block[b]) /\ block[b] \in Blocks
         /\ valid[b] => UNCHANGED <<content, holder>>
  <1>1. locked[b] = t /\ block[b] \in Blocks
    BY Zenon, OneOwner DEF Owner
  <1>2. bdata[b] = store[block[b]] /\ store' = store /\ bdata' = bdata
    BY Zenon DEF Return, IInv, ReqInv
  <1>3. valid'[b] /\ \A c \in Bufs \ {b} : valid'[c] = valid[c]
    BY Zenon DEF IInv, TypeInv
  <1>4. CASE valid[b]
    <2>1. valid' = valid
      BY Zenon, <1>4 DEF IInv, TypeInv
    <2>. QED BY Zenon, <1>2, <1>4, <2>1, SameBlocks
  <1>5. CASE ~valid[b]
    <2> DEFINE k == block[b]
    <2>1. \A c \in Bufs : block[c] = k => c = b
      BY Zenon, <1>1, NoneAssumption DEF IInv, BlockInv
    <2>2. NotIn(k)
      BY Zenon, <1>5, <2>1 DEF NotIn
    <2>3. content[k] = store[k] /\ holder[k] = None
      BY Zenon, <1>1, <2>2 DEF Mapped
    <2>4. content'[k] = store[k] /\ holder'[k] = t
      BY Zenon, <1>1, <1>2, <1>3 DEF Mapped
    <2>5. ASSUME NEW j \in Blocks \ {k} PROVE Kept(j)
      <3>1. CASE NotIn(j)
        <4>1. NotIn(j)'
          BY Zenon, <1>3, <3>1 DEF NotIn
        <4>. QED BY Zenon, <1>2, <3>1, <4>1 DEF Kept
      <3>2. CASE ~NotIn(j)
        <4>1. PICK c \in Bufs : valid[c] /\ block[c] = j
          BY Zenon, <3>2 DEF NotIn
        <4>2. valid'[c]
          BY Zenon, <1>3, <4>1
        <4>. QED BY Zenon, <1>2, <4>1, <4>2 DEF Kept
      <3>. QED BY Zenon, <3>1, <3>2
    <2>6. \A j \in Blocks \ {k} : content'[j] = content[j] /\ holder'[j] = holder[j]
      BY Zenon, <2>5, KeptBlock
    <2>7. content' = content /\ holder' = [holder EXCEPT ![k] = t]
      BY <1>1, <2>3, <2>4, <2>6 DEF Mapped
    <2>. QED BY Zenon, <1>1, <1>5, <2>3, <2>7 DEF Store!Take
  <1>. QED BY Zenon, <1>4, <1>5

\* The holder of a buffer changes its block, and no other.
LEMMA ChangeMove ==
  ASSUME IInv, Mapped, Mapped', NEW t \in Threads, NEW b \in Bufs, buf[t] = b,
         pc[t] = "have", NEW v \in Data, bdata' = [bdata EXCEPT ![b] = v],
         UNCHANGED <<store, block, valid, locked>>
  PROVE  Store!Change(t, block[b]) /\ block[b] \in Blocks
  <1> DEFINE k == block[b]
  <1>1. locked[b] = t /\ k \in Blocks /\ valid[b]
    BY Zenon, OneOwner DEF Owner, IInv, ThreadInv
  <1>2. bdata'[b] = v /\ \A c \in Bufs \ {b} : bdata'[c] = bdata[c]
    BY Zenon DEF IInv, TypeInv
  <1>3. /\ content'[k] = v
        /\ holder[k] = t /\ holder'[k] = t
    BY Zenon, <1>1, <1>2 DEF Mapped
  <1>4. ASSUME NEW j \in Blocks \ {k} PROVE Kept(j)
    <2>1. CASE NotIn(j)
      BY Zenon, <2>1 DEF NotIn, Kept
    <2>2. CASE ~NotIn(j)
      <3>1. PICK c \in Bufs : valid[c] /\ block[c] = j
        BY Zenon, <2>2 DEF NotIn
      <3>2. bdata'[c] = bdata[c]
        BY Zenon, <1>2, <3>1
      <3>. QED BY Zenon, <3>1, <3>2 DEF Kept
    <2>. QED BY Zenon, <2>1, <2>2
  <1>5. \A j \in Blocks \ {k} : content'[j] = content[j] /\ holder'[j] = holder[j]
    BY Zenon, <1>4, KeptBlock
  <1>6. holder' = holder /\ content' = [content EXCEPT ![k] = v]
    BY <1>1, <1>3, <1>5 DEF Mapped
  <1>. QED BY Zenon, <1>1, <1>3, <1>6 DEF Store!Change

\* releasesleep() gives the block back.
LEMMA GiveMove ==
  ASSUME IInv, Mapped, Mapped', NEW t \in Threads, NEW b \in Bufs, buf[t] = b,
         pc[t] = "have", locked' = [locked EXCEPT ![b] = None],
         UNCHANGED <<store, bdata, block, valid>>
  PROVE  Store!Give(t, block[b]) /\ block[b] \in Blocks
  <1> DEFINE k == block[b]
  <1>1. locked[b] = t /\ k \in Blocks /\ valid[b]
    BY Zenon, OneOwner DEF Owner, IInv, ThreadInv
  <1>2. locked'[b] = None /\ \A c \in Bufs \ {b} : locked'[c] = locked[c]
    BY Zenon DEF IInv, TypeInv
  <1>3. /\ content[k] = bdata[b] /\ holder[k] = t
        /\ content'[k] = bdata[b] /\ holder'[k] = None
    BY Zenon, <1>1, <1>2 DEF Mapped
  <1>4. ASSUME NEW j \in Blocks \ {k} PROVE Kept(j)
    <2>1. CASE NotIn(j)
      BY Zenon, <2>1 DEF NotIn, Kept
    <2>2. CASE ~NotIn(j)
      <3>1. PICK c \in Bufs : valid[c] /\ block[c] = j
        BY Zenon, <2>2 DEF NotIn
      <3>2. locked'[c] = locked[c]
        BY Zenon, <1>2, <3>1
      <3>. QED BY Zenon, <3>1, <3>2 DEF Kept
    <2>. QED BY Zenon, <2>1, <2>2
  <1>5. \A j \in Blocks \ {k} : content'[j] = content[j] /\ holder'[j] = holder[j]
    BY Zenon, <1>4, KeptBlock
  <1>6. content' = content /\ holder' = [holder EXCEPT ![k] = None]
    BY <1>1, <1>3, <1>5 DEF Mapped
  <1>. QED BY Zenon, <1>1, <1>3, <1>6 DEF Store!Give

\* Every step of the cache is a step of the block store, or is not seen there.
LEMMA Simulation ==
  IInv /\ Mapped /\ Mapped' /\ [Next]_vars => [Store!Next]_<<content, holder>>
  <1> SUFFICES ASSUME IInv, Mapped, Mapped', [Next]_vars
               PROVE  Store!Next \/ UNCHANGED <<content, holder>>
    OBVIOUS
  <1>1. ASSUME UNCHANGED <<store, bdata, block, valid, locked>>
        PROVE  UNCHANGED <<content, holder>>
    BY Zenon, <1>1, SameBlocks
  <1>2. ASSUME NEW t \in Threads, pc[t] \in Labels \ {"idle"} PROVE buf[t] \in Bufs
    BY <1>2 DEF IInv, TypeInv, ThreadInv
  <1>3. ASSUME NEW t \in Threads, bget(t) PROVE UNCHANGED <<content, holder>>
    <2>1. UNCHANGED <<store, bdata, locked>>
      BY Zenon, <1>3 DEF bget, rawvars
    <2>2. \/ UNCHANGED <<block, valid>>
          \/ \E k \in Blocks, b \in Bufs :
                /\ Cached(k) = {} /\ LeastRecent(b)
                /\ block' = [block EXCEPT ![b] = k]
                /\ valid' = [valid EXCEPT ![b] = FALSE]
      BY <1>3, Zenon DEF bget
    <2>3. ASSUME NEW b \in Bufs, LeastRecent(b) PROVE refcnt[b] = 0
      BY Zenon, <2>3 DEF LeastRecent, Unused
    <2>4. CASE UNCHANGED <<block, valid>>
      BY Zenon, <1>1, <2>1, <2>4
    <2>5. ASSUME NEW k \in Blocks, NEW b \in Bufs, Cached(k) = {}, LeastRecent(b),
                 block' = [block EXCEPT ![b] = k], valid' = [valid EXCEPT ![b] = FALSE]
          PROVE  UNCHANGED <<content, holder>>
      BY Zenon, <2>1, <2>3, <2>5, MissSame
    <2>. QED BY <2>2, <2>4, <2>5, Zenon
  <1>4. ASSUME NEW t \in Threads, acquiresleep(t)
        PROVE  Store!Next \/ UNCHANGED <<content, holder>>
    <2>1. UNCHANGED <<store, bdata, block, valid>> /\ pc[t] \in Labels \ {"idle"}
      BY Zenon, <1>4 DEF acquiresleep, rawvars, At, Labels
    <2>2. CASE LockFree(t)
      <3>1. buf[t] \in Bufs /\ locked[buf[t]] = None
        BY Zenon, <1>2, <2>1, <2>2 DEF LockFree
      <3>2. locked' = [locked EXCEPT ![buf[t]] = t]
        BY Zenon, <1>4, <2>2 DEF acquiresleep
      <3>3. \/ Store!Take(t, block[buf[t]]) /\ block[buf[t]] \in Blocks
            \/ UNCHANGED <<content, holder>>
        BY Zenon, <2>1, <3>1, <3>2, TakeMove
      <3>. QED BY <3>3, Zenon DEF Store!Next
    <2>3. CASE ~LockFree(t)
      <3>1. UNCHANGED locked
        BY Zenon, <1>4, <2>3 DEF acquiresleep
      <3>. QED BY Zenon, <1>1, <2>1, <3>1
    <2>. QED BY Zenon, <2>2, <2>3
  <1>5. ASSUME NEW t \in Threads, Rw(t)
        PROVE  Store!Next \/ UNCHANGED <<content, holder>>
    <2>1. pc[t] = "rw" /\ UNCHANGED <<block, locked>>
      BY Zenon, <1>5 DEF Rw, At
    <2>2. buf[t] \in Bufs
      BY Zenon, <1>2, <2>1 DEF Labels
    <2>3. CASE Call(buf[t], block[buf[t]], valid[buf[t]], bdata[buf[t]])
               /\ UNCHANGED <<pc, valid, owes>>
      <3>1. store' = store /\ bdata' = bdata
        BY Zenon, <2>2, <2>3 DEF Call, IInv, TypeInv
      <3>. QED BY Zenon, <1>1, <2>1, <2>3, <3>1
    <2>4. CASE Transfer(buf[t]) /\ UNCHANGED <<pc, valid, owes>>
      BY Zenon, <2>1, <2>4, TransferSame
    <2>5. CASE Return(buf[t]) /\ valid' = [valid EXCEPT ![buf[t]] = TRUE]
      <3>1. \/ Store!Take(t, block[buf[t]]) /\ block[buf[t]] \in Blocks
            \/ UNCHANGED <<content, holder>>
        BY Zenon, <2>1, <2>2, <2>5, ReturnMove
      <3>. QED BY <3>1, Zenon DEF Store!Next
    <2>. QED BY Zenon, <1>5, <2>3, <2>4, <2>5 DEF Rw
  <1>6. ASSUME NEW t \in Threads, change(t) PROVE Store!Next
    <2>1. pc[t] = "have" /\ UNCHANGED <<store, block, valid, locked>>
      BY Zenon, <1>6 DEF change, At
    <2>2. PICK v \in Data : bdata' = [bdata EXCEPT ![buf[t]] = v]
      BY Zenon, <1>6 DEF change
    <2>3. buf[t] \in Bufs
      BY Zenon, <1>2, <2>1 DEF Labels
    <2>4. Store!Change(t, block[buf[t]]) /\ block[buf[t]] \in Blocks
      BY Zenon, <2>1, <2>2, <2>3, ChangeMove
    <2>. QED BY <2>4, Zenon DEF Store!Next
  <1>7. ASSUME NEW t \in Threads, releasesleep(t) PROVE Store!Next
    <2>1. /\ pc[t] = "have" /\ UNCHANGED <<store, bdata, block, valid>>
          /\ locked' = [locked EXCEPT ![buf[t]] = None]
      BY Zenon, <1>7 DEF releasesleep, At, rawvars
    <2>2. buf[t] \in Bufs
      BY Zenon, <1>2, <2>1 DEF Labels
    <2>3. Store!Give(t, block[buf[t]]) /\ block[buf[t]] \in Blocks
      BY Zenon, <2>1, <2>2, GiveMove
    <2>. QED BY <2>3, Zenon DEF Store!Next
  <1>8. ASSUME NEW t \in Threads,
               \/ bget_panic(t) \/ bwrite(t) \/ log_write(t) \/ bunpin(t)
               \/ brelse(t) \/ kill(t)
        PROVE  UNCHANGED <<content, holder>>
    <2>1. UNCHANGED <<store, bdata, block, valid, locked>>
      BY Zenon, <1>8 DEF bget_panic, bwrite, log_write, bunpin, brelse, kill, rawvars, bvars
    <2>. QED BY Zenon, <1>1, <2>1
  <1>9. CASE UNCHANGED vars
    BY Zenon, <1>1, <1>9 DEF vars, rawvars, bvars
  <1>. QED BY Zenon, <1>3, <1>4, <1>5, <1>6, <1>7, <1>8, <1>9 DEF Next

\* Above bread() and brelse() there is one copy of every block, held by one thread
\* at a time, for any numbers of threads, buffers and blocks: recycling, pinning,
\* write-back, stray wakeups and the order of the transfers are not seen.
THEOREM CacheIsStore == Spec => OneCopy
  <1>1. Init => Store!Init
    <2> SUFFICES ASSUME Init PROVE Store!Init
      OBVIOUS
    <2>1. Mapped
      BY Zenon, Initial, Mapping
    <2>2. \A k \in Blocks : NotIn(k)
      BY Zenon DEF Init, NotIn
    <2>3. holder = [k \in Blocks |-> None]
      BY Zenon, <2>1, <2>2 DEF Mapped
    <2>. QED BY Zenon, <2>1, <2>3 DEF Mapped, Store!Init
  <1>. QED BY <1>1, Mapping, Simulation, Invariance, PTL DEF Spec, OneCopy, Store!Spec
=============================================================================
