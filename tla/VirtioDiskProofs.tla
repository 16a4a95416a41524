-------------------------- MODULE VirtioDiskProofs --------------------------
(***************************************************************************)
(* Proofs about VirtioDisk, for any number of buffers and any size of the  *)
(* rings: descriptors are accounted for, and a call of virtio_disk_rw() is *)
(* one transfer (RawDisk).                                                 *)
(***************************************************************************)
EXTENDS VirtioDisk, FiniteSetTheorems, SequenceTheorems, TLAPS

Labels == {"idle", "rw", "desc", "io", "woken"}

TypeInv ==
    /\ free \subseteq Desc /\ next \in [Desc -> Desc \cup {None}]
    /\ avail \in Seq(Desc) /\ taken \subseteq Desc /\ used \in Seq(Desc)
    /\ irq \in BOOLEAN /\ intr \in BOOLEAN /\ disk \in [Bufs -> BOOLEAN]
    /\ bdata \in [Bufs -> Data] /\ store \in [Blocks -> Data]
    /\ pc \in [Bufs -> Labels] /\ arg \in [Bufs -> Args \cup {None}]
    /\ idx0 \in [Bufs -> Desc \cup {None}]
    /\ DOMAIN info = Desc /\ DOMAIN op = Desc

\* A process has arguments inside virtio_disk_rw(), and descriptors once it has
\* submitted the request.
CallInv ==
    \A b \in Bufs : /\ arg[b] = None <=> pc[b] = "idle"
                    /\ idx0[b] = None <=> pc[b] \notin {"io", "woken"}

\* A chain has three descriptors, the first of which leads to the buffer.
ChainInv ==
    \A b \in InUse :
        /\ next[idx0[b]] \in Desc /\ next[next[idx0[b]]] \in Desc
        /\ idx0[b] # next[idx0[b]] /\ idx0[b] # next[next[idx0[b]]]
        /\ next[idx0[b]] # next[next[idx0[b]]]
        /\ info[idx0[b]] = b /\ op[idx0[b]] = [arg |-> arg[b], buf |-> b]

\* A descriptor is free or in one chain.
FreeInv ==
    /\ \A i \in Desc : i \in free <=> \A b \in InUse : i \notin free_chain(idx0[b])
    /\ \A b, c \in InUse, i \in Desc :
          i \in free_chain(idx0[b]) /\ i \in free_chain(idx0[c]) => b = c

Pending == {b \in Bufs : disk[b]}

\* A request whose b->disk is set is in one place: the available ring, the device
\* or the used ring; no other request is in any of them.
RingInv ==
    /\ IsInjective(avail) /\ IsInjective(used)
    /\ taken \cap Range(avail) = {} /\ taken \cap Range(used) = {}
    /\ Range(avail) \cap Range(used) = {}
    /\ Pending \subseteq InUse
    /\ \A i \in Desc : i \in taken \cup Range(avail) \cup Range(used)
                         <=> \E b \in Pending : idx0[b] = i

IInv == TypeInv /\ CallInv /\ ChainInv /\ FreeInv /\ RingInv

-----------------------------------------------------------------------------

(* Rings *)

\* Putting an entry on a ring adds it, once.
LEMMA AppendRange ==
  ASSUME NEW S, NEW s \in Seq(S), NEW x \in S
  PROVE  /\ Append(s, x) \in Seq(S) /\ Range(Append(s, x)) = Range(s) \cup {x}
         /\ IsInjective(s) /\ x \notin Range(s) => IsInjective(Append(s, x))
  <1>1. /\ Append(s, x) \in Seq(S) /\ Len(Append(s, x)) = Len(s) + 1
        /\ \A i \in 1 .. Len(s) : Append(s, x)[i] = s[i]
        /\ Append(s, x)[Len(s) + 1] = x
    BY AppendProperties
  <1>2. /\ Len(s) \in Nat /\ DOMAIN s = 1 .. Len(s)
        /\ DOMAIN Append(s, x) = 1 .. Len(s) + 1
    BY Zenon, <1>1, LenProperties
  <1>3. Range(Append(s, x)) = Range(s) \cup {x}
    BY <1>1, <1>2 DEF Range
  <1>4. ASSUME IsInjective(s), x \notin Range(s) PROVE IsInjective(Append(s, x))
    BY <1>1, <1>2, <1>4 DEF Range, IsInjective
  <1>. QED BY Zenon, <1>1, <1>3, <1>4

\* Taking the first entry off a ring without repetitions removes it.
LEMMA TailRange ==
  ASSUME NEW S, NEW s \in Seq(S), s # <<>>, IsInjective(s)
  PROVE  /\ Head(s) \in S /\ Head(s) \in Range(s) /\ Tail(s) \in Seq(S)
         /\ Range(Tail(s)) = Range(s) \ {Head(s)} /\ IsInjective(Tail(s))
  <1>1. /\ Head(s) \in S /\ Tail(s) \in Seq(S) /\ Len(Tail(s)) = Len(s) - 1
        /\ \A i \in 1 .. Len(Tail(s)) : Tail(s)[i] = s[i + 1]
    BY Zenon, HeadTailProperties
  <1>2. /\ Len(s) \in Nat \ {0} /\ DOMAIN s = 1 .. Len(s)
        /\ DOMAIN Tail(s) = 1 .. Len(s) - 1
    BY Zenon, <1>1, LenProperties, EmptySeq
  <1>3. Head(s) = s[1]
    OBVIOUS
  <1>4. \A i \in 1 .. Len(s) : i = 1 \/ (i - 1 \in 1 .. Len(s) - 1 /\ s[i] = Tail(s)[i - 1])
    BY <1>1, <1>2
  <1>5. Range(Tail(s)) = Range(s) \ {Head(s)}
    <2>1. ASSUME NEW y \in Range(Tail(s)) PROVE y \in Range(s) /\ y # Head(s)
      <3>1. PICK i \in 1 .. Len(s) - 1 : y = Tail(s)[i]
        BY Zenon, <1>2 DEF Range
      <3>2. y = s[i + 1] /\ i + 1 \in 1 .. Len(s) /\ i + 1 # 1 /\ 1 \in 1 .. Len(s)
        BY <1>1, <1>2, <3>1
      <3>. QED BY Zenon, <1>2, <1>3, <3>2 DEF Range, IsInjective
    <2>2. ASSUME NEW y \in Range(s), y # Head(s) PROVE y \in Range(Tail(s))
      <3>1. PICK i \in 1 .. Len(s) : y = s[i]
        BY Zenon, <1>2, <2>2 DEF Range
      <3>2. i - 1 \in 1 .. Len(s) - 1 /\ y = Tail(s)[i - 1]
        BY <1>3, <1>4, <2>2, <3>1
      <3>. QED BY Zenon, <1>2, <3>2 DEF Range
    <2>. QED BY Zenon, <2>1, <2>2
  <1>6. IsInjective(Tail(s))
    BY <1>1, <1>2 DEF IsInjective
  <1>7. Head(s) \in Range(s)
    BY <1>2, <1>3 DEF Range
  <1>. QED BY Zenon, <1>1, <1>5, <1>6, <1>7

-----------------------------------------------------------------------------

(* The invariant *)

\* virtio_disk_init(): all descriptors are free.
LEMMA Initial == Init => IInv
  <1> SUFFICES ASSUME Init PROVE IInv
    OBVIOUS
  <1>1. InUse = {} /\ Pending = {}
    BY Zenon DEF Init, InUse, Pending
  <1>2. TypeInv
    <2>1. (CHOOSE v \in Data : TRUE) \in Data
      BY DataAssumption, Zenon
    <2>2. <<>> \in Seq(Desc)
      BY Zenon, EmptySeq
    <2>. QED BY Zenon, <2>1, <2>2 DEF Init, TypeInv, Labels
  <1>3. CallInv /\ ChainInv /\ FreeInv
    BY Zenon, <1>1 DEF Init, CallInv, ChainInv, FreeInv
  <1>4. RingInv
    <2>1. Range(<<>>) = {} /\ IsInjective(<<>>)
      BY DEF Range, IsInjective
    <2>. QED BY Zenon, <1>1, <2>1 DEF Init, RingInv
  <1>. QED BY Zenon, <1>2, <1>3, <1>4 DEF IInv

\* What a chain in use is, with the types its parts have.
LEMMA Chains ==
  ASSUME IInv, NEW b \in InUse
  PROVE  /\ b \in Bufs /\ idx0[b] \in Desc /\ next[idx0[b]] \in Desc
         /\ next[next[idx0[b]]] \in Desc /\ arg[b] \in Args
         /\ free_chain(idx0[b]) \subseteq Desc \ free
  <1>1. b \in Bufs /\ idx0[b] \in Desc
    BY Zenon DEF IInv, TypeInv, InUse
  <1>2. next[idx0[b]] \in Desc /\ next[next[idx0[b]]] \in Desc
    BY Zenon DEF IInv, ChainInv
  <1>3. arg[b] \in Args
    BY Zenon, <1>1 DEF IInv, TypeInv, CallInv, InUse
  <1>4. free_chain(idx0[b]) \subseteq Desc \ free
    BY <1>1, <1>2 DEF IInv, FreeInv, free_chain
  <1>. QED BY Zenon, <1>1, <1>2, <1>3, <1>4

\* A step that touches no descriptor keeps the chains.
LEMMA SameChains ==
  ASSUME IInv, UNCHANGED <<free, next, op, info, idx0>>,
         \A b \in InUse : arg'[b] = arg[b]
  PROVE  InUse' = InUse /\ ChainInv' /\ FreeInv'
  <1>1. InUse' = InUse
    BY Zenon DEF InUse
  <1>2. \A b \in Bufs : free_chain(idx0[b])' = free_chain(idx0[b])
    BY Zenon DEF free_chain
  <1>3. ChainInv'
    BY Zenon, <1>1 DEF IInv, ChainInv
  <1>4. \A b \in InUse : b \in Bufs
    BY Zenon DEF InUse
  <1>5. FreeInv'
    BY <1>1, <1>2, <1>4 DEF IInv, FreeInv
  <1>. QED BY Zenon, <1>1, <1>3, <1>5

\* A step that touches neither rings nor b->disk keeps them.
LEMMA SameRings ==
  ASSUME IInv, UNCHANGED <<avail, taken, used, disk, idx0>>
  PROVE  RingInv'
  <1>1. InUse' = InUse /\ Pending' = Pending
    BY Zenon DEF InUse, Pending
  <1>2. Range(avail)' = Range(avail) /\ Range(used)' = Range(used)
    BY Zenon DEF Range
  <1>3. IsInjective(avail)' /\ IsInjective(used)'
    BY Zenon DEF IInv, RingInv, IsInjective
  <1>. QED BY Zenon, <1>1, <1>2, <1>3 DEF IInv, RingInv

\* The call.
LEMMA CallStep ==
  ASSUME IInv, NEW b \in Bufs, virtio_disk_rw(b)
  PROVE  IInv'
  <1>1. PICK write \in BOOLEAN, v \in Data :
           /\ arg' = [arg EXCEPT ![b] = [block |-> blockno[b], write |-> write]]
           /\ bdata' = [bdata EXCEPT ![b] = v]
    BY Zenon DEF virtio_disk_rw
  <1>2. /\ pc[b] = "idle" /\ pc' = [pc EXCEPT ![b] = "rw"]
        /\ free' = free /\ next' = next /\ op' = op /\ info' = info /\ idx0' = idx0
        /\ avail' = avail /\ taken' = taken /\ used' = used /\ irq' = irq /\ intr' = intr
        /\ disk' = disk /\ store' = store
    BY Zenon DEF virtio_disk_rw, ringvars
  <1>3. [block |-> blockno[b], write |-> write] \in Args
    BY Zenon DEF Args, Blocks
  <1>4. TypeInv'
    BY Zenon, <1>1, <1>2, <1>3 DEF IInv, TypeInv, Labels
  <1>5. CallInv'
    BY Zenon, <1>1, <1>2, <1>3, NoneAssumption DEF IInv, TypeInv, CallInv
  <1>6. \A c \in InUse : arg'[c] = arg[c]
    BY Zenon, <1>1, <1>2 DEF IInv, TypeInv, CallInv, InUse
  <1>7. ChainInv' /\ FreeInv'
    BY Zenon, <1>2, <1>6, SameChains
  <1>8. RingInv'
    BY Zenon, <1>2, SameRings
  <1>. QED BY Zenon, <1>4, <1>5, <1>7, <1>8 DEF IInv

\* A process goes to sleep or wakes up.
LEMMA PcStep ==
  ASSUME IInv, pc' \in [Bufs -> Labels],
         \A c \in Bufs : /\ pc'[c] = "idle" <=> pc[c] = "idle"
                         /\ pc'[c] \in {"io", "woken"} <=> pc[c] \in {"io", "woken"},
         UNCHANGED <<free, next, op, info, ringvars, disk, bdata, store, arg, idx0>>
  PROVE  IInv'
  <1>1. UNCHANGED <<avail, taken, used, irq, intr>>
    BY Zenon DEF ringvars
  <1>2. TypeInv'
    BY Zenon, <1>1 DEF IInv, TypeInv
  <1>3. CallInv'
    BY Zenon DEF IInv, CallInv
  <1>4. ChainInv' /\ FreeInv'
    BY Zenon, SameChains
  <1>5. RingInv'
    BY Zenon, <1>1, SameRings
  <1>. QED BY Zenon, <1>2, <1>3, <1>4, <1>5 DEF IInv

\* virtio_disk_rw() takes three free descriptors and makes the request available.
LEMMA SubmitStep ==
  ASSUME IInv, NEW b \in Bufs, rw_submit(b)
  PROVE  IInv'
  <1>1. PICK i \in free, j \in free, k \in free :
           /\ alloc3_desc(i, j, k)
           /\ free' = free \ {i, j, k}
           /\ next' = [next EXCEPT ![i] = j, ![j] = k]
           /\ op' = [op EXCEPT ![i] = [arg |-> arg[b], buf |-> b]]
           /\ info' = [info EXCEPT ![i] = b]
           /\ avail' = Append(avail, i)
           /\ idx0' = [idx0 EXCEPT ![b] = i]
    BY Zenon DEF rw_submit
  <1>2. /\ pc[b] = "rw" /\ pc' = [pc EXCEPT ![b] = "io"]
        /\ disk' = [disk EXCEPT ![b] = TRUE]
        /\ taken' = taken /\ used' = used /\ irq' = irq /\ intr' = intr
        /\ bdata' = bdata /\ store' = store /\ arg' = arg
    BY Zenon DEF rw_submit
  <1>3. i \in Desc /\ j \in Desc /\ k \in Desc /\ i # j /\ j # k /\ i # k
    BY <1>1 DEF IInv, TypeInv, alloc3_desc, Desc
  <1>4. b \notin InUse /\ ~disk[b] /\ idx0[b] = None
    BY Zenon, <1>2 DEF IInv, CallInv, InUse, RingInv, Pending
  <1>5. /\ idx0'[b] = i /\ \A c \in Bufs \ {b} : idx0'[c] = idx0[c]
        /\ disk'[b] /\ \A c \in Bufs \ {b} : disk'[c] = disk[c]
        /\ pc'[b] = "io" /\ \A c \in Bufs \ {b} : pc'[c] = pc[c]
    BY Zenon, <1>1, <1>2 DEF IInv, TypeInv
  <1>6. /\ next'[i] = j /\ next'[j] = k
        /\ \A l \in Desc \ {i, j} : next'[l] = next[l]
        /\ info'[i] = b /\ op'[i] = [arg |-> arg[b], buf |-> b]
        /\ \A l \in Desc \ {i} : info'[l] = info[l] /\ op'[l] = op[l]
    BY Zenon, <1>1, <1>3 DEF IInv, TypeInv
  <1>7. InUse' = InUse \cup {b}
    BY Zenon, <1>3, <1>5, NoneAssumption DEF InUse
  <1>8. ASSUME NEW c \in InUse
        PROVE  /\ c # b /\ idx0'[c] = idx0[c]
               /\ next'[idx0[c]] = next[idx0[c]]
               /\ next'[next[idx0[c]]] = next[next[idx0[c]]]
               /\ info'[idx0[c]] = info[idx0[c]] /\ op'[idx0[c]] = op[idx0[c]]
               /\ i \notin free_chain(idx0[c]) /\ j \notin free_chain(idx0[c])
               /\ k \notin free_chain(idx0[c])
    <2>1. /\ c \in Bufs /\ c # b /\ idx0[c] \in Desc /\ next[idx0[c]] \in Desc
          /\ free_chain(idx0[c]) \subseteq Desc \ free
      BY Zenon, <1>4, Chains
    <2>2. idx0[c] \notin {i, j, k} /\ next[idx0[c]] \notin {i, j, k}
      BY Zenon, <2>1 DEF free_chain
    <2>. QED BY Zenon, <1>5, <1>6, <2>1, <2>2
  <1>9. /\ \A c \in InUse : free_chain(idx0[c])' = free_chain(idx0[c])
        /\ free_chain(idx0[b])' = {i, j, k}
    BY <1>5, <1>6, <1>8 DEF free_chain
  <1>10. TypeInv'
    <2>1. avail' \in Seq(Desc)
      BY Zenon, <1>1, <1>3, AppendRange DEF IInv, TypeInv
    <2>. QED BY Zenon, <1>1, <1>2, <1>3, <2>1 DEF IInv, TypeInv, Labels
  <1>11. CallInv'
    BY <1>2, <1>3, <1>5, NoneAssumption DEF IInv, CallInv
  <1>12. ChainInv'
    <2>1. ASSUME NEW c \in InUse
          PROVE  /\ next'[idx0'[c]] \in Desc /\ next'[next'[idx0'[c]]] \in Desc
                 /\ idx0'[c] # next'[idx0'[c]] /\ idx0'[c] # next'[next'[idx0'[c]]]
                 /\ next'[idx0'[c]] # next'[next'[idx0'[c]]]
                 /\ info'[idx0'[c]] = c /\ op'[idx0'[c]] = [arg |-> arg[c], buf |-> c]
      BY <1>8 DEF IInv, ChainInv
    <2>. QED BY Zenon, <1>2, <1>3, <1>5, <1>6, <1>7, <2>1 DEF ChainInv
  <1>13. FreeInv'
    <2>1. ASSUME NEW l \in Desc
          PROVE  l \in free' <=> \A c \in InUse' : l \notin free_chain(idx0[c])'
      BY <1>1, <1>7, <1>9 DEF IInv, FreeInv
    <2>2. ASSUME NEW c \in InUse', NEW d \in InUse', NEW l \in Desc,
                 l \in free_chain(idx0[c])', l \in free_chain(idx0[d])'
          PROVE  c = d
      BY <1>7, <1>8, <1>9, <2>2 DEF IInv, FreeInv
    <2>. QED BY Zenon, <2>1, <2>2 DEF FreeInv
  <1>14. RingInv'
    <2>1. i \notin taken \cup Range(avail) \cup Range(used)
      BY Zenon, <1>3, <1>8 DEF IInv, RingInv, free_chain
    <2>2. /\ Range(avail)' = Range(avail) \cup {i} /\ IsInjective(avail)'
          /\ Range(used)' = Range(used) /\ IsInjective(used)'
      BY <1>1, <1>2, <1>3, <2>1, AppendRange DEF IInv, TypeInv, RingInv
    <2>3. Pending' = Pending \cup {b} /\ Pending \subseteq InUse /\ b \notin Pending
      BY <1>4, <1>5 DEF IInv, RingInv, Pending
    <2>4. ASSUME NEW l \in Desc
          PROVE  l \in taken' \cup Range(avail)' \cup Range(used)'
                   <=> \E c \in Pending' : idx0'[c] = l
      BY <1>2, <1>5, <1>8, <2>2, <2>3 DEF IInv, RingInv
    <2>. QED BY <1>2, <1>7, <2>1, <2>2, <2>3, <2>4 DEF IInv, RingInv
  <1>. QED BY Zenon, <1>10, <1>11, <1>12, <1>13, <1>14 DEF IInv

\* virtio_disk_rw() returns and frees its chain, which is in no ring any more.
LEMMA DoneStep ==
  ASSUME IInv, NEW b \in Bufs, rw_done(b)
  PROVE  IInv'
  <1>1. /\ pc[b] = "woken" /\ ~disk[b]
        /\ info' = [info EXCEPT ![idx0[b]] = None]
        /\ free' = free \cup free_chain(idx0[b])
        /\ next' = [i \in Desc |-> IF i \in free_chain(idx0[b]) THEN None ELSE next[i]]
        /\ op' = [op EXCEPT ![idx0[b]] = None]
        /\ idx0' = [idx0 EXCEPT ![b] = None] /\ arg' = [arg EXCEPT ![b] = None]
        /\ pc' = [c \in Bufs |-> IF c = b THEN "idle"
                                 ELSE IF pc[c] = "desc" THEN "rw" ELSE pc[c]]
    BY Zenon DEF rw_done, Finished
  <1>2. /\ avail' = avail /\ taken' = taken /\ used' = used /\ irq' = irq /\ intr' = intr
        /\ disk' = disk /\ bdata' = bdata /\ store' = store
    BY Zenon DEF rw_done, ringvars
  <1>3. b \in InUse
    BY Zenon, <1>1 DEF IInv, CallInv, InUse
  <1>4. /\ idx0'[b] = None /\ arg'[b] = None /\ pc'[b] = "idle"
        /\ \A c \in Bufs \ {b} : /\ idx0'[c] = idx0[c] /\ arg'[c] = arg[c]
                                 /\ pc'[c] = pc[c] \/ (pc[c] = "desc" /\ pc'[c] = "rw")
    BY Zenon, <1>1 DEF IInv, TypeInv
  <1>5. InUse' = InUse \ {b}
    BY Zenon, <1>4 DEF InUse
  <1>6. ASSUME NEW c \in InUse \ {b}
        PROVE  /\ idx0'[c] = idx0[c] /\ arg'[c] = arg[c]
               /\ next'[idx0[c]] = next[idx0[c]]
               /\ next'[next[idx0[c]]] = next[next[idx0[c]]]
               /\ info'[idx0[c]] = info[idx0[c]] /\ op'[idx0[c]] = op[idx0[c]]
    <2>1. c \in Bufs /\ idx0[c] \in Desc /\ next[idx0[c]] \in Desc
      BY Zenon, Chains
    <2>2. idx0[c] \notin free_chain(idx0[b]) /\ next[idx0[c]] \notin free_chain(idx0[b])
      BY Zenon, <1>3, <2>1 DEF IInv, FreeInv, free_chain
    <2>3. idx0[c] # idx0[b]
      BY Zenon, <2>2 DEF free_chain
    <2>. QED BY Zenon, <1>1, <1>4, <2>1, <2>2, <2>3 DEF IInv, TypeInv
  <1>7. \A c \in InUse \ {b} : free_chain(idx0[c])' = free_chain(idx0[c])
    BY Zenon, <1>6 DEF free_chain
  <1>8. TypeInv'
    <2>1. free' \subseteq Desc
      BY Zenon, <1>1, <1>3, Chains DEF IInv, TypeInv
    <2>2. next' \in [Desc -> Desc \cup {None}] /\ pc' \in [Bufs -> Labels]
      BY Zenon, <1>1 DEF IInv, TypeInv, Labels
    <2>. QED BY Zenon, <1>1, <1>2, <2>1, <2>2 DEF IInv, TypeInv
  <1>9. CallInv'
    BY Zenon, <1>4 DEF IInv, CallInv
  <1>10. ChainInv'
    BY <1>5, <1>6 DEF IInv, ChainInv
  <1>11. FreeInv'
    <2>1. ASSUME NEW l \in Desc
          PROVE  l \in free' <=> \A c \in InUse' : l \notin free_chain(idx0[c])'
      BY <1>1, <1>3, <1>5, <1>7 DEF IInv, FreeInv
    <2>2. ASSUME NEW c \in InUse', NEW d \in InUse', NEW l \in Desc,
                 l \in free_chain(idx0[c])', l \in free_chain(idx0[d])'
          PROVE  c = d
      BY <1>5, <1>7, <2>2 DEF IInv, FreeInv
    <2>. QED BY Zenon, <2>1, <2>2 DEF FreeInv
  <1>12. RingInv'
    <2>1. Range(avail)' = Range(avail) /\ Range(used)' = Range(used)
      BY Zenon, <1>2
    <2>2. IsInjective(avail)' /\ IsInjective(used)'
      BY Zenon, <1>2 DEF IInv, RingInv
    <2>3. Pending' = Pending /\ b \notin Pending /\ Pending \subseteq InUse
      BY Zenon, <1>1, <1>2 DEF IInv, RingInv, Pending
    <2>4. \A c \in Pending : idx0'[c] = idx0[c]
      BY Zenon, <1>6, <2>3
    <2>. QED BY Zenon, <1>2, <1>5, <2>1, <2>2, <2>3, <2>4 DEF IInv, RingInv
  <1>. QED BY Zenon, <1>8, <1>9, <1>10, <1>11, <1>12 DEF IInv

\* The device reads an entry of the available ring.
LEMMA TakeStep ==
  ASSUME IInv, dev_take
  PROVE  IInv'
  <1>1. /\ avail # <<>> /\ taken' = taken \cup {Head(avail)} /\ avail' = Tail(avail)
        /\ free' = free /\ next' = next /\ op' = op /\ info' = info /\ used' = used
        /\ irq' = irq /\ intr' = intr /\ disk' = disk /\ bdata' = bdata /\ store' = store
        /\ pc' = pc /\ arg' = arg /\ idx0' = idx0
    BY Zenon DEF dev_take
  <1>2. /\ Head(avail) \in Desc /\ Head(avail) \in Range(avail) /\ avail' \in Seq(Desc)
        /\ Range(avail)' = Range(avail) \ {Head(avail)} /\ IsInjective(avail)'
    BY Zenon, <1>1, TailRange DEF IInv, TypeInv, RingInv
  <1>3. TypeInv' /\ CallInv'
    BY Zenon, <1>1, <1>2 DEF IInv, TypeInv, CallInv
  <1>4. InUse' = InUse /\ ChainInv' /\ FreeInv'
    BY Zenon, <1>1, SameChains
  <1>5. RingInv'
    <2>1. Range(used)' = Range(used) /\ IsInjective(used)' /\ Pending' = Pending
      BY Zenon, <1>1 DEF IInv, RingInv, Pending
    <2>. QED BY <1>1, <1>2, <1>4, <2>1 DEF IInv, RingInv
  <1>. QED BY Zenon, <1>3, <1>4, <1>5 DEF IInv

\* Whose request the device has taken.
LEMMA TakenRequest ==
  ASSUME IInv, NEW i \in taken
  PROVE  \E b \in Pending : /\ b \in InUse /\ idx0[b] = i /\ i \in Desc
                            /\ op[i] = [arg |-> arg[b], buf |-> b]
  BY DEF IInv, TypeInv, RingInv, ChainInv

\* The device makes the transfer and enters it into the used ring.
LEMMA TransferStep ==
  ASSUME IInv, NEW i \in Desc, dev_done(i)
  PROVE  IInv'
  <1>1. /\ i \in taken /\ taken' = taken \ {i} /\ used' = Append(used, i) /\ irq' = TRUE
        /\ free' = free /\ next' = next /\ op' = op /\ info' = info /\ avail' = avail
        /\ intr' = intr /\ disk' = disk /\ pc' = pc /\ arg' = arg /\ idx0' = idx0
    BY Zenon DEF dev_done
  <1>2. PICK b \in Pending : /\ b \in InUse /\ idx0[b] = i
                             /\ op[i] = [arg |-> arg[b], buf |-> b]
    BY Zenon, <1>1, TakenRequest
  <1>3. /\ b \in Bufs /\ arg[b] \in Args /\ arg[b].block \in Blocks
        /\ op[i].arg = arg[b] /\ op[i].buf = b
    BY <1>2, Chains DEF Args
  <1>4. bdata' \in [Bufs -> Data] /\ store' \in [Blocks -> Data]
    <2>1. \/ store' = [store EXCEPT ![arg[b].block] = bdata[b]] /\ bdata' = bdata
          \/ bdata' = [bdata EXCEPT ![b] = store[arg[b].block]] /\ store' = store
      BY Zenon, <1>3 DEF dev_done
    <2>2. bdata[b] \in Data /\ store[arg[b].block] \in Data
      BY Zenon, <1>3 DEF IInv, TypeInv
    <2>. QED BY Zenon, <2>1, <2>2 DEF IInv, TypeInv
  <1>5. i \notin Range(used)
    BY Zenon, <1>1 DEF IInv, RingInv
  <1>6. used' \in Seq(Desc) /\ Range(used)' = Range(used) \cup {i} /\ IsInjective(used)'
    BY <1>1, <1>5, AppendRange DEF IInv, TypeInv, RingInv
  <1>7. TypeInv' /\ CallInv'
    BY Zenon, <1>1, <1>4, <1>6 DEF IInv, TypeInv, CallInv
  <1>8. InUse' = InUse /\ ChainInv' /\ FreeInv'
    BY Zenon, <1>1, SameChains
  <1>9. RingInv'
    <2>1. Range(avail)' = Range(avail) /\ IsInjective(avail)' /\ Pending' = Pending
      BY Zenon, <1>1 DEF IInv, RingInv, Pending
    <2>. QED BY <1>1, <1>6, <1>8, <2>1 DEF IInv, RingInv
  <1>. QED BY Zenon, <1>7, <1>8, <1>9 DEF IInv

\* virtio_disk_intr() takes an entry of the used ring; info[] leads to its buffer.
LEMMA UsedStep ==
  ASSUME IInv, intr_used
  PROVE  IInv'
  <1>1. /\ used # <<>> /\ used' = Tail(used)
        /\ free' = free /\ next' = next /\ op' = op /\ info' = info /\ avail' = avail
        /\ taken' = taken /\ irq' = irq /\ intr' = intr /\ bdata' = bdata /\ store' = store
        /\ arg' = arg /\ idx0' = idx0
        /\ disk' = [disk EXCEPT ![info[Head(used)]] = FALSE]
        /\ pc' = [pc EXCEPT ![info[Head(used)]] = IF @ = "io" THEN "woken" ELSE @]
    BY Zenon DEF intr_used
  <1>2. /\ Head(used) \in Desc /\ Head(used) \in Range(used) /\ used' \in Seq(Desc)
        /\ Range(used)' = Range(used) \ {Head(used)} /\ IsInjective(used)'
    BY Zenon, <1>1, TailRange DEF IInv, TypeInv, RingInv
  <1>3. PICK b \in Pending : b \in InUse /\ idx0[b] = Head(used) /\ info[Head(used)] = b
    <2>1. PICK b \in Pending : idx0[b] = Head(used)
      BY Zenon, <1>2 DEF IInv, RingInv
    <2>2. b \in InUse /\ info[idx0[b]] = b
      BY Zenon DEF IInv, RingInv, ChainInv
    <2>. QED BY Zenon, <2>1, <2>2
  <1>4. b \in Bufs
    BY Zenon, <1>3 DEF InUse
  <1>5. /\ ~disk'[b] /\ \A c \in Bufs \ {b} : disk'[c] = disk[c]
        /\ pc'[b] \in {pc[b], "woken"} /\ pc[b] \in {"io", "woken"}
        /\ \A c \in Bufs \ {b} : pc'[c] = pc[c]
        /\ disk' \in [Bufs -> BOOLEAN] /\ pc' \in [Bufs -> Labels]
    <2>1. /\ disk' = [disk EXCEPT ![b] = FALSE]
          /\ pc' = [pc EXCEPT ![b] = IF pc[b] = "io" THEN "woken" ELSE pc[b]]
      BY Zenon, <1>1, <1>3
    <2>2. pc[b] \in {"io", "woken"}
      BY Zenon, <1>3, <1>4 DEF IInv, CallInv, InUse
    <2>. QED BY Zenon, <1>4, <2>1, <2>2 DEF IInv, TypeInv, Labels
  <1>6. TypeInv'
    BY Zenon, <1>1, <1>2, <1>5 DEF IInv, TypeInv
  <1>7. CallInv'
    BY Zenon, <1>1, <1>5 DEF IInv, CallInv
  <1>8. InUse' = InUse /\ ChainInv' /\ FreeInv'
    BY Zenon, <1>1, SameChains
  <1>9. RingInv'
    <2>1. /\ Range(avail)' = Range(avail) /\ IsInjective(avail)'
          /\ Pending' = Pending \ {b}
      BY <1>1, <1>5 DEF IInv, RingInv, Pending
    <2>2. ASSUME NEW c \in Pending, idx0[c] = Head(used) PROVE c = b
      BY Zenon, <1>3, <2>2 DEF IInv, RingInv, ChainInv
    <2>3. ASSUME NEW l \in Desc
          PROVE  l \in taken' \cup Range(avail)' \cup Range(used)'
                   <=> \E c \in Pending' : idx0'[c] = l
      BY <1>1, <1>2, <1>3, <2>1, <2>2 DEF IInv, RingInv
    <2>. QED BY Zenon, <1>1, <1>2, <1>8, <2>1, <2>3 DEF IInv, RingInv
  <1>. QED BY Zenon, <1>6, <1>7, <1>8, <1>9 DEF IInv

\* Every step keeps the invariant.
LEMMA Step == IInv /\ [Next]_vars => IInv'
  <1> SUFFICES ASSUME IInv, [Next]_vars PROVE IInv'
    OBVIOUS
  <1>1. ASSUME NEW b \in Bufs, virtio_disk_rw(b) PROVE IInv'
    BY Zenon, <1>1, CallStep
  <1>2. ASSUME NEW b \in Bufs, rw_submit(b) PROVE IInv'
    BY Zenon, <1>2, SubmitStep
  <1>3. ASSUME NEW b \in Bufs, rw_full(b) PROVE IInv'
    <2>1. /\ pc[b] = "rw"
          /\ pc' = [c \in Bufs |-> IF c = b THEN "desc"
                                   ELSE IF pc[c] = "desc" /\ free # {} THEN "rw" ELSE pc[c]]
          /\ UNCHANGED <<free, next, op, info, ringvars, disk, bdata, store, arg, idx0>>
      BY Zenon, <1>3 DEF rw_full
    <2>2. pc' \in [Bufs -> Labels]
      BY Zenon, <2>1 DEF IInv, TypeInv, Labels
    <2>3. \A c \in Bufs : /\ pc'[c] = "idle" <=> pc[c] = "idle"
                          /\ pc'[c] \in {"io", "woken"} <=> pc[c] \in {"io", "woken"}
      BY Zenon, <2>1
    <2>. QED BY Zenon, <2>1, <2>2, <2>3, PcStep
  <1>4. ASSUME NEW b \in Bufs, rw_done(b) PROVE IInv'
    BY Zenon, <1>4, DoneStep
  <1>5. ASSUME NEW b \in Bufs, rw_again(b) \/ kill(b) PROVE IInv'
    <2>1. UNCHANGED <<free, next, op, info, ringvars, disk, bdata, store, arg, idx0>>
      BY Zenon, <1>5 DEF rw_again, kill
    <2>2. /\ pc' \in [Bufs -> Labels] /\ \A c \in Bufs \ {b} : pc'[c] = pc[c]
          /\ \/ pc[b] = "desc" /\ pc'[b] = "rw"
             \/ pc[b] \in {"io", "woken"} /\ pc'[b] \in {"io", "woken"}
      BY Zenon, <1>5 DEF rw_again, kill, IInv, TypeInv, Labels
    <2>3. \A c \in Bufs : /\ pc'[c] = "idle" <=> pc[c] = "idle"
                          /\ pc'[c] \in {"io", "woken"} <=> pc[c] \in {"io", "woken"}
      BY Zenon, <2>2
    <2>. QED BY Zenon, <2>1, <2>2, <2>3, PcStep
  <1>6. CASE dev_take
    BY Zenon, <1>6, TakeStep
  <1>7. ASSUME NEW i \in Desc, dev_done(i) PROVE IInv'
    BY Zenon, <1>7, TransferStep
  <1>8. CASE intr_used
    BY Zenon, <1>8, UsedStep
  <1>9. CASE intr_ack \/ intr_return \/ UNCHANGED vars
    <2>1. /\ free' = free /\ next' = next /\ op' = op /\ info' = info /\ avail' = avail
          /\ taken' = taken /\ used' = used /\ disk' = disk /\ bdata' = bdata
          /\ store' = store /\ pc' = pc /\ arg' = arg /\ idx0' = idx0
          /\ irq' \in BOOLEAN /\ intr' \in BOOLEAN
      BY Zenon, <1>9 DEF intr_ack, intr_return, vars, ringvars, IInv, TypeInv
    <2>2. TypeInv' /\ CallInv'
      BY Zenon, <2>1 DEF IInv, TypeInv, CallInv
    <2>3. ChainInv' /\ FreeInv'
      BY Zenon, <2>1, SameChains
    <2>4. RingInv'
      BY Zenon, <2>1, SameRings
    <2>. QED BY Zenon, <2>2, <2>3, <2>4 DEF IInv
  <1>. QED BY Zenon, <1>1, <1>2, <1>3, <1>4, <1>5, <1>6, <1>7, <1>8, <1>9
           DEF Next, CallerStep, IntrStep

\* The inductive invariant holds throughout.
LEMMA Invariance == Spec => []IInv
  BY Initial, Step, PTL DEF Spec

-----------------------------------------------------------------------------

(* Correctness *)

\* Three different descriptors are three.
LEMMA CardinalityThree ==
  ASSUME NEW x, NEW y, NEW z, x # y, y # z, x # z, NEW S, S = {x, y, z}
  PROVE  Cardinality(S) = 3
  <1>1. IsFiniteSet({x}) /\ Cardinality({x}) = 1
    BY Zenon, FS_Singleton
  <1>2. IsFiniteSet({x} \cup {y}) /\ Cardinality({x} \cup {y}) = 1 + 1
    BY Zenon, <1>1, FS_AddElement
  <1>3. Cardinality(({x} \cup {y}) \cup {z}) = (1 + 1) + 1
    <2>1. z \notin {x} \cup {y}
      OBVIOUS
    <2>. QED BY Zenon, <1>2, <2>1, FS_AddElement
  <1>4. ({x} \cup {y}) \cup {z} = S
    OBVIOUS
  <1>. QED BY <1>3, <1>4

\* alloc3_desc() and free_chain() account for every descriptor: it is free or in
\* the chain of one process inside virtio_disk_rw(), and what the rings and the
\* device hold are heads of such chains, which lead to their buffers.
THEOREM DescriptorsAccounted == Spec => []DescsAccounted
  <1>1. ASSUME IInv PROVE DescsAccounted
    <2>1. free = Desc \ UNION {free_chain(idx0[b]) : b \in InUse}
      BY <1>1 DEF IInv, TypeInv, FreeInv
    <2>2. ASSUME NEW b \in InUse
          PROVE  /\ Cardinality(free_chain(idx0[b])) = 3
                 /\ info[idx0[b]] = b /\ op[idx0[b]] = [arg |-> arg[b], buf |-> b]
      <3>1. /\ idx0[b] # next[idx0[b]] /\ idx0[b] # next[next[idx0[b]]]
            /\ next[idx0[b]] # next[next[idx0[b]]]
            /\ info[idx0[b]] = b /\ op[idx0[b]] = [arg |-> arg[b], buf |-> b]
        BY Zenon, <1>1 DEF IInv, ChainInv
      <3>2. free_chain(idx0[b]) = {idx0[b], next[idx0[b]], next[next[idx0[b]]]}
        BY Zenon DEF free_chain
      <3>3. Cardinality(free_chain(idx0[b])) = 3
        <4>1. PICK x, y, z : x = idx0[b] /\ y = next[idx0[b]] /\ z = next[next[idx0[b]]]
          OBVIOUS
        <4>2. x # y /\ y # z /\ x # z /\ free_chain(idx0[b]) = {x, y, z}
          BY Zenon, <3>1, <3>2, <4>1
        <4>. QED BY Zenon, <4>2, CardinalityThree
      <3>. QED BY Zenon, <3>1, <3>3
    <2>3. ASSUME NEW b \in InUse, NEW c \in InUse \ {b}
          PROVE  free_chain(idx0[b]) \cap free_chain(idx0[c]) = {}
      <3>1. free_chain(idx0[b]) \subseteq Desc
        BY Zenon, <1>1, Chains
      <3>. QED BY Zenon, <1>1, <3>1 DEF IInv, FreeInv
    <2>4. taken \cup Range(avail) \cup Range(used) \subseteq {idx0[b] : b \in InUse}
      <3>1. taken \cup Range(avail) \cup Range(used) \subseteq Desc
        <4>1. ASSUME NEW s \in Seq(Desc) PROVE Range(s) \subseteq Desc
          BY DEF Range
        <4>. QED BY Zenon, <1>1, <4>1 DEF IInv, TypeInv
      <3>. QED BY Zenon, <1>1, <3>1 DEF IInv, RingInv
    <2>. QED BY Zenon, <2>1, <2>2, <2>3, <2>4 DEF DescsAccounted
  <1>. QED BY <1>1, Invariance, PTL

(* The refinement *)

\* The request of a process, as RawDisk sees it.
Request(b) == [block |-> arg[b].block, write |-> arg[b].write,
               done |-> b \in InUse /\ idx0[b] \notin taken \cup Range(avail)]

\* The requests that RawDisk sees, read off the driver's state.
LEMMA Requests ==
  ASSUME IInv
  PROVE  /\ req = [b \in Bufs |-> IF arg[b] = None THEN None ELSE Request(b)]
         /\ \A b \in Bufs : arg[b] # None =>
               /\ arg[b] \in Args /\ req[b] = Request(b) /\ req[b] # None
  <1>1. req = [b \in Bufs |-> IF arg[b] = None THEN None ELSE Request(b)]
    BY Zenon DEF req, Request
  <1>2. ASSUME NEW b \in Bufs, arg[b] # None
        PROVE  arg[b] \in Args /\ req[b] = Request(b) /\ req[b] # None
    <2>1. arg[b] \in Args
      BY Zenon, <1>2 DEF IInv, TypeInv
    <2>2. Request(b) \in [block : Blocks, write : BOOLEAN, done : BOOLEAN]
      BY Zenon, <2>1 DEF Args, Request
    <2>. QED BY Zenon, <1>1, <1>2, <2>1, <2>2, NoneAssumption
  <1>. QED BY Zenon, <1>1, <1>2

\* No two processes have the same chain.
LEMMA OneHead ==
  ASSUME IInv, NEW b \in InUse, NEW c \in InUse, idx0[b] = idx0[c]
  PROVE  b = c
  <1>1. info[idx0[b]] = b /\ info[idx0[c]] = c
    BY Zenon DEF IInv, ChainInv
  <1>. QED BY Zenon, <1>1

\* A step after which every call has the arguments and the progress that it had is
\* a stutter of RawDisk.
LEMMA SameRequests ==
  ASSUME arg' = arg, store' = store, bdata' = bdata,
         \A b \in Bufs : arg[b] # None =>
            ((b \in InUse /\ idx0[b] \notin taken \cup Range(avail))'
               <=> (b \in InUse /\ idx0[b] \notin taken \cup Range(avail)))
  PROVE  UNCHANGED <<store, bdata, req>>
  <1>1. ASSUME NEW b \in Bufs, arg[b] # None
        PROVE  (b \in InUse /\ idx0[b] \notin taken \cup Range(avail))'
                 = (b \in InUse /\ idx0[b] \notin taken \cup Range(avail))
    BY Zenon, <1>1
  <1>2. req' = req
    BY Zenon, <1>1 DEF req
  <1>. QED BY Zenon, <1>2

\* virtio_disk_rw() is called: a request that is not done.
LEMMA CallMaps ==
  ASSUME IInv, IInv', NEW b \in Bufs, virtio_disk_rw(b)
  PROVE  Raw!RawNext
  <1>1. PICK write \in BOOLEAN, v \in Data :
           /\ arg' = [arg EXCEPT ![b] = [block |-> blockno[b], write |-> write]]
           /\ bdata' = [bdata EXCEPT ![b] = v]
    BY Zenon DEF virtio_disk_rw
  <1>2. /\ pc[b] = "idle" /\ store' = store /\ idx0' = idx0 /\ avail' = avail /\ taken' = taken
    BY Zenon DEF virtio_disk_rw, ringvars
  <1>3. arg[b] = None /\ b \notin InUse /\ blockno[b] \in Blocks
    BY Zenon, <1>2 DEF IInv, CallInv, InUse, Blocks
  <1>4. /\ arg'[b] = [block |-> blockno[b], write |-> write] /\ arg'[b] # None
        /\ \A c \in Bufs \ {b} : arg'[c] = arg[c]
    <2>1. [block |-> blockno[b], write |-> write] \in Args
      BY Zenon, <1>3 DEF Args
    <2>. QED BY Zenon, <1>1, <2>1, NoneAssumption DEF IInv, TypeInv
  <1>5. InUse' = InUse /\ Range(avail)' = Range(avail)
    BY Zenon, <1>2 DEF InUse
  <1>6. Request(b)' = [block |-> blockno[b], write |-> write, done |-> FALSE]
    <2>1. (b \in InUse /\ idx0[b] \notin taken \cup Range(avail))' = FALSE
      BY Zenon, <1>3, <1>5
    <2>2. arg'[b].block = blockno[b] /\ arg'[b].write = write
      BY <1>4
    <2>3. Request(b)' = [block |-> arg'[b].block, write |-> arg'[b].write,
                         done |-> (b \in InUse /\ idx0[b] \notin taken \cup Range(avail))']
      BY Zenon DEF Request
    <2>. QED BY Zenon, <2>1, <2>2, <2>3
  <1>7. \A c \in Bufs \ {b} : Request(c)' = Request(c)
    BY Zenon, <1>2, <1>4, <1>5 DEF Request
  <1>8. /\ req[b] = None
        /\ req' = [req EXCEPT ![b] = [block |-> blockno[b], write |-> write, done |-> FALSE]]
    <2>1. req' = [c \in Bufs |-> IF arg'[c] = None THEN None ELSE Request(c)']
      BY Zenon DEF req, Request
    <2>2. req = [c \in Bufs |-> IF arg[c] = None THEN None ELSE Request(c)]
      BY Zenon, Requests
    <2>. QED BY Zenon, <1>3, <1>4, <1>6, <1>7, <2>1, <2>2
  <1>9. Raw!Call(b, blockno[b], write, v)
    BY Zenon, <1>1, <1>2, <1>8 DEF Raw!Call
  <1>. QED BY Zenon, <1>3, <1>9 DEF Raw!RawNext

\* Marking a request done keeps its block and its direction.
LEMMA SetDone ==
  ASSUME NEW r, NEW k, NEW w, NEW x, NEW y, r = [block |-> k, write |-> w, done |-> x]
  PROVE  [r EXCEPT !.done = y] = [block |-> k, write |-> w, done |-> y]
  <1>1. DOMAIN r = {"block", "write", "done"}
    OBVIOUS
  <1>2. /\ [r EXCEPT !.done = y].done = y /\ [r EXCEPT !.done = y].block = k
        /\ [r EXCEPT !.done = y].write = w
    OBVIOUS
  <1>. QED BY <1>1, <1>2

\* The device's transfer is the transfer of the call that owns the descriptors.
LEMMA TransferMaps ==
  ASSUME IInv, IInv', NEW i \in Desc, dev_done(i)
  PROVE  Raw!RawNext
  <1>1. /\ i \in taken /\ taken' = taken \ {i} /\ avail' = avail /\ arg' = arg /\ idx0' = idx0
    BY Zenon DEF dev_done
  <1>2. PICK b \in Pending : /\ b \in InUse /\ idx0[b] = i
                             /\ op[i] = [arg |-> arg[b], buf |-> b]
    BY Zenon, <1>1, TakenRequest
  <1>3. /\ b \in Bufs /\ arg[b] \in Args /\ arg[b] # None
        /\ op[i].arg = arg[b] /\ op[i].buf = b
    BY <1>2, Chains, NoneAssumption
  <1>4. InUse' = InUse /\ Range(avail)' = Range(avail) /\ i \notin Range(avail)
    BY Zenon, <1>1 DEF InUse, IInv, RingInv
  <1>5. /\ Request(b) = [block |-> arg[b].block, write |-> arg[b].write, done |-> FALSE]
        /\ Request(b)' = [block |-> arg[b].block, write |-> arg[b].write, done |-> TRUE]
    <2>1. /\ (b \in InUse /\ idx0[b] \notin taken \cup Range(avail))' = TRUE
          /\ (b \in InUse /\ idx0[b] \notin taken \cup Range(avail)) = FALSE
      BY Zenon, <1>1, <1>2, <1>4
    <2>2. Request(b) = [block |-> arg[b].block, write |-> arg[b].write, done |-> FALSE]
      BY Zenon, <2>1 DEF Request
    <2>3. Request(b)' = [block |-> arg'[b].block, write |-> arg'[b].write, done |-> TRUE]
      BY Zenon, <2>1 DEF Request
    <2>4. Request(b)' = [block |-> arg[b].block, write |-> arg[b].write, done |-> TRUE]
      BY Zenon, <1>1, <2>3
    <2>. QED BY Zenon, <2>2, <2>4
  <1>6. ASSUME NEW c \in Bufs \ {b} PROVE Request(c)' = Request(c)
    <2>1. c \in InUse => idx0[c] # i
      BY Zenon, <1>2, OneHead
    <2>2. (c \in InUse /\ idx0[c] \notin taken \cup Range(avail))'
            = (c \in InUse /\ idx0[c] \notin taken \cup Range(avail))
      BY Zenon, <1>1, <1>4, <2>1
    <2>. QED BY Zenon, <1>1, <2>2 DEF Request
  <1>7. /\ req[b] = Request(b) /\ req[b] # None
        /\ req' = [req EXCEPT ![b].done = TRUE]
    <2>1. req' = [c \in Bufs |-> IF arg'[c] = None THEN None ELSE Request(c)']
      BY Zenon DEF req, Request
    <2>2. /\ req = [c \in Bufs |-> IF arg[c] = None THEN None ELSE Request(c)]
          /\ req[b] = Request(b) /\ req[b] # None
      BY Zenon, <1>3, Requests
    <2>3. req' = [req EXCEPT ![b] = Request(b)']
      BY Zenon, <1>1, <1>3, <1>6, <2>1, <2>2
    <2>4. [req[b] EXCEPT !.done = TRUE]
            = [block |-> arg[b].block, write |-> arg[b].write, done |-> TRUE]
      <3>1. req[b] = [block |-> arg[b].block, write |-> arg[b].write, done |-> FALSE]
        BY Zenon, <1>5, <2>2
      <3>2. PICK k, w, f, t, r : /\ k = arg[b].block /\ w = arg[b].write
                                 /\ f = FALSE /\ t = TRUE /\ r = req[b]
        OBVIOUS
      <3>3. r = [block |-> k, write |-> w, done |-> f]
        BY Zenon, <3>1, <3>2
      <3>4. [r EXCEPT !.done = t] = [block |-> k, write |-> w, done |-> t]
        BY <3>3, SetDone
      <3>. QED BY Zenon, <3>2, <3>4
    <2>5. Request(b)' = [req[b] EXCEPT !.done = TRUE]
      BY Zenon, <1>5, <2>4
    <2>. QED BY Zenon, <2>2, <2>3, <2>5
  <1>8. req[b].block = arg[b].block /\ req[b].write = arg[b].write /\ ~req[b].done
    BY <1>5, <1>7 DEF Request
  <1>9. IF req[b].write
        THEN store' = [store EXCEPT ![req[b].block] = bdata[b]] /\ bdata' = bdata
        ELSE bdata' = [bdata EXCEPT ![b] = store[req[b].block]] /\ store' = store
    BY Zenon, <1>3, <1>8 DEF dev_done
  <1>10. Raw!Transfer(b)
    BY Zenon, <1>7, <1>8, <1>9 DEF Raw!Transfer
  <1>. QED BY Zenon, <1>3, <1>10 DEF Raw!RawNext

\* virtio_disk_rw() returns after the transfer: b->disk is clear only when its
\* request has left the available ring and the device.
LEMMA ReturnMaps ==
  ASSUME IInv, IInv', NEW b \in Bufs, rw_done(b)
  PROVE  Raw!RawNext
  <1>1. /\ pc[b] = "woken" /\ ~disk[b]
        /\ idx0' = [idx0 EXCEPT ![b] = None] /\ arg' = [arg EXCEPT ![b] = None]
        /\ avail' = avail /\ taken' = taken /\ bdata' = bdata /\ store' = store
    BY Zenon DEF rw_done, Finished, ringvars
  <1>2. b \in InUse /\ arg[b] # None
    BY Zenon, <1>1 DEF IInv, CallInv, InUse
  <1>3. idx0[b] \notin taken \cup Range(avail)
    <2>1. idx0[b] \in Desc /\ b \notin Pending
      BY Zenon, <1>1, <1>2, Chains DEF Pending
    <2>2. ASSUME NEW c \in Pending, idx0[c] = idx0[b] PROVE c = b
      <3>1. c \in InUse
        BY Zenon DEF IInv, RingInv
      <3>. QED BY Zenon, <1>2, <2>2, <3>1, OneHead
    <2>. QED BY ZenonT(60), <2>1, <2>2 DEF IInv, RingInv
  <1>4. /\ arg'[b] = None /\ \A c \in Bufs \ {b} : arg'[c] = arg[c] /\ idx0'[c] = idx0[c]
    BY Zenon, <1>1 DEF IInv, TypeInv
  <1>5. Range(avail)' = Range(avail) /\ \A c \in Bufs \ {b} : c \in InUse' <=> c \in InUse
    BY Zenon, <1>1, <1>4 DEF InUse
  <1>6. \A c \in Bufs \ {b} : Request(c)' = Request(c)
    BY Zenon, <1>1, <1>4, <1>5 DEF Request
  <1>7. /\ req[b] # None /\ req[b].done /\ req' = [req EXCEPT ![b] = None]
    <2>1. req' = [c \in Bufs |-> IF arg'[c] = None THEN None ELSE Request(c)']
      BY Zenon DEF req, Request
    <2>2. /\ req = [c \in Bufs |-> IF arg[c] = None THEN None ELSE Request(c)]
          /\ req[b] = Request(b) /\ req[b] # None
      BY Zenon, <1>2, Requests
    <2>3. req[b].done
      BY Zenon, <1>2, <1>3, <2>2 DEF Request
    <2>4. req' = [req EXCEPT ![b] = None]
      BY Zenon, <1>4, <1>6, <2>1, <2>2
    <2>. QED BY Zenon, <2>2, <2>3, <2>4
  <1>8. Raw!Return(b)
    BY Zenon, <1>1, <1>7 DEF Raw!Return
  <1>. QED BY Zenon, <1>8 DEF Raw!RawNext

\* The other steps are internal to the driver and the device.
LEMMA Simulation ==
  ASSUME IInv, IInv', [Next]_vars
  PROVE  [Raw!RawNext]_<<store, bdata, req>>
  <1>1. ASSUME NEW b \in Bufs, rw_submit(b) PROVE UNCHANGED <<store, bdata, req>>
    <2>1. PICK i \in free : /\ avail' = Append(avail, i)
                            /\ idx0' = [idx0 EXCEPT ![b] = i]
      BY <1>1, Zenon DEF rw_submit
    <2>2. pc[b] = "rw" /\ taken' = taken /\ arg' = arg /\ store' = store /\ bdata' = bdata
      BY Zenon, <1>1 DEF rw_submit
    <2>3. i \in Desc /\ Range(avail)' = Range(avail) \cup {i}
      BY <2>1, AppendRange DEF IInv, TypeInv
    <2>4. b \notin InUse /\ idx0'[b] = i /\ \A c \in Bufs \ {b} : idx0'[c] = idx0[c]
      BY Zenon, <2>1, <2>2 DEF IInv, TypeInv, CallInv, InUse
    <2>5. ASSUME NEW c \in InUse PROVE c # b /\ idx0[c] # i
      <3>1. idx0[c] \notin free
        BY Zenon, Chains DEF free_chain
      <3>. QED BY Zenon, <2>4, <3>1
    <2>6. \A c \in Bufs \ {b} : c \in InUse' <=> c \in InUse
      BY Zenon, <2>4 DEF InUse
    <2>7. ASSUME NEW c \in Bufs
          PROVE  (c \in InUse /\ idx0[c] \notin taken \cup Range(avail))'
                   <=> (c \in InUse /\ idx0[c] \notin taken \cup Range(avail))
      BY Zenon, <2>2, <2>3, <2>4, <2>5, <2>6
    <2>. QED BY Zenon, <2>2, <2>7, SameRequests
  <1>2. CASE dev_take
    <2>1. /\ avail # <<>> /\ taken' = taken \cup {Head(avail)} /\ avail' = Tail(avail)
          /\ arg' = arg /\ idx0' = idx0 /\ store' = store /\ bdata' = bdata
      BY Zenon, <1>2 DEF dev_take
    <2>2. (taken \cup Range(avail))' = taken \cup Range(avail) /\ InUse' = InUse
      <3>1. Head(avail) \in Range(avail) /\ Range(Tail(avail)) = Range(avail) \ {Head(avail)}
        BY Zenon, <2>1, TailRange DEF IInv, TypeInv, RingInv
      <3>. QED BY Zenon, <2>1, <3>1 DEF InUse
    <2>. QED BY Zenon, <2>1, <2>2, SameRequests
  <1>3. ASSUME \/ UNCHANGED vars \/ intr_ack \/ intr_used \/ intr_return
               \/ \E b \in Bufs : rw_full(b) \/ rw_again(b) \/ kill(b)
        PROVE  UNCHANGED <<store, bdata, req>>
    <2>1. /\ avail' = avail /\ taken' = taken /\ arg' = arg /\ idx0' = idx0
          /\ store' = store /\ bdata' = bdata
      BY Zenon, <1>3 DEF vars, ringvars, intr_ack, intr_used, intr_return, rw_full, rw_again, kill
    <2>2. (taken \cup Range(avail))' = taken \cup Range(avail) /\ InUse' = InUse
      BY Zenon, <2>1 DEF InUse
    <2>. QED BY Zenon, <2>1, <2>2, SameRequests
  <1>. QED BY Zenon, <1>1, <1>2, <1>3, CallMaps, TransferMaps, ReturnMaps
           DEF Next, CallerStep, IntrStep

\* Whatever the order in which the device completes requests, whatever wakes the
\* callers and however the handler, the device and the callers interleave, a call
\* of virtio_disk_rw() is one transfer between its buffer and its block, made
\* between the call and the return: VirtioDisk implements RawDisk.
THEOREM OneTransferPerCall == Spec => OneTransfer
  <1>1. Init => Raw!RawInit
    <2> SUFFICES ASSUME Init PROVE Raw!RawInit
      OBVIOUS
    <2>1. (CHOOSE v \in Data : TRUE) \in Data
      BY DataAssumption, Zenon
    <2>2. Raw!InitStore
      BY Zenon, <2>1 DEF Init, Raw!InitStore
    <2>3. req = [b \in Bufs |-> None]
      BY Zenon DEF Init, req
    <2>. QED BY Zenon, <2>2, <2>3 DEF Raw!RawInit
  <1>2. IInv /\ IInv' /\ [Next]_vars => [Raw!RawNext]_<<store, bdata, req>>
    BY Zenon, Simulation
  <1>. QED BY <1>1, <1>2, Invariance, PTL DEF Spec, OneTransfer, Raw!RawSpec
=============================================================================
