----------------------------- MODULE FileLemmas -----------------------------
(***************************************************************************)
(* The inductive invariant of File, and the lemmas that FileProofs needs:  *)
(* the arithmetic of a ring whose counters wrap; what each step of         *)
(* piperead(), pipewrite(), kill() and pipeclose() does to the rings and   *)
(* the sleepers; how many references there are after each change of the    *)
(* descriptors; and what fileclose() does to the ends of the pipes.        *)
(***************************************************************************)
EXTENDS File, FiniteSetTheorems, TLAPS

(* Arithmetic of the ring *)

\* Division with remainder.
LEMMA ModDef ==
    ASSUME NEW a \in Nat, NEW b \in Nat, b > 0
    PROVE  \E q \in Nat, r \in 0 .. b - 1 : r = a % b /\ a = b * q + r
  <1>1. PICK q \in Nat : q = a \div b
    OBVIOUS
  <1>2. PICK r \in 0 .. b - 1 : r = a % b
    OBVIOUS
  <1>3. a = b * q + r
    BY <1>1, <1>2
  <1>. QED BY <1>2, <1>3

\* The remainder is unique.
LEMMA ModUnique ==
    ASSUME NEW b \in Nat, b > 0, NEW q \in Int, NEW r \in 0 .. b - 1, NEW s \in Int, NEW t \in 0 .. b - 1,
           b * q + r = b * s + t
    PROVE  r = t
  <1>1. b * (q - s) = t - r
    OBVIOUS
  <1>2. CASE q - s >= 1
    <2>1. b * (q - s) >= b
      BY <1>2
    <2>. QED BY <1>1, <2>1
  <1>3. CASE q - s <= -1
    <2>1. b * (q - s) <= -b
      BY <1>3
    <2>. QED BY <1>1, <2>1
  <1>4. q = s
    BY <1>2, <1>3
  <1>. QED BY <1>1, <1>4

\* A number with a known quotient has that remainder.
LEMMA ModOf ==
    ASSUME NEW b \in Nat, b > 0, NEW q \in Nat, NEW r \in 0 .. b - 1, NEW a, a = b * q + r
    PROVE  a % b = r
  <1>1. a \in Nat
    OBVIOUS
  <1>2. PICK s \in Nat, t \in 0 .. b - 1 : t = a % b /\ a = b * s + t
    BY <1>1, ModDef, Zenon
  <1>3. b * q + r = b * s + t /\ q \in Int /\ s \in Int
    BY <1>2
  <1>4. r = t
    BY <1>3, ModUnique, Zenon
  <1>. QED BY <1>2, <1>4

\* The wrap of the counters does not disturb a place in the ring: pi->nwrite % PIPESIZE
\* is the position in the stream modulo PIPESIZE.
LEMMA ModMod ==
    ASSUME NEW x \in Nat
    PROVE  (x % Wrap) % PIPESIZE = x % PIPESIZE
  <1>1. PICK q \in Nat : Wrap = PIPESIZE * q
    <2>1. PICK q \in Nat, r \in 0 .. PIPESIZE - 1 : r = Wrap % PIPESIZE /\ Wrap = PIPESIZE * q + r
      BY WrapAssumption, ModDef
    <2>. QED BY <2>1, WrapAssumption
  <1>2. PICK s \in Nat, y \in 0 .. Wrap - 1 : y = x % Wrap /\ x = Wrap * s + y
    BY WrapAssumption, ModDef
  <1>3. PICK u \in Nat, r \in 0 .. PIPESIZE - 1 : r = y % PIPESIZE /\ y = PIPESIZE * u + r
    BY WrapAssumption, ModDef
  <1>4. x = PIPESIZE * (q * s + u) + r
    <2>1. PICK m \in Nat : m = q * s
      OBVIOUS
    <2>2. (PIPESIZE * q) * s = PIPESIZE * m
      BY <2>1, WrapAssumption
    <2>3. PIPESIZE * (m + u) = PIPESIZE * m + PIPESIZE * u
      BY WrapAssumption
    <2>4. Wrap * s = PIPESIZE * m
      BY <1>1, <2>2
    <2>5. PICK pm \in Int, pu \in Int : pm = PIPESIZE * m /\ pu = PIPESIZE * u
      BY WrapAssumption
    <2>6. x = pm + (pu + r)
      BY <1>2, <1>3, <2>4, <2>5, WrapAssumption
    <2>7. PIPESIZE * (m + u) = pm + pu
      BY <2>3, <2>5
    <2>. QED BY <2>1, <2>5, <2>6, <2>7
  <1>5. q * s + u \in Nat
    OBVIOUS
  <1>6. x % PIPESIZE = r
    BY <1>4, <1>5, <1>3, WrapAssumption, ModOf
  <1>. QED BY <1>2, <1>3, <1>6

\* Positions less than PIPESIZE apart have different places in the ring.
LEMMA ModApart ==
    ASSUME NEW x \in Nat, NEW y \in Nat, x < y, y < x + PIPESIZE
    PROVE  x % PIPESIZE # y % PIPESIZE
  <1>1. PICK q \in Nat, r \in 0 .. PIPESIZE - 1 : x = PIPESIZE * q + r /\ r = x % PIPESIZE
    BY WrapAssumption, ModDef
  <1>2. PICK s \in Nat, t \in 0 .. PIPESIZE - 1 : y = PIPESIZE * s + t /\ t = y % PIPESIZE
    BY WrapAssumption, ModDef
  <1>3. SUFFICES ASSUME r = t PROVE FALSE
    BY <1>1, <1>2
  <1>4. PIPESIZE * (s - q) = y - x
    BY <1>1, <1>2, <1>3, WrapAssumption
  <1>5. CASE s - q >= 1
    <2>1. PIPESIZE * (s - q) >= PIPESIZE
      BY <1>5, WrapAssumption
    <2>. QED BY <1>4, <2>1, WrapAssumption
  <1>6. CASE s - q <= 0
    <2>1. PIPESIZE * (s - q) <= 0
      BY <1>6, WrapAssumption
    <2>. QED BY <1>4, <2>1, WrapAssumption
  <1>. QED BY <1>5, <1>6

\* A counter wraps at most once.
LEMMA ModSmall ==
    ASSUME NEW x \in Nat, x < 2 * Wrap
    PROVE  x % Wrap = IF x < Wrap THEN x ELSE x - Wrap
  <1>1. CASE x < Wrap
    <2>1. x = Wrap * 0 + x /\ x \in 0 .. Wrap - 1
      BY <1>1, WrapAssumption
    <2>2. (Wrap * 0 + x) % Wrap = x
      BY <2>1, WrapAssumption, ModOf
    <2>. QED BY <2>1, <2>2, <1>1
  <1>2. CASE ~(x < Wrap)
    <2>1. x = Wrap * 1 + (x - Wrap) /\ x - Wrap \in 0 .. Wrap - 1
      BY <1>2, WrapAssumption
    <2>2. (Wrap * 1 + (x - Wrap)) % Wrap = x - Wrap
      BY <2>1, WrapAssumption, ModOf
    <2>. QED BY <2>1, <2>2, <1>2
  <1>. QED BY <1>1, <1>2

\* nwrite is u positions after nread exactly if the pipe holds u bytes.
LEMMA Distance ==
    ASSUME NEW a \in 0 .. Wrap - 1, NEW w \in 0 .. Wrap - 1, NEW u \in 0 .. Wrap - 1
    PROVE  w = (a + u) % Wrap <=> u = (w + Wrap - a) % Wrap
  <1>1. PICK x \in Nat : x = a + u /\ x < 2 * Wrap
    BY WrapAssumption
  <1>2. PICK y \in Nat : y = w + Wrap - a /\ y < 2 * Wrap
    BY WrapAssumption
  <1>3. x % Wrap = IF x < Wrap THEN x ELSE x - Wrap
    BY <1>1, ModSmall
  <1>4. y % Wrap = IF y < Wrap THEN y ELSE y - Wrap
    BY <1>2, ModSmall
  <1>5. w = x % Wrap <=> u = y % Wrap
    BY <1>1, <1>2, <1>3, <1>4, WrapAssumption
  <1>. QED BY <1>1, <1>2, <1>5

\* Steps along the ring add up.
LEMMA Along ==
    ASSUME NEW a \in 0 .. Wrap - 1, NEW u \in Nat, NEW k \in Nat, u + k <= PIPESIZE
    PROVE  (((a + u) % Wrap) + k) % Wrap = (a + (u + k)) % Wrap
  <1>1. PICK x \in Nat : x = a + u /\ x < 2 * Wrap
    BY WrapAssumption
  <1>2. x % Wrap = IF x < Wrap THEN x ELSE x - Wrap
    BY <1>1, ModSmall
  <1>3. PICK y \in Nat : y = (x % Wrap) + k /\ y < 2 * Wrap
    <2>1. PICK m \in 0 .. Wrap - 1 : m = x % Wrap
      BY <1>1, <1>2, WrapAssumption
    <2>2. m + k \in Nat /\ m + k < 2 * Wrap
      BY WrapAssumption
    <2>. QED BY <2>1, <2>2
  <1>4. PICK z \in Nat : z = a + (u + k) /\ z < 2 * Wrap
    BY WrapAssumption
  <1>5. y % Wrap = IF y < Wrap THEN y ELSE y - Wrap
    BY <1>3, ModSmall
  <1>6. z % Wrap = IF z < Wrap THEN z ELSE z - Wrap
    BY <1>4, ModSmall
  <1>7. y % Wrap = z % Wrap
    BY <1>1, <1>2, <1>3, <1>4, <1>5, <1>6, WrapAssumption
  <1>. QED BY <1>1, <1>3, <1>4, <1>7

\* A counter within its range does not wrap.
LEMMA NoWrap ==
    ASSUME NEW a \in 0 .. Wrap - 1
    PROVE  (a + 0) % Wrap = a /\ (a + Wrap - a) % Wrap = 0
  <1>1. a \in Nat /\ a < 2 * Wrap /\ a < Wrap /\ a + 0 = a /\ 0 \in 0 .. Wrap - 1
    BY WrapAssumption
  <1>2. a % Wrap = a
    BY <1>1, ModSmall
  <1>3. 0 = (a + Wrap - a) % Wrap
    BY <1>1, <1>2, Distance
  <1>. QED BY <1>1, <1>2, <1>3

\* Two positions of the stream less than PIPESIZE apart have different places.
LEMMA PlacesApart ==
    ASSUME NEW a \in Nat, NEW k \in Nat, NEW l \in Nat, k < l, l < k + PIPESIZE
    PROVE  ((a + k) % Wrap) % PIPESIZE # ((a + l) % Wrap) % PIPESIZE
  <1>1. PICK x \in Nat, y \in Nat : x = a + k /\ y = a + l /\ x < y /\ y < x + PIPESIZE
    BY WrapAssumption
  <1>2. x % PIPESIZE # y % PIPESIZE
    BY <1>1, ModApart
  <1>3. (x % Wrap) % PIPESIZE = x % PIPESIZE /\ (y % Wrap) % PIPESIZE = y % PIPESIZE
    BY ModMod
  <1>. QED BY <1>1, <1>2, <1>3

-----------------------------------------------------------------------------

(* The ring of a pipe *)

\* The ring with counters nread = a and nwrite = w: RingIsStream for one pipe.
Ring(a, w, data) ==
    LET used == (w + Wrap - a) % Wrap
    IN  /\ used <= PIPESIZE
        /\ \A k \in 0 .. used - 1 :
              LET n == (a + k) % Wrap IN data[n % PIPESIZE] = n

\* The same for a ring that holds u bytes.
Holds(a, w, data, u) ==
    /\ w = (a + u) % Wrap
    /\ \A k \in 0 .. u - 1 : data[((a + k) % Wrap) % PIPESIZE] = (a + k) % Wrap

\* A ring holds at most PIPESIZE bytes.
LEMMA RingHolds ==
    ASSUME NEW a \in 0 .. Wrap - 1, NEW w \in 0 .. Wrap - 1, NEW data, Ring(a, w, data)
    PROVE  \E u \in 0 .. PIPESIZE : Holds(a, w, data, u)
  <1>1. PICK v \in 0 .. Wrap - 1 : v = (w + Wrap - a) % Wrap
    BY WrapAssumption
  <1>2. w = (a + v) % Wrap
    BY <1>1, Distance
  <1>3. v <= PIPESIZE /\ \A k \in 0 .. v - 1 : data[((a + k) % Wrap) % PIPESIZE] = (a + k) % Wrap
    BY <1>1 DEF Ring
  <1>4. v \in 0 .. PIPESIZE
    BY <1>3, WrapAssumption
  <1>. QED BY <1>2, <1>3, <1>4, Zenon DEF Holds

\* What holds at most PIPESIZE bytes is a ring.
LEMMA HoldsRing ==
    ASSUME NEW a \in 0 .. Wrap - 1, NEW w \in 0 .. Wrap - 1, NEW data,
           NEW u \in 0 .. PIPESIZE, Holds(a, w, data, u)
    PROVE  Ring(a, w, data) /\ u = (w + Wrap - a) % Wrap
  <1>1. u \in 0 .. Wrap - 1 /\ u <= PIPESIZE
    BY WrapAssumption
  <1>2. u = (w + Wrap - a) % Wrap
    BY <1>1, Distance DEF Holds
  <1>. QED BY <1>1, <1>2, Zenon DEF Ring, Holds

\* piperead() takes k of the bytes.
LEMMA RingTake ==
    ASSUME NEW a \in 0 .. Wrap - 1, NEW w \in 0 .. Wrap - 1, NEW data, Ring(a, w, data),
           NEW k \in Nat, k <= (w + Wrap - a) % Wrap
    PROVE  Ring((a + k) % Wrap, w, data)
  <1>1. PICK u \in 0 .. PIPESIZE : Holds(a, w, data, u)
    BY RingHolds, Zenon
  <1>2. u = (w + Wrap - a) % Wrap
    BY <1>1, HoldsRing, Zenon
  <1>3. k <= u
    BY <1>2
  <1>4. PICK v \in 0 .. PIPESIZE : v = u - k /\ k + v = u
    BY <1>3, WrapAssumption
  <1>5. PICK b \in 0 .. Wrap - 1 : b = (a + k) % Wrap
    BY WrapAssumption
  <1>6. w = (b + v) % Wrap
    <2>1. k + v <= PIPESIZE /\ v \in Nat
      BY <1>4, WrapAssumption
    <2>2. (((a + k) % Wrap) + v) % Wrap = (a + (k + v)) % Wrap
      BY <2>1, Along
    <2>. QED BY <2>2, <1>1, <1>4, <1>5 DEF Holds
  <1>7. ASSUME NEW i \in 0 .. v - 1
        PROVE  data[((b + i) % Wrap) % PIPESIZE] = (b + i) % Wrap
    <2>1. k + i <= PIPESIZE /\ k + i \in 0 .. u - 1 /\ i \in Nat
      BY <1>4, WrapAssumption
    <2>2. (((a + k) % Wrap) + i) % Wrap = (a + (k + i)) % Wrap
      BY <2>1, Along
    <2>3. data[((a + (k + i)) % Wrap) % PIPESIZE] = (a + (k + i)) % Wrap
      BY <1>1, <2>1, Zenon DEF Holds
    <2>. QED BY <2>2, <2>3, <1>5
  <1>8. \A i \in 0 .. v - 1 : data[((b + i) % Wrap) % PIPESIZE] = (b + i) % Wrap
    BY <1>7, Zenon
  <1>9. Holds(b, w, data, v)
    BY <1>6, <1>8, Zenon DEF Holds
  <1>10. Ring(b, w, data)
    BY <1>9, HoldsRing, Zenon
  <1>. QED BY <1>5, <1>10

\* pipewrite() stores n bytes, none of them while the pipe is full.
LEMMA RingStore ==
    ASSUME NEW r, r.nread \in 0 .. Wrap - 1, r.nwrite \in 0 .. Wrap - 1,
           Ring(r.nread, r.nwrite, r.data),
           NEW n \in Nat, \A k \in 0 .. n - 1 : (r.nwrite + k) % Wrap # (r.nread + PIPESIZE) % Wrap
    PROVE  Ring(r.nread, (r.nwrite + n) % Wrap, Put(r, n))
  <1>1. PICK a \in 0 .. Wrap - 1, w \in 0 .. Wrap - 1 : a = r.nread /\ w = r.nwrite
    OBVIOUS
  <1>2. PICK u \in 0 .. PIPESIZE : Holds(a, w, r.data, u)
    <2>1. Ring(a, w, r.data)
      BY <1>1
    <2>. QED BY <2>1, RingHolds, Zenon
  <1>3. ASSUME NEW k \in Nat, u + k <= PIPESIZE
        PROVE  (w + k) % Wrap = (a + (u + k)) % Wrap
    <2>1. u \in Nat
      BY WrapAssumption
    <2>2. (((a + u) % Wrap) + k) % Wrap = (a + (u + k)) % Wrap
      BY <2>1, <1>3, Along, Zenon
    <2>. QED BY <2>2, <1>2 DEF Holds
  <1>4. u + n <= PIPESIZE
    <2>1. SUFFICES ASSUME n > PIPESIZE - u PROVE FALSE
      BY WrapAssumption
    <2>2. PICK k \in 0 .. n - 1 : k = PIPESIZE - u /\ k \in Nat /\ u + k = PIPESIZE
      BY <2>1, WrapAssumption
    <2>3. u + k <= PIPESIZE
      BY <2>2, WrapAssumption
    <2>4. (w + k) % Wrap = (a + (u + k)) % Wrap
      BY <2>2, <2>3, <1>3, Zenon
    <2>. QED BY <2>2, <2>4, <1>1, Zenon
  <1>5. PICK v \in 0 .. PIPESIZE : v = u + n
    BY <1>4, WrapAssumption
  <1>6. (w + n) % Wrap = (a + v) % Wrap
    BY <1>3, <1>4, <1>5
  <1>7. ASSUME NEW k \in 0 .. v - 1
        PROVE  Put(r, n)[((a + k) % Wrap) % PIPESIZE] = (a + k) % Wrap
    <2>1. PICK x \in 0 .. Wrap - 1 : x = (a + k) % Wrap
      <3>1. PICK y \in Nat : y = a + k
        BY WrapAssumption
      <3>2. y % Wrap \in 0 .. Wrap - 1
        BY WrapAssumption
      <3>. QED BY <3>1, <3>2
    <2>2. PICK c \in 0 .. PIPESIZE - 1 : c = x % PIPESIZE
      BY WrapAssumption
    <2>. DEFINE here == {i \in 0 .. n - 1 : ((r.nwrite + i) % Wrap) % PIPESIZE = c}
    <2>3. Put(r, n)[c] = IF here = {} THEN r.data[c]
                         ELSE (r.nwrite + CHOOSE i \in here : \A j \in here : j <= i) % Wrap
      BY Zenon DEF Put
    <2>4. ASSUME NEW i \in 0 .. n - 1
          PROVE  /\ (w + i) % Wrap = (a + (u + i)) % Wrap
                 /\ u + i # k => ((r.nwrite + i) % Wrap) % PIPESIZE # c
      <3>1. i \in Nat /\ u + i <= PIPESIZE
        BY <1>4, WrapAssumption
      <3>2. (w + i) % Wrap = (a + (u + i)) % Wrap
        BY <3>1, <1>3
      <3>3. PICK m \in Nat : m = u + i /\ m < PIPESIZE
        BY <1>4, WrapAssumption
      <3>4. k \in Nat /\ k < PIPESIZE /\ a \in Nat
        BY <1>5, WrapAssumption
      <3>5. CASE m < k
        <4>1. k < m + PIPESIZE
          BY <3>3, <3>4, WrapAssumption
        <4>2. ((a + m) % Wrap) % PIPESIZE # ((a + k) % Wrap) % PIPESIZE
          BY <3>4, <3>5, <4>1, PlacesApart
        <4>. QED BY <3>2, <3>3, <4>2, <1>1, <2>1, <2>2
      <3>6. CASE k < m
        <4>1. m < k + PIPESIZE
          BY <3>3, <3>4, WrapAssumption
        <4>2. ((a + k) % Wrap) % PIPESIZE # ((a + m) % Wrap) % PIPESIZE
          BY <3>4, <3>6, <4>1, PlacesApart
        <4>. QED BY <3>2, <3>3, <4>2, <1>1, <2>1, <2>2
      <3>7. CASE k = m
        BY <3>2, <3>3, <3>7
      <3>. QED BY <3>3, <3>4, <3>5, <3>6, <3>7
    <2>5. CASE k < u
      <3>1. \A i \in 0 .. n - 1 : u + i # k
        BY <2>5, WrapAssumption
      <3>2. here = {}
        BY <3>1, <2>4
      <3>3. k \in 0 .. u - 1
        BY <2>5, WrapAssumption
      <3>4. r.data[c] = x
        BY <3>3, <1>2, <2>1, <2>2, Zenon DEF Holds
      <3>. QED BY <3>2, <3>4, <2>3, <2>1, <2>2
    <2>6. CASE ~(k < u)
      <3>1. PICK m \in 0 .. n - 1 : u + m = k
        BY <2>6, <1>5, WrapAssumption
      <3>2. \A i \in 0 .. n - 1 : u + i = k => i = m
        BY <3>1, WrapAssumption
      <3>3. (w + m) % Wrap = x
        BY <3>1, <2>4, <2>1
      <3>4. m \in here
        BY <3>3, <2>1, <2>2, <1>1
      <3>5. here = {m}
        BY <3>2, <3>4, <2>4
      <3>6. (CHOOSE i \in here : \A j \in here : j <= i) = m
        BY <3>5
      <3>7. Put(r, n)[c] = (r.nwrite + m) % Wrap
        BY <3>4, <3>6, <2>3, Zenon
      <3>. QED BY <3>3, <3>7, <1>1, <2>1, <2>2
    <2>. QED BY <2>5, <2>6
  <1>8. \A k \in 0 .. v - 1 : Put(r, n)[((a + k) % Wrap) % PIPESIZE] = (a + k) % Wrap
    BY <1>7, Zenon
  <1>9. (w + n) % Wrap \in 0 .. Wrap - 1
    BY WrapAssumption
  <1>10. Holds(a, (w + n) % Wrap, Put(r, n), v)
    BY <1>6, <1>8, Zenon DEF Holds
  <1>11. Ring(a, (w + n) % Wrap, Put(r, n))
    BY <1>9, <1>10, HoldsRing, Zenon
  <1>. QED BY <1>1, <1>11

-----------------------------------------------------------------------------

(* Steps of a pipe *)

PipeType ==
    [alloc : BOOLEAN, nread : 0 .. Wrap - 1, nwrite : 0 .. Wrap - 1,
     readopen : BOOLEAN, writeopen : BOOLEAN, data : [0 .. PIPESIZE - 1 -> Nat]]

Places == {"none", "user", "pipe1", "pipe2", "close", "exit", "read", "write", "rsleep", "wsleep"}

\* Types of the pipes' variables.
PipesInv ==
    /\ pipe \in [Pipes -> PipeType]
    /\ pc \in [Procs -> Places]
    /\ cur \in [Procs -> Pipes]
    /\ left \in [Procs -> Nat]
    /\ killed \in [Procs -> BOOLEAN]

\* a process inside piperead() or pipewrite()
InCall(p) == pc[p] \in {"read", "write", "rsleep", "wsleep"}

\* What every step of piperead(), pipewrite() and kill() leaves alone.
SameEnds ==
    \A pi \in Pipes : /\ pipe'[pi].alloc = pipe[pi].alloc
                      /\ pipe'[pi].readopen = pipe[pi].readopen
                      /\ pipe'[pi].writeopen = pipe[pi].writeopen

CallsGoOn ==
    \A q \in Procs :
       pc'[q] = pc[q] \/ (InCall(q) /\ pc'[q] \in {"user", "read", "write", "rsleep", "wsleep"})

\* A set of numbers has a least one.
LEMMA Least ==
    ASSUME NEW T \in SUBSET Nat, T # {}
    PROVE  \E x \in T : \A y \in T : x <= y
  <1>. DEFINE R == OpToRel(<, Nat)
  <1>1. IsWellFoundedOn(R, Nat)
    BY Zenon, NatLessThanWellFounded
  <1>. HIDE DEF R
  <1>2. PICK x \in T : \A y \in T : <<y, x>> \notin R
    BY Zenon, <1>1, WFMin
  <1>3. ASSUME NEW y \in T PROVE ~(y < x)
    BY <1>2 DEF R, OpToRel
  <1>. QED BY <1>3

\* A bounded one has a greatest.
LEMMA Greatest ==
    ASSUME NEW n \in Nat, NEW T \in SUBSET (0 .. n - 1), T # {}
    PROVE  \E x \in T : \A y \in T : y <= x
  <1>. DEFINE U == {m \in Nat : m < n /\ n - 1 - m \in T}
  <1>1. ASSUME NEW t \in T PROVE n - 1 - t \in U
    OBVIOUS
  <1>2. PICK m \in U : \A y \in U : m <= y
    BY <1>1, Least
  <1>3. n - 1 - m \in T
    OBVIOUS
  <1>4. ASSUME NEW t \in T PROVE t <= n - 1 - m
    <2>1. m <= n - 1 - t
      BY <1>1, <1>2
    <2>. QED BY <2>1
  <1>. QED BY <1>3, <1>4

\* Put() fills places of the ring.
LEMMA PutType ==
    ASSUME NEW r, r.nwrite \in 0 .. Wrap - 1, r.data \in [0 .. PIPESIZE - 1 -> Nat], NEW n \in Nat
    PROVE  Put(r, n) \in [0 .. PIPESIZE - 1 -> Nat]
  <1>1. ASSUME NEW c \in 0 .. PIPESIZE - 1 PROVE Put(r, n)[c] \in Nat
    <2>. DEFINE here == {i \in 0 .. n - 1 : ((r.nwrite + i) % Wrap) % PIPESIZE = c}
    <2>1. Put(r, n)[c] = IF here = {} THEN r.data[c]
                         ELSE (r.nwrite + CHOOSE i \in here : \A j \in here : j <= i) % Wrap
      BY Zenon DEF Put
    <2>2. here \in SUBSET (0 .. n - 1)
      OBVIOUS
    <2>. HIDE DEF here
    <2>3. CASE here = {}
      BY <2>1, <2>3
    <2>4. CASE here # {}
      <3>1. PICK i \in here : i = CHOOSE k \in here : \A j \in here : j <= k
        BY <2>2, <2>4, Greatest, Zenon
      <3>2. i \in Nat
        BY <2>2
      <3>3. (r.nwrite + i) % Wrap \in Nat
        <4>1. PICK x \in Nat : x = r.nwrite + i
          BY <3>2, WrapAssumption
        <4>. QED BY <4>1, WrapAssumption
      <3>. QED BY <2>1, <2>4, <3>1, <3>3, Zenon
    <2>. QED BY <2>3, <2>4
  <1>2. Put(r, n) = [c \in 0 .. PIPESIZE - 1 |-> Put(r, n)[c]]
    BY DEF Put
  <1>. QED BY <1>1, <1>2

\* A step that stores bytes in pipe pi.
LEMMA StoreEffect ==
    ASSUME pipe \in [Pipes -> PipeType], NEW pi \in Pipes, NEW n \in Nat, Store(pi, n)
    PROVE  /\ pipe' \in [Pipes -> PipeType]
           /\ SameEnds
           /\ \A q \in Pipes : q # pi => pipe'[q] = pipe[q]
           /\ \A q \in Pipes : pipe'[q].nread = pipe[q].nread
           /\ pipe'[pi].nwrite = (pipe[pi].nwrite + n) % Wrap
           /\ pipe'[pi].data = Put(pipe[pi], n)
  <1>1. PICK w \in 0 .. Wrap - 1 : w = (pipe[pi].nwrite + n) % Wrap
    <2>1. PICK x \in Nat : x = pipe[pi].nwrite + n
      BY WrapAssumption DEF PipeType
    <2>. QED BY <2>1, WrapAssumption
  <1>2. PICK d \in [0 .. PIPESIZE - 1 -> Nat] : d = Put(pipe[pi], n)
    BY PutType DEF PipeType
  <1>3. pipe' = [pipe EXCEPT ![pi] = [pipe[pi] EXCEPT !.data = d, !.nwrite = w]]
    BY <1>1, <1>2 DEF Store, After
  <1>4. pipe[pi] \in PipeType
    OBVIOUS
  <1>5. PICK r : r = [pipe[pi] EXCEPT !.data = d, !.nwrite = w]
    OBVIOUS
  <1>6. /\ r \in PipeType /\ r.nread = pipe[pi].nread /\ r.nwrite = w /\ r.data = d
        /\ r.alloc = pipe[pi].alloc /\ r.readopen = pipe[pi].readopen /\ r.writeopen = pipe[pi].writeopen
    BY <1>4, <1>5 DEF PipeType
  <1>7. pipe' = [pipe EXCEPT ![pi] = r]
    BY <1>3, <1>5
  <1>8. pipe'[pi] = r /\ \A q \in Pipes : q # pi => pipe'[q] = pipe[q]
    BY <1>7
  <1>9. pipe' \in [Pipes -> PipeType]
    BY <1>6, <1>7
  <1>. QED BY <1>1, <1>2, <1>6, <1>8, <1>9, Zenon DEF SameEnds

\* What a full pipe and a loop of pipewrite() depend on.
LEMMA AfterCounts ==
    ASSUME pipe \in [Pipes -> PipeType], NEW pi \in Pipes, NEW n \in Nat
    PROVE  /\ Full(After(pi, n)) <=>
                 (pipe[pi].nwrite + n) % Wrap = (pipe[pi].nread + PIPESIZE) % Wrap
           /\ n = 0 => (pipe[pi].nwrite + n) % Wrap = pipe[pi].nwrite
  <1>1. After(pi, n).nread = pipe[pi].nread /\ After(pi, n).nwrite = (pipe[pi].nwrite + n) % Wrap
    BY DEF After, PipeType
  <1>2. PICK w \in 0 .. Wrap - 1 : w = pipe[pi].nwrite
    BY DEF PipeType
  <1>3. (w + 0) % Wrap = w
    <2>1. w \in Nat /\ w < 2 * Wrap /\ w < Wrap /\ w + 0 = w
      BY WrapAssumption
    <2>. QED BY <2>1, ModSmall
  <1>. QED BY <1>1, <1>2, <1>3 DEF Full

\* A process that finds the pipe full stores nothing.
LEMMA FullNoStore ==
    ASSUME PipesInv, NEW p \in Procs, NEW n \in Chunks(p), Full(pipe[cur[p]])
    PROVE  n = 0
  <1>1. n \in Nat /\ cur[p] \in Pipes /\ \A k \in 0 .. n - 1 : ~Full(After(cur[p], k))
    BY DEF Chunks, PipesInv
  <1>2. Full(After(cur[p], 0))
    BY <1>1, AfterCounts DEF Full, PipesInv
  <1>3. n # 0 => 0 \in 0 .. n - 1
    BY <1>1
  <1>. QED BY <1>1, <1>2, <1>3, Zenon

\* The rings, one by one.
LEMMA Rings ==
    RingIsStream <=> \A pi \in Pipes : Ring(pipe[pi].nread, pipe[pi].nwrite, pipe[pi].data)
  BY Zenon DEF RingIsStream, Ring, Used

\* A loop of pipewrite() keeps the ring.
LEMMA StoreRing ==
    ASSUME PipesInv, RingIsStream, NEW p \in Procs, NEW n \in Chunks(p), Store(cur[p], n)
    PROVE  RingIsStream'
  <1>1. n \in Nat /\ cur[p] \in Pipes /\ \A k \in 0 .. n - 1 : ~Full(After(cur[p], k))
    BY DEF Chunks, PipesInv
  <1>2. PICK pi \in Pipes : pi = cur[p]
    BY <1>1
  <1>3. pipe \in [Pipes -> PipeType] /\ Store(pi, n)
    BY <1>2 DEF PipesInv
  <1>4. \A k \in 0 .. n - 1 : (pipe[pi].nwrite + k) % Wrap # (pipe[pi].nread + PIPESIZE) % Wrap
    <2>1. \A k \in 0 .. n - 1 : k \in Nat
      BY <1>1
    <2>. QED BY <1>1, <1>2, <1>3, <2>1, AfterCounts, Zenon
  <1>5. pipe[pi].nread \in 0 .. Wrap - 1 /\ pipe[pi].nwrite \in 0 .. Wrap - 1
    BY <1>3 DEF PipeType
  <1>6. Ring(pipe[pi].nread, (pipe[pi].nwrite + n) % Wrap, Put(pipe[pi], n))
    BY <1>1, <1>4, <1>5, Rings, RingStore, Zenon
  <1>7. /\ \A q \in Pipes : q # pi => pipe'[q] = pipe[q]
        /\ \A q \in Pipes : pipe'[q].nread = pipe[q].nread
        /\ pipe'[pi].nwrite = (pipe[pi].nwrite + n) % Wrap
        /\ pipe'[pi].data = Put(pipe[pi], n)
    BY <1>1, <1>3, StoreEffect, Zenon
  <1>8. ASSUME NEW q \in Pipes
        PROVE  Ring(pipe'[q].nread, pipe'[q].nwrite, pipe'[q].data)
    BY <1>6, <1>7, Rings
  <1>. QED BY <1>8, Zenon DEF RingIsStream, Ring, Used

\* WakeGoto() moves p and the sleepers that it wakes.
LEMMA WakeEffect ==
    ASSUME PipesInv, NEW p \in Procs, NEW pi, NEW l \in {"rsleep", "wsleep"},
           NEW m \in {"user", "wsleep", "close", "exit"}, WakeGoto(pi, l, p, m)
    PROVE  /\ pc' \in [Procs -> Places]
           /\ pc'[p] = m
           /\ \A q \in Procs \ {p} :
                 \/ pc'[q] = pc[q] /\ ~(pc[q] = l /\ cur[q] = pi)
                 \/ pc[q] = l /\ cur[q] = pi /\ pc'[q] = IF l = "rsleep" THEN "read" ELSE "write"
  BY DEF WakeGoto, PipesInv, Places

\* Advancing nread of a pipe.
LEMMA PipeAdvance ==
    ASSUME NEW B, NEW N, NEW D,
           NEW r \in [alloc : B, nread : N, nwrite : N, readopen : B, writeopen : B, data : D],
           NEW a \in N, NEW t, t = [r EXCEPT !.nread = a]
    PROVE  /\ t \in [alloc : B, nread : N, nwrite : N, readopen : B, writeopen : B, data : D]
           /\ t.alloc = r.alloc /\ t.readopen = r.readopen /\ t.writeopen = r.writeopen
  OBVIOUS

\* What the steps inside a pipe do to the rest of the system.
LEMMA PipeStepFrame ==
    ASSUME PipesInv, NEW p \in Procs, PipeStep(p)
    PROVE  PipesInv' /\ SameEnds /\ CallsGoOn /\ cur' = cur
  <1>1. pipe \in [Pipes -> PipeType] /\ cur[p] \in Pipes /\ left[p] \in Nat
    BY DEF PipesInv
  <1>2. ASSUME NEW n \in Chunks(p), Store(cur[p], n)
        PROVE  pipe' \in [Pipes -> PipeType] /\ SameEnds
    <2>1. n \in Nat
      BY <1>1 DEF Chunks
    <2>. QED BY <1>1, <1>2, <2>1, StoreEffect, Zenon
  <1>3. CASE pipewrite_done(p)
    <2>1. /\ pc[p] = "write" /\ WakeGoto(cur[p], "rsleep", p, "user")
          /\ left' = [left EXCEPT ![p] = 0] /\ cur' = cur /\ killed' = killed
          /\ \E n \in Chunks(p) : Store(cur[p], n)
      BY <1>3, Zenon DEF pipewrite_done
    <2>2. CallsGoOn /\ pc' \in [Procs -> Places]
      BY <2>1, WakeEffect DEF CallsGoOn, InCall, Places
    <2>3. left' \in [Procs -> Nat]
      BY <2>1 DEF PipesInv
    <2>. QED BY <1>2, <2>1, <2>2, <2>3, Zenon DEF PipesInv
  <1>4. CASE pipewrite_full(p)
    <2>1. /\ pc[p] = "write" /\ WakeGoto(cur[p], "rsleep", p, "wsleep") /\ cur' = cur
          /\ \E k \in BOOLEAN : killed' = [killed EXCEPT ![p] = k]
          /\ \E n \in Chunks(p) : n < left[p] /\ Store(cur[p], n) /\ left' = [left EXCEPT ![p] = @ - n]
      BY <1>4, Zenon DEF pipewrite_full
    <2>2. CallsGoOn /\ pc' \in [Procs -> Places]
      BY <2>1, WakeEffect DEF CallsGoOn, InCall, Places
    <2>3. left' \in [Procs -> Nat]
      BY <2>1, <1>1 DEF PipesInv, Chunks
    <2>4. killed' \in [Procs -> BOOLEAN]
      BY <2>1 DEF PipesInv
    <2>. QED BY <1>2, <2>1, <2>2, <2>3, <2>4, Zenon DEF PipesInv
  <1>5. CASE pipewrite_fail(p)
    <2>1. /\ pc[p] = "write" /\ Goto(p, "user") /\ left' = [left EXCEPT ![p] = 0] /\ cur' = cur
          /\ killed' = killed \/ killed' = [killed EXCEPT ![p] = TRUE]
          /\ \E n \in Chunks(p) : Store(cur[p], n)
      BY <1>5, Zenon DEF pipewrite_fail
    <2>2. CallsGoOn /\ pc' \in [Procs -> Places]
      BY <2>1 DEF CallsGoOn, InCall, Goto, PipesInv, Places
    <2>3. left' \in [Procs -> Nat] /\ killed' \in [Procs -> BOOLEAN]
      BY <2>1 DEF PipesInv
    <2>. QED BY <1>2, <2>1, <2>2, <2>3, Zenon DEF PipesInv
  <1>6. CASE piperead_wait(p)
    <2>1. /\ pc[p] = "read" /\ (Goto(p, "user") \/ Goto(p, "rsleep"))
          /\ killed' = killed \/ \E k \in BOOLEAN : killed' = [killed EXCEPT ![p] = k]
          /\ pipe' = pipe /\ cur' = cur /\ left' = left
      BY <1>6, Zenon DEF piperead_wait
    <2>2. CallsGoOn /\ pc' \in [Procs -> Places]
      BY <2>1 DEF CallsGoOn, InCall, Goto, PipesInv, Places
    <2>3. killed' \in [Procs -> BOOLEAN]
      BY <2>1 DEF PipesInv
    <2>. QED BY <2>1, <2>2, <2>3, Zenon DEF PipesInv, SameEnds
  <1>7. CASE piperead_copy(p)
    <2>1. /\ pc[p] = "read" /\ WakeGoto(cur[p], "wsleep", p, "user")
          /\ left' = [left EXCEPT ![p] = 0] /\ cur' = cur /\ killed' = killed
      BY <1>7, Zenon DEF piperead_copy
    <2>2. PICK k \in 0 .. left[p] : pipe' = [pipe EXCEPT ![cur[p]].nread = (@ + k) % Wrap]
      BY <1>7, Zenon DEF piperead_copy
    <2>3. PICK a \in 0 .. Wrap - 1 : a = (pipe[cur[p]].nread + k) % Wrap
      <3>1. PICK x \in Nat : x = pipe[cur[p]].nread + k
        BY <1>1, WrapAssumption DEF PipeType
      <3>. QED BY <3>1, WrapAssumption
    <2>4. pipe' = [pipe EXCEPT ![cur[p]].nread = a]
      BY <2>2, <2>3
    <2>5. pipe' \in [Pipes -> PipeType] /\ SameEnds
      <3>1. PICK r : r = [pipe[cur[p]] EXCEPT !.nread = a]
        OBVIOUS
      <3>2. pipe' = [pipe EXCEPT ![cur[p]] = r]
        BY <1>1, <2>4, <3>1
      <3>3. pipe[cur[p]] \in PipeType
        BY <1>1, Zenon
      <3>4. /\ r \in PipeType /\ r.alloc = pipe[cur[p]].alloc
            /\ r.readopen = pipe[cur[p]].readopen /\ r.writeopen = pipe[cur[p]].writeopen
        BY <2>3, <3>1, <3>3, PipeAdvance, Zenon DEF PipeType
      <3>5. /\ pipe' \in [Pipes -> PipeType]
            /\ \A pi \in Pipes : pipe'[pi] = IF pi = cur[p] THEN r ELSE pipe[pi]
        BY <1>1, <3>2, <3>4
      <3>. QED BY <3>4, <3>5, Zenon DEF SameEnds
    <2>6. CallsGoOn /\ pc' \in [Procs -> Places]
      BY <2>1, WakeEffect DEF CallsGoOn, InCall, Places
    <2>7. left' \in [Procs -> Nat]
      BY <2>1 DEF PipesInv
    <2>. QED BY <2>1, <2>5, <2>6, <2>7, Zenon DEF PipesInv
  <1>8. CASE kill(p)
    <2>1. /\ killed' = [killed EXCEPT ![p] = TRUE] /\ pipe' = pipe /\ cur' = cur /\ left' = left
          /\ \/ pc[p] = "rsleep" /\ Goto(p, "read")
             \/ pc[p] = "wsleep" /\ Goto(p, "write")
             \/ Goto(p, pc[p])
      BY <1>8, Zenon DEF kill
    <2>2. CallsGoOn /\ pc' \in [Procs -> Places]
      BY <2>1 DEF CallsGoOn, InCall, Goto, PipesInv, Places
    <2>3. killed' \in [Procs -> BOOLEAN]
      BY <2>1 DEF PipesInv
    <2>. QED BY <2>1, <2>2, <2>3, Zenon DEF PipesInv, SameEnds
  <1>. QED BY <1>3, <1>4, <1>5, <1>6, <1>7, <1>8 DEF PipeStep

\* They keep every ring.
LEMMA PipeStepRing ==
    ASSUME PipesInv, RingIsStream, NEW p \in Procs, PipeStep(p)
    PROVE  RingIsStream'
  <1>1. pipe \in [Pipes -> PipeType] /\ cur[p] \in Pipes /\ left[p] \in Nat
    BY DEF PipesInv
  <1>2. CASE \E n \in Chunks(p) : Store(cur[p], n)
    BY <1>2, StoreRing, Zenon
  <1>3. CASE pipe' = pipe
    BY <1>3, Zenon DEF RingIsStream, Used
  <1>4. CASE piperead_copy(p)
    <2>1. PICK pi \in Pipes : pi = cur[p]
      BY <1>1
    <2>2. PICK k \in 0 .. left[p] : /\ k <= Used(pi)
                                    /\ pipe' = [pipe EXCEPT ![pi].nread = (@ + k) % Wrap]
      BY <1>4, <2>1, Zenon DEF piperead_copy
    <2>3. PICK a : a = (pipe[pi].nread + k) % Wrap
      OBVIOUS
    <2>4. pipe' = [pipe EXCEPT ![pi].nread = a]
      BY <2>2, <2>3
    <2>5. /\ \A q \in Pipes : q # pi => pipe'[q] = pipe[q]
          /\ pipe'[pi].nread = a /\ pipe'[pi].nwrite = pipe[pi].nwrite /\ pipe'[pi].data = pipe[pi].data
      BY <1>1, <2>4 DEF PipeType
    <2>6. pipe[pi].nread \in 0 .. Wrap - 1 /\ pipe[pi].nwrite \in 0 .. Wrap - 1
      BY <1>1 DEF PipeType
    <2>7. Ring(a, pipe[pi].nwrite, pipe[pi].data)
      <3>1. k \in Nat
        BY <1>1
      <3>. QED BY <2>2, <2>3, <2>6, <3>1, Rings, RingTake, Zenon DEF Used
    <2>8. ASSUME NEW q \in Pipes
          PROVE  Ring(pipe'[q].nread, pipe'[q].nwrite, pipe'[q].data)
      BY <2>5, <2>7, Rings
    <2>. QED BY <2>8, Zenon DEF RingIsStream, Ring, Used
  <1>5. CASE pipewrite_done(p) \/ pipewrite_full(p) \/ pipewrite_fail(p)
    <2>1. \E n \in Chunks(p) : Store(cur[p], n)
      BY <1>5, Zenon DEF pipewrite_done, pipewrite_full, pipewrite_fail
    <2>. QED BY <1>2, <2>1
  <1>6. CASE piperead_wait(p) \/ kill(p)
    BY <1>3, <1>6, Zenon DEF piperead_wait, kill
  <1>. QED BY <1>4, <1>5, <1>6, Zenon DEF PipeStep

\* They keep the sleepers' condition: who stores a byte or takes one wakes the other
\* side, except a writer that a kill cuts short.
LEMMA PipeStepSleep ==
    ASSUME PipesInv, SleepersMustWait, NEW p \in Procs, PipeStep(p)
    PROVE  SleepersMustWait'
  <1>. DEFINE Ready(q) == /\ pc[q] = "rsleep" => /\ pipe[cur[q]].writeopen
                                                 /\ Empty(cur[q]) \/ cur[q] \in cut
                          /\ pc[q] = "wsleep" => pipe[cur[q]].readopen /\ Full(pipe[cur[q]])
  <1>1. pipe \in [Pipes -> PipeType] /\ cur \in [Procs -> Pipes] /\ left[p] \in Nat
    BY DEF PipesInv
  <1>2. SameEnds /\ cur' = cur
    BY PipeStepFrame, Zenon
  <1>3. SUFFICES ASSUME NEW q \in Procs PROVE Ready(q)'
    BY <1>3, Zenon DEF SleepersMustWait
  <1>4. PICK qi \in Pipes : qi = cur[q] /\ qi = cur'[q]
    BY <1>1, <1>2
  <1>5. CASE pipe'[qi] = pipe[qi] /\ cut \subseteq cut' /\ pc'[q] \in {pc[q], "user", "read", "write"}
    <2>1. Empty(cur[q])' <=> Empty(cur[q])
      BY <1>4, <1>5, Zenon DEF Empty
    <2>. QED BY <1>4, <1>5, <2>1, Zenon DEF SleepersMustWait
  <1>6. ASSUME NEW n \in Chunks(p), Store(cur[p], n)
        PROVE  /\ n \in Nat
               /\ qi # cur[p] => pipe'[qi] = pipe[qi]
               /\ (pc[q] = "wsleep" /\ qi = cur[p]) => n = 0
               /\ n = 0 => (Empty(cur[q])' <=> Empty(cur[q])) /\ Full(pipe'[qi]) = Full(pipe[qi])
               /\ qi = cur[p] => Full(pipe'[qi]) = Full(After(qi, n))
    <2>1. n \in Nat /\ cur[p] \in Pipes
      BY <1>1 DEF Chunks
    <2>2. /\ \A r \in Pipes : r # cur[p] => pipe'[r] = pipe[r]
          /\ \A r \in Pipes : pipe'[r].nread = pipe[r].nread
          /\ pipe'[cur[p]].nwrite = (pipe[cur[p]].nwrite + n) % Wrap
      BY <1>1, <1>6, <2>1, StoreEffect, Zenon
    <2>3. n = 0 => pipe'[qi].nwrite = pipe[qi].nwrite
      BY <1>1, <2>1, <2>2, AfterCounts, Zenon
    <2>4. (pc[q] = "wsleep" /\ qi = cur[p]) => n = 0
      BY <1>4, FullNoStore, Zenon DEF SleepersMustWait
    <2>5. n = 0 => (Empty(cur[q])' <=> Empty(cur[q])) /\ Full(pipe'[qi]) = Full(pipe[qi])
      BY <1>4, <2>2, <2>3, Zenon DEF Empty, Full
    <2>6. qi = cur[p] => Full(pipe'[qi]) = Full(After(qi, n))
      <3>1. SUFFICES ASSUME qi = cur[p] PROVE Full(pipe'[qi]) = Full(After(qi, n))
        OBVIOUS
      <3>2. pipe'[qi] = After(qi, n)
        BY <1>1, <1>6, <3>1 DEF Store
      <3>. QED BY <3>2
    <2>. QED BY <2>1, <2>2, <2>4, <2>5, <2>6, Zenon
  <1>7. pipe'[qi].writeopen = pipe[qi].writeopen /\ pipe'[qi].readopen = pipe[qi].readopen
    BY <1>2, Zenon DEF SameEnds
  <1>8. CASE pipewrite_done(p)
    <2>1. PICK n \in Chunks(p) : Store(cur[p], n)
      BY <1>8, Zenon DEF pipewrite_done
    <2>2. WakeGoto(cur[p], "rsleep", p, "user") /\ cut' = cut
      BY <1>8, Zenon DEF pipewrite_done
    <2>3. /\ q = p => pc'[q] = "user"
          /\ q # p => \/ pc'[q] = pc[q] /\ ~(pc[q] = "rsleep" /\ cur[q] = cur[p])
                      \/ pc'[q] = "read"
      BY <2>2, WakeEffect
    <2>4. CASE qi # cur[p]
      BY <1>5, <1>6, <2>1, <2>2, <2>3, <2>4
    <2>5. CASE qi = cur[p] /\ pc'[q] \in {"rsleep", "wsleep"}
      <3>1. pc[q] = "wsleep" /\ pc'[q] = "wsleep"
        BY <2>3, <2>5, <1>4
      <3>2. Full(pipe[qi]) /\ pipe[qi].readopen
        BY <3>1, <1>4, Zenon DEF SleepersMustWait
      <3>3. Full(pipe'[qi])
        BY <3>1, <3>2, <2>1, <2>5, <1>6, Zenon
      <3>. QED BY <3>1, <3>2, <3>3, <1>4, <1>7
    <2>. QED BY <2>4, <2>5
  <1>9. CASE pipewrite_full(p)
    <2>1. PICK n \in Chunks(p) : Store(cur[p], n) /\ Full(After(cur[p], n))
      BY <1>9, Zenon DEF pipewrite_full
    <2>2. WakeGoto(cur[p], "rsleep", p, "wsleep") /\ cut' = cut /\ pipe[cur[p]].readopen
      BY <1>9, Zenon DEF pipewrite_full
    <2>3. /\ q = p => pc'[q] = "wsleep"
          /\ q # p => \/ pc'[q] = pc[q] /\ ~(pc[q] = "rsleep" /\ cur[q] = cur[p])
                      \/ pc'[q] = "read"
      BY <2>2, WakeEffect
    <2>4. CASE qi # cur[p]
      BY <1>4, <1>5, <1>6, <2>1, <2>2, <2>3, <2>4
    <2>5. CASE qi = cur[p] /\ pc'[q] \in {"rsleep", "wsleep"}
      <3>1. pc'[q] = "wsleep"
        BY <2>3, <2>5, <1>4
      <3>2. Full(pipe'[qi])
        BY <2>1, <2>5, <1>6, Zenon
      <3>3. pipe'[qi].readopen
        BY <2>2, <2>5, <1>7, Zenon
      <3>. QED BY <3>1, <3>2, <3>3, <1>4
    <2>. QED BY <2>4, <2>5
  <1>10. CASE pipewrite_fail(p)
    <2>1. PICK n \in Chunks(p) : /\ Store(cur[p], n)
                                 /\ \/ n = 0 /\ cut' = cut
                                    \/ n > 0 /\ cut' = cut \cup {cur[p]}
      BY <1>10, Zenon DEF pipewrite_fail
    <2>2. pc' = [pc EXCEPT ![p] = "user"]
      BY <1>10, Zenon DEF pipewrite_fail, Goto
    <2>3. pc'[q] \in {pc[q], "user"}
      BY <2>2 DEF PipesInv
    <2>4. CASE qi # cur[p]
      BY <1>5, <1>6, <2>1, <2>3, <2>4
    <2>5. CASE qi = cur[p] /\ pc'[q] = "rsleep"
      <3>1. pc[q] = "rsleep" /\ pipe[qi].writeopen /\ (Empty(cur[q]) \/ cur[q] \in cut)
        BY <2>3, <2>5, <1>4 DEF SleepersMustWait
      <3>2. Empty(cur[q])' \/ cur[q] \in cut'
        BY <3>1, <2>1, <2>5, <1>4, <1>6
      <3>. QED BY <3>1, <3>2, <2>5, <1>2, <1>4, <1>7, Zenon
    <2>6. CASE qi = cur[p] /\ pc'[q] = "wsleep"
      <3>1. pc[q] = "wsleep" /\ pipe[qi].readopen /\ Full(pipe[qi])
        BY <2>3, <2>6, <1>4 DEF SleepersMustWait
      <3>2. Full(pipe'[qi])
        BY <3>1, <2>1, <2>6, <1>6, Zenon
      <3>. QED BY <3>1, <3>2, <2>6, <1>4, <1>7, Zenon
    <2>. QED BY <2>4, <2>5, <2>6
  <1>11. CASE piperead_wait(p)
    <2>1. /\ Empty(cur[p]) /\ pipe[cur[p]].writeopen /\ pipe' = pipe /\ cut' = cut
          /\ pc' = [pc EXCEPT ![p] = "user"] \/ pc' = [pc EXCEPT ![p] = "rsleep"]
      BY <1>11, Zenon DEF piperead_wait, Goto
    <2>2. pc'[q] \in {pc[q], "user"} \/ (q = p /\ pc'[q] = "rsleep")
      BY <2>1 DEF PipesInv
    <2>3. CASE pc'[q] \in {pc[q], "user"}
      BY <1>5, <2>1, <2>3
    <2>4. CASE q = p /\ pc'[q] = "rsleep"
      <3>1. Empty(cur[q])' /\ pipe'[qi].writeopen
        BY <2>1, <2>4, <1>2, <1>4, Zenon DEF Empty
      <3>. QED BY <3>1, <2>4, <1>4
    <2>. QED BY <2>2, <2>3, <2>4
  <1>12. CASE piperead_copy(p)
    <2>1. WakeGoto(cur[p], "wsleep", p, "user") /\ cut' = cut
      BY <1>12, Zenon DEF piperead_copy
    <2>2. /\ q = p => pc'[q] = "user"
          /\ q # p => \/ pc'[q] = pc[q] /\ ~(pc[q] = "wsleep" /\ cur[q] = cur[p])
                      \/ pc'[q] = "write"
      BY <2>1, WakeEffect
    <2>3. PICK k \in 0 .. left[p] : /\ k <= Used(cur[p])
                                    /\ k = 0 => left[p] = 0 \/ Empty(cur[p])
                                    /\ pipe' = [pipe EXCEPT ![cur[p]].nread = (@ + k) % Wrap]
      BY <1>12, Zenon DEF piperead_copy
    <2>4. qi # cur[p] => pipe'[qi] = pipe[qi]
      BY <2>3, <1>1
    <2>5. CASE qi # cur[p]
      BY <1>5, <2>1, <2>2, <2>4, <2>5
    <2>6. CASE qi = cur[p] /\ pc'[q] \in {"rsleep", "wsleep"}
      <3>1. pc'[q] = "rsleep" /\ pc[q] = "rsleep"
        BY <2>2, <2>6, <1>4
      <3>2. pipe[qi].writeopen /\ (Empty(qi) \/ qi \in cut)
        BY <3>1, <1>4, Zenon DEF SleepersMustWait
      <3>3. ASSUME Empty(qi) PROVE Empty(cur[q])'
        <4>1. Used(qi) = 0
          <5>1. PICK a \in 0 .. Wrap - 1 : a = pipe[qi].nread /\ a = pipe[qi].nwrite
            BY <1>1, <3>3 DEF Empty, PipeType
          <5>2. (a + Wrap - a) % Wrap = 0
            BY NoWrap
          <5>. QED BY <5>1, <5>2 DEF Used
        <4>2. k = 0
          BY <2>3, <2>6, <4>1, <1>1
        <4>3. pipe' = [pipe EXCEPT ![qi].nread = (pipe[qi].nread + 0) % Wrap]
          BY <2>3, <2>6, <4>2
        <4>4. (pipe[qi].nread + 0) % Wrap = pipe[qi].nread
          <5>1. PICK a \in 0 .. Wrap - 1 : a = pipe[qi].nread
            BY <1>1 DEF PipeType
          <5>2. (a + 0) % Wrap = a
            BY NoWrap
          <5>. QED BY <5>1, <5>2
        <4>5. pipe'[qi].nread = pipe[qi].nread /\ pipe'[qi].nwrite = pipe[qi].nwrite
          BY <1>1, <4>3, <4>4 DEF PipeType
        <4>. QED BY <4>5, <3>3, <1>4 DEF Empty
      <3>. QED BY <3>1, <3>2, <3>3, <1>4, <1>7, <2>1, Zenon
    <2>. QED BY <2>5, <2>6
  <1>13. CASE kill(p)
    <2>1. /\ pipe' = pipe /\ cut' = cut
          /\ pc' = [pc EXCEPT ![p] = CASE pc[p] = "rsleep" -> "read" [] pc[p] = "wsleep" -> "write"
                                       [] OTHER -> pc[p]]
      BY <1>13, Zenon DEF kill, Goto
    <2>2. pc'[q] \in {pc[q], "read", "write"}
      BY <2>1 DEF PipesInv
    <2>. QED BY <1>5, <2>1, <2>2
  <1>. QED BY <1>8, <1>9, <1>10, <1>11, <1>12, <1>13 DEF PipeStep

\* A step that leaves the pipes alone and puts nobody to sleep.
LEMMA QuietPipes ==
    ASSUME RingIsStream, SleepersMustWait, pipe' = pipe, cut' = cut,
           \A q \in Procs : pc'[q] \in {"rsleep", "wsleep"} => pc'[q] = pc[q] /\ cur'[q] = cur[q]
    PROVE  RingIsStream' /\ SleepersMustWait'
  <1>1. RingIsStream'
    BY Zenon DEF RingIsStream, Used
  <1>2. ASSUME NEW q \in Procs
        PROVE  /\ pc'[q] = "rsleep" => /\ pipe'[cur'[q]].writeopen
                                       /\ Empty(cur[q])' \/ cur'[q] \in cut'
               /\ pc'[q] = "wsleep" => pipe'[cur'[q]].readopen /\ Full(pipe[cur[q]])'
    BY DEF SleepersMustWait, Empty, Full
  <1>. QED BY <1>1, <1>2, Zenon DEF SleepersMustWait

\* Setting the flags of a pipe.
LEMMA PipeFlags ==
    ASSUME NEW B, NEW N, NEW D,
           NEW r \in [alloc : B, nread : N, nwrite : N, readopen : B, writeopen : B, data : D],
           NEW a \in B, NEW b \in B, NEW c \in B,
           NEW t, t = [r EXCEPT !.alloc = a, !.readopen = b, !.writeopen = c]
    PROVE  /\ t \in [alloc : B, nread : N, nwrite : N, readopen : B, writeopen : B, data : D]
           /\ t.nread = r.nread /\ t.nwrite = r.nwrite /\ t.data = r.data
           /\ t.alloc = a /\ t.readopen = b /\ t.writeopen = c
  OBVIOUS

\* A page that is no pipe.
LEMMA FreshType ==
    Fresh \in PipeType /\ Fresh.nread = 0 /\ Fresh.nwrite = 0
  <1>1. [k \in 0 .. PIPESIZE - 1 |-> Wrap] \in [0 .. PIPESIZE - 1 -> Nat] /\ 0 \in 0 .. Wrap - 1
    BY WrapAssumption
  <1>2. Fresh \in PipeType
    BY <1>1 DEF Fresh, PipeType
  <1>3. Fresh.nread = 0 /\ Fresh.nwrite = 0
    BY DEF Fresh
  <1>. QED BY <1>2, <1>3

\* A new pipe.
LEMMA FreshPipe ==
    ASSUME NEW a \in BOOLEAN, NEW b \in BOOLEAN, NEW c \in BOOLEAN,
           NEW r, r = [Fresh EXCEPT !.alloc = a, !.readopen = b, !.writeopen = c]
    PROVE  /\ r \in PipeType /\ r.nread = 0 /\ r.nwrite = 0
           /\ r.alloc = a /\ r.readopen = b /\ r.writeopen = c
  <1>1. /\ r \in PipeType /\ r.nread = Fresh.nread /\ r.nwrite = Fresh.nwrite
        /\ r.alloc = a /\ r.readopen = b /\ r.writeopen = c
    BY FreshType, PipeFlags, ZenonT(60) DEF PipeType
  <1>. QED BY <1>1, FreshType, Zenon

\* An empty ring.
LEMMA EmptyRing ==
    ASSUME NEW data PROVE Ring(0, 0, data)
  <1>1. 0 \in 0 .. Wrap - 1 /\ 0 \in 0 .. PIPESIZE
    BY WrapAssumption
  <1>2. (0 + 0) % Wrap = 0
    BY <1>1, NoWrap
  <1>3. Holds(0, 0, data, 0)
    BY <1>2 DEF Holds
  <1>. QED BY <1>1, <1>3, HoldsRing, Zenon

\* The ends of a pipe's record.
LEMMA PipeEnds ==
    ASSUME NEW B, NEW N, NEW D,
           NEW r \in [alloc : B, nread : N, nwrite : N, readopen : B, writeopen : B, data : D],
           NEW b \in B, NEW c \in B, NEW t, t = [r EXCEPT !.writeopen = c, !.readopen = b]
    PROVE  /\ t \in [alloc : B, nread : N, nwrite : N, readopen : B, writeopen : B, data : D]
           /\ t.nread = r.nread /\ t.nwrite = r.nwrite /\ t.data = r.data /\ t.alloc = r.alloc
           /\ t.readopen = b /\ t.writeopen = c
  OBVIOUS

\* What pipeclose() does to the pipe: one end is closed, the other as it was; with
\* both closed the page is free, and else the bytes stay.
LEMMA PipeClose ==
    ASSUME PipesInv, RingIsStream, NEW p \in Procs, NEW pi \in Pipes, pipe[pi].alloc, NEW w \in BOOLEAN, NEW m,
           pipeclose(p, pi, w, m)
    PROVE  /\ pipe' \in [Pipes -> PipeType]
           /\ \A qi \in Pipes \ {pi} : pipe'[qi] = pipe[qi]
           /\ pipe'[pi].readopen <=> pipe[pi].readopen /\ w
           /\ pipe'[pi].writeopen <=> pipe[pi].writeopen /\ ~w
           /\ pipe'[pi].alloc <=> pipe'[pi].readopen \/ pipe'[pi].writeopen
           /\ pipe'[pi].readopen \/ pipe'[pi].writeopen =>
                 cut' = cut /\ pipe'[pi].nread = pipe[pi].nread /\ pipe'[pi].nwrite = pipe[pi].nwrite
           /\ \A qi \in cut : qi # pi => qi \in cut'
           /\ RingIsStream'
  <1>1. pipe \in [Pipes -> PipeType] /\ pipe[pi] \in PipeType
    BY Zenon DEF PipesInv
  <1>2. PICK b \in BOOLEAN, c \in BOOLEAN : /\ b = (pipe[pi].readopen /\ w)
                                            /\ c = (pipe[pi].writeopen /\ ~w)
    BY Zenon
  <1>3. PICK r : r = [pipe[pi] EXCEPT !.writeopen = c, !.readopen = b]
    BY Zenon
  <1>4. /\ r \in PipeType /\ r.nread = pipe[pi].nread /\ r.nwrite = pipe[pi].nwrite
        /\ r.data = pipe[pi].data /\ r.alloc = pipe[pi].alloc /\ r.readopen = b /\ r.writeopen = c
    BY <1>1, <1>3, PipeEnds, Zenon DEF PipeType
  <1>5. r = [pipe[pi] EXCEPT !.writeopen = @ /\ ~w, !.readopen = @ /\ w]
    BY <1>2, <1>3, Zenon
  <1>6. /\ pipe' = [pipe EXCEPT ![pi] = IF r.readopen \/ r.writeopen THEN r ELSE Fresh]
        /\ cut' = IF r.readopen \/ r.writeopen THEN cut ELSE cut \ {pi}
    BY <1>5, Zenon DEF pipeclose
  <1>7. PICK t \in PipeType :
           /\ pipe' = [pipe EXCEPT ![pi] = t]
           /\ t.readopen <=> b
           /\ t.writeopen <=> c
           /\ t.alloc <=> b \/ c
           /\ b \/ c => t.nread = pipe[pi].nread /\ t.nwrite = pipe[pi].nwrite
           /\ b \/ c => cut' = cut
           /\ ~(b \/ c) => cut' = cut \ {pi}
           /\ Ring(t.nread, t.nwrite, t.data)
    <2>1. CASE b \/ c
      <3>1. r.readopen \/ r.writeopen
        BY <1>4, <2>1, Zenon
      <3>2. pipe' = [pipe EXCEPT ![pi] = r] /\ cut' = cut
        BY <1>6, <3>1, Zenon
      <3>3. Ring(r.nread, r.nwrite, r.data)
        BY <1>4, Rings, Zenon
      <3>. QED BY <1>4, <2>1, <3>2, <3>3, Zenon
    <2>2. CASE ~(b \/ c)
      <3>1. ~(r.readopen \/ r.writeopen)
        BY <1>4, <2>2, Zenon
      <3>2. pipe' = [pipe EXCEPT ![pi] = Fresh] /\ cut' = cut \ {pi}
        BY <1>6, <3>1, Zenon
      <3>3. Fresh \in PipeType /\ Fresh.nread = 0 /\ Fresh.nwrite = 0
        BY FreshType, Zenon
      <3>4. ~Fresh.alloc /\ ~Fresh.readopen /\ ~Fresh.writeopen
        BY DEF Fresh
      <3>5. Ring(Fresh.nread, Fresh.nwrite, Fresh.data)
        BY <3>3, EmptyRing, Zenon
      <3>. QED BY <2>2, <3>2, <3>3, <3>4, <3>5, Zenon
    <2>. QED BY <2>1, <2>2, Zenon
  <1>8. /\ pipe' \in [Pipes -> PipeType] /\ pipe'[pi] = t
        /\ \A qi \in Pipes \ {pi} : pipe'[qi] = pipe[qi]
    BY <1>1, <1>7
  <1>9. RingIsStream'
    <2>1. ASSUME NEW qi \in Pipes
          PROVE  Ring(pipe'[qi].nread, pipe'[qi].nwrite, pipe'[qi].data)
      <3>1. CASE qi = pi
        BY <1>7, <1>8, <3>1, Zenon
      <3>2. CASE qi # pi
        BY <1>8, <3>2, Rings, Zenon
      <3>. QED BY <3>1, <3>2
    <2>. QED BY <2>1, Zenon DEF RingIsStream, Ring, Used
  <1>10. \A qi \in cut : qi # pi => qi \in cut'
    BY <1>7
  <1>11. /\ pipe'[pi].readopen <=> b
         /\ pipe'[pi].writeopen <=> c
         /\ pipe'[pi].alloc <=> b \/ c
         /\ b \/ c => pipe'[pi].nread = pipe[pi].nread /\ pipe'[pi].nwrite = pipe[pi].nwrite
         /\ b \/ c => cut' = cut
    BY <1>7, <1>8, Zenon
  <1>. QED BY <1>2, <1>8, <1>9, <1>10, <1>11, Zenon

-----------------------------------------------------------------------------

(* The invariant *)

Ends == Pipes \X BOOLEAN

\* Types of the file table's variables.
FilesInv ==
    /\ file \in [Files -> [ref : Nat, end : Ends \cup {FD_NONE}]]
    /\ ofile \in [Procs -> [Fds -> Files \cup {NoFile}]]
    /\ work \in [Procs -> Seq(Files)]
    /\ pend \in [Procs -> Ends \cup {FD_NONE}]

\* What a process holds depends on where it is.  The files of a sys_pipe() under way
\* have no other reference, and no type until the pipe exists.
HoldInv ==
    \A p \in Procs :
       /\ pc[p] \notin {"pipe1", "pipe2", "close"} => work[p] = <<>>
       /\ pc[p] = "pipe1" => Len(work[p]) = 1
       /\ pc[p] = "pipe2" => Len(work[p]) = 2
       /\ Len(work[p]) <= 2
       /\ pc[p] = "none" => ofile[p] = NoFiles
       /\ pend[p] # FD_NONE => pc[p] \in {"close", "exit"}

WorkInv ==
    \A p \in Procs : \A k \in 1 .. Len(work[p]) :
       /\ file[work[p][k]].ref = 1
       /\ pc[p] # "close" => file[work[p][k]].end = FD_NONE

\* An end of a pipe belongs to one file entry, or to one fileclose() under way; a
\* free entry has none, an entry with a descriptor has one.
EndInv ==
    /\ \A f \in Files : file[f].ref = 0 => file[f].end = FD_NONE
    /\ \A f, g \in Files : file[f].end = file[g].end /\ file[f].end # FD_NONE => f = g
    /\ \A p \in Procs, f \in Files : pend[p] # FD_NONE => file[f].end # pend[p]
    /\ \A p, q \in Procs : pend[p] = pend[q] /\ pend[p] # FD_NONE => p = q
    /\ \A p \in Procs, fd \in Fds : ofile[p][fd] # NoFile => file[ofile[p][fd]].end # FD_NONE

\* A process inside piperead() or pipewrite() has a descriptor of that pipe.
CallInv ==
    \A p \in Procs :
       InCall(p) => \E fd \in Fds : ofile[p][fd] # NoFile /\ file[ofile[p][fd]].end[1] = cur[p]

\* The first half of EndsMatchFiles; the second follows from it and from CallInv.
EndsOpen ==
    \A pi \in Pipes :
       /\ pipe[pi].readopen <=> Refers(pi, FALSE)
       /\ pipe[pi].writeopen <=> Refers(pi, TRUE)
       /\ pipe[pi].alloc <=> Refers(pi, TRUE) \/ Refers(pi, FALSE)

\* what the file table keeps, and what the pipes keep
TableInv == FilesInv /\ HoldInv /\ WorkInv /\ EndInv /\ CallInv /\ RefsCounted

IInv == PipesInv /\ TableInv /\ EndsOpen /\ RingIsStream /\ SleepersMustWait

-----------------------------------------------------------------------------

(* References and ends *)

\* The sets of references are finite.
LEMMA FiniteRefs ==
    /\ \A S \in SUBSET (Procs \X Fds) : IsFiniteSet(S) /\ Cardinality(S) \in Nat
    /\ \A S \in SUBSET (Procs \X (1 .. 2)) : IsFiniteSet(S) /\ Cardinality(S) \in Nat
  <1>1. IsFiniteSet(Fds) /\ IsFiniteSet(1 .. 2)
    <2>1. 0 \in Int /\ NOFILE - 1 \in Int /\ 1 \in Int /\ 2 \in Int
      BY FilesAssumption
    <2>. QED BY <2>1, FS_Interval, Zenon DEF Fds
  <1>2. IsFiniteSet(Procs \X Fds) /\ IsFiniteSet(Procs \X (1 .. 2))
    BY <1>1, FilesAssumption, FS_Product, Zenon
  <1>. QED BY <1>2, FS_Subset, FS_CardinalityType, Zenon

\* The references to one file are finitely many.
LEMMA CountRefs ==
    ASSUME NEW f
    PROVE  /\ IsFiniteSet(FdRefs(f)) /\ Cardinality(FdRefs(f)) \in Nat
           /\ IsFiniteSet(WorkRefs(f)) /\ Cardinality(WorkRefs(f)) \in Nat
  <1>1. FdRefs(f) \in SUBSET (Procs \X Fds) /\ WorkRefs(f) \in SUBSET (Procs \X (1 .. 2))
    BY Zenon DEF FdRefs, WorkRefs
  <1>. QED BY <1>1, FiniteRefs, Zenon

\* Membership in the sets of references.
LEMMA IsRef ==
    ASSUME NEW f, NEW q \in Procs
    PROVE  /\ \A e \in Fds : <<q, e>> \in FdRefs(f) <=> ofile[q][e] = f
           /\ \A k \in 1 .. 2 : <<q, k>> \in WorkRefs(f) <=> k \in DOMAIN work[q] /\ work[q][k] = f
  BY DEF FdRefs, WorkRefs

\* A free entry has no reference at all.
LEMMA NoRef ==
    ASSUME RefsCounted, NEW f \in Files, file[f].ref = 0
    PROVE  FdRefs(f) = {} /\ WorkRefs(f) = {}
  <1>1. Cardinality(FdRefs(f)) = 0 /\ Cardinality(WorkRefs(f)) = 0
    BY CountRefs DEF RefsCounted
  <1>. QED BY <1>1, CountRefs, FS_EmptySet, Zenon

\* A descriptor that is the only reference.
LEMMA OneFd ==
    ASSUME RefsCounted, NEW f \in Files, NEW x \in FdRefs(f)
    PROVE  /\ file[f].ref > 0
           /\ file[f].ref = 1 => FdRefs(f) = {x} /\ WorkRefs(f) = {}
  <1>1. PICK m \in Nat, n \in Nat : m = Cardinality(FdRefs(f)) /\ n = Cardinality(WorkRefs(f))
    BY CountRefs
  <1>2. m # 0
    BY <1>1, CountRefs, FS_EmptySet, Zenon
  <1>3. file[f].ref = m + n
    BY <1>1 DEF RefsCounted
  <1>4. ASSUME file[f].ref = 1 PROVE FdRefs(f) = {x} /\ WorkRefs(f) = {}
    <2>1. m = 1 /\ n = 0
      BY <1>2, <1>3, <1>4
    <2>2. PICK y : FdRefs(f) = {y}
      BY <1>1, <2>1, CountRefs, FS_Singleton, Zenon
    <2>3. WorkRefs(f) = {}
      BY <1>1, <2>1, CountRefs, FS_EmptySet, Zenon
    <2>. QED BY <2>2, <2>3, Zenon
  <1>5. file[f].ref > 0
    BY <1>2, <1>3
  <1>. QED BY <1>4, <1>5, Zenon

\* A file of a sys_pipe() under way has no other reference.
LEMMA OneWork ==
    ASSUME FilesInv, HoldInv, WorkInv, RefsCounted, NEW p \in Procs, NEW k \in 1 .. Len(work[p])
    PROVE  /\ work[p][k] \in Files /\ file[work[p][k]].ref = 1
           /\ FdRefs(work[p][k]) = {} /\ WorkRefs(work[p][k]) = {<<p, k>>}
  <1>1. work[p] \in Seq(Files) /\ Len(work[p]) <= 2
    BY Zenon DEF FilesInv, HoldInv
  <1>2. PICK f \in Files : f = work[p][k]
    BY <1>1
  <1>3. file[f].ref = 1
    BY <1>2, Zenon DEF WorkInv
  <1>4. k \in 1 .. 2 /\ k \in DOMAIN work[p]
    BY <1>1
  <1>5. <<p, k>> \in WorkRefs(f)
    BY <1>2, <1>4 DEF WorkRefs
  <1>6. PICK m \in Nat, n \in Nat : m = Cardinality(FdRefs(f)) /\ n = Cardinality(WorkRefs(f))
    BY CountRefs
  <1>7. n # 0
    BY <1>5, <1>6, CountRefs, FS_EmptySet, Zenon
  <1>8. 1 = m + n
    BY <1>3, <1>6 DEF RefsCounted
  <1>9. m = 0 /\ n = 1
    BY <1>7, <1>8
  <1>10. FdRefs(f) = {}
    BY <1>6, <1>9, CountRefs, FS_EmptySet, Zenon
  <1>11. PICK y : WorkRefs(f) = {y}
    BY <1>6, <1>9, CountRefs, FS_Singleton, Zenon
  <1>. QED BY <1>2, <1>3, <1>5, <1>10, <1>11, Zenon

\* A descriptor names a file with a type and a reference.
LEMMA Descriptor ==
    ASSUME FilesInv, EndInv, RefsCounted, NEW p \in Procs, NEW fd \in Fds, ofile[p][fd] # NoFile
    PROVE  /\ ofile[p][fd] \in Files
           /\ <<p, fd>> \in FdRefs(ofile[p][fd])
           /\ file[ofile[p][fd]].ref > 0
           /\ file[ofile[p][fd]].end \in Ends
  <1>1. PICK f \in Files : f = ofile[p][fd]
    BY DEF FilesInv
  <1>2. <<p, fd>> \in FdRefs(f)
    BY <1>1 DEF FdRefs
  <1>3. file[f].ref > 0
    BY <1>2, OneFd, Zenon
  <1>4. file[f].end \in Ends \cup {FD_NONE} /\ file[f].end # FD_NONE
    BY <1>1 DEF FilesInv, EndInv
  <1>. QED BY <1>1, <1>2, <1>3, <1>4, Zenon

\* Each half of the second part of EndsMatchFiles rests on the descriptors.
LEMMA InvEnds ==
    ASSUME IInv PROVE EndsMatchFiles
  <1>1. ASSUME NEW p \in Procs, InCall(p) PROVE pipe[cur[p]].alloc
    <2>1. PICK fd \in Fds : ofile[p][fd] # NoFile /\ file[ofile[p][fd]].end[1] = cur[p]
      BY <1>1, Zenon DEF IInv, TableInv, CallInv
    <2>2. PICK f \in Files : f = ofile[p][fd] /\ file[f].ref > 0 /\ file[f].end \in Ends
      BY <2>1, Descriptor, Zenon DEF IInv, TableInv
    <2>3. PICK pi \in Pipes, w \in BOOLEAN : file[f].end = <<pi, w>>
      BY <2>2 DEF Ends
    <2>4. pi = cur[p]
      BY <2>1, <2>2, <2>3
    <2>5. Refers(pi, w)
      BY <2>2, <2>3, Zenon DEF Refers
    <2>. QED BY <2>4, <2>5 DEF IInv, EndsOpen
  <1>. QED BY <1>1, Zenon DEF IInv, EndsOpen, EndsMatchFiles, InCall

\* Descriptors and pointers stay: so do the counts.
LEMMA SameRefs ==
    ASSUME RefsCounted, file' = file, ofile' = ofile, work' = work
    PROVE  RefsCounted'
  BY Zenon DEF RefsCounted, FdRefs, WorkRefs

\* The ends stay, and so does who is in use: Refers() is the same.
LEMMA SameRefers ==
    ASSUME pend' = pend, NEW pi \in Pipes, NEW w \in BOOLEAN,
           \A g \in Files : file'[g].end = file[g].end,
           \A g \in Files : file'[g].ref > 0 <=> file[g].ref > 0
    PROVE  Refers(pi, w)' <=> Refers(pi, w)
  BY Zenon DEF Refers

\* A new descriptor p, fd of file f, and f's count goes up.
LEMMA DupRefs ==
    ASSUME FilesInv, RefsCounted, NEW p \in Procs, NEW fd \in Fds, NEW f \in Files, ofile[p][fd] = NoFile,
           ofile' = [ofile EXCEPT ![p] = [@ EXCEPT ![fd] = f]], work' = work,
           file' = [file EXCEPT ![f].ref = @ + 1]
    PROVE  RefsCounted'
  <1>1. /\ \A g \in Files \ {f} : file'[g] = file[g]
        /\ file'[f].ref = file[f].ref + 1
    BY DEF FilesInv
  <1>2. ASSUME NEW q \in Procs, NEW e \in Fds
        PROVE  ofile'[q][e] = IF q = p /\ e = fd THEN f ELSE ofile[q][e]
    BY DEF FilesInv
  <1>3. ASSUME NEW g \in Files
        PROVE  file'[g].ref = Cardinality(FdRefs(g)') + Cardinality(WorkRefs(g)')
    <2>1. WorkRefs(g)' = WorkRefs(g)
      BY Zenon DEF WorkRefs
    <2>2. CASE g = f
      <3>1. FdRefs(f)' = FdRefs(f) \cup {<<p, fd>>}
        BY <1>2 DEF FdRefs
      <3>2. <<p, fd>> \notin FdRefs(f)
        BY FilesAssumption DEF FdRefs
      <3>3. Cardinality(FdRefs(f)') = Cardinality(FdRefs(f)) + 1
        BY <3>1, <3>2, CountRefs, FS_AddElement, Zenon
      <3>. QED BY <1>1, <2>1, <2>2, <3>3, CountRefs DEF RefsCounted
    <2>3. CASE g # f
      <3>1. ASSUME NEW q \in Procs, NEW e \in Fds PROVE ofile'[q][e] = g <=> ofile[q][e] = g
        BY <1>2, <2>3, FilesAssumption
      <3>2. FdRefs(g)' = FdRefs(g)
        BY <3>1 DEF FdRefs
      <3>. QED BY <1>1, <2>1, <2>3, <3>2, Zenon DEF RefsCounted
    <2>. QED BY <2>2, <2>3
  <1>. QED BY <1>3, Zenon DEF RefsCounted

\* fork() counts every descriptor that the child gets.
LEMMA ForkRefs ==
    ASSUME FilesInv, RefsCounted, NEW p \in Procs, NEW q \in Procs, ofile[q] = NoFiles,
           ofile' = [ofile EXCEPT ![q] = ofile[p]], work' = work,
           file' = [f \in Files |-> [file[f] EXCEPT !.ref = @ + Dup(ofile[p], f)]]
    PROVE  /\ RefsCounted'
           /\ file' \in [Files -> [ref : Nat, end : Ends \cup {FD_NONE}]]
           /\ \A f \in Files : file'[f].end = file[f].end
           /\ \A f \in Files : file'[f].ref >= file[f].ref
           /\ \A f \in Files : FdRefs(f) = {} => file'[f].ref = file[f].ref
  <1>1. ASSUME NEW f \in Files
        PROVE  /\ file'[f] \in [ref : Nat, end : Ends \cup {FD_NONE}]
               /\ file'[f].end = file[f].end
               /\ file'[f].ref >= file[f].ref
               /\ FdRefs(f) = {} => file'[f].ref = file[f].ref
               /\ file'[f].ref = Cardinality(FdRefs(f)') + Cardinality(WorkRefs(f)')
    <2>. DEFINE D == {fd \in Fds : ofile[p][fd] = f}
    <2>1. IsFiniteSet(Fds)
      <3>1. 0 \in Int /\ NOFILE - 1 \in Int
        BY FilesAssumption
      <3>. QED BY <3>1, FS_Interval, Zenon DEF Fds
    <2>2. IsFiniteSet(D) /\ Cardinality(D) \in Nat /\ Dup(ofile[p], f) = Cardinality(D)
      BY <2>1, FS_Subset, FS_CardinalityType, Zenon DEF Dup
    <2>3. PICK d \in Nat : d = Cardinality(D) /\ file'[f] = [file[f] EXCEPT !.ref = @ + d]
      BY <2>2
    <2>4. /\ file'[f] \in [ref : Nat, end : Ends \cup {FD_NONE}]
          /\ file[f].ref \in Nat /\ file'[f].end = file[f].end /\ file'[f].ref = file[f].ref + d
      <3>1. file[f] \in [ref : Nat, end : Ends \cup {FD_NONE}]
        BY DEF FilesInv
      <3>2. PICK n \in Nat : n = file[f].ref + d
        BY <3>1
      <3>3. file'[f] = [file[f] EXCEPT !.ref = n]
        BY <2>3, <3>2
      <3>. QED BY <3>1, <3>2, <3>3
    <2>5. WorkRefs(f)' = WorkRefs(f)
      BY Zenon DEF WorkRefs
    <2>6. \A r \in Procs, e \in Fds : ofile'[r][e] = IF r = q THEN ofile[p][e] ELSE ofile[r][e]
      BY DEF FilesInv
    <2>7. \A e \in Fds : ofile[q][e] # f
      BY FilesAssumption DEF NoFiles
    <2>8. FdRefs(f)' = FdRefs(f) \cup ({q} \X D)
      BY <2>6, <2>7 DEF FdRefs
    <2>9. FdRefs(f) \cap ({q} \X D) = {}
      BY <2>7 DEF FdRefs
    <2>10. IsFiniteSet({q} \X D) /\ Cardinality({q} \X D) = d
      <3>1. IsFiniteSet({q}) /\ Cardinality({q}) = 1
        BY FS_Singleton, Zenon
      <3>2. IsFiniteSet({q} \X D) /\ Cardinality({q} \X D) = 1 * Cardinality(D)
        BY <2>2, <3>1, FS_Product, ZenonT(60)
      <3>. QED BY <2>2, <2>3, <3>2
    <2>11. FdRefs(f) = {} => D = {}
      <3>1. \A e \in D : <<p, e>> \in FdRefs(f)
        BY DEF FdRefs
      <3>. QED BY <3>1, Zenon
    <2>. HIDE DEF D
    <2>12. Cardinality(FdRefs(f)') = Cardinality(FdRefs(f)) + d
      <3>1. Cardinality(FdRefs(f) \cup ({q} \X D))
              = Cardinality(FdRefs(f)) + Cardinality({q} \X D) - Cardinality(FdRefs(f) \cap ({q} \X D))
        BY <2>10, CountRefs, FS_Union, Zenon
      <3>2. Cardinality(FdRefs(f) \cap ({q} \X D)) = 0
        BY <2>9, FS_EmptySet, Zenon
      <3>. QED BY <2>8, <2>10, <3>1, <3>2, CountRefs
    <2>13. FdRefs(f) = {} => d = 0
      BY <2>2, <2>3, <2>11, FS_EmptySet, Zenon
    <2>14. file'[f].ref = Cardinality(FdRefs(f)') + Cardinality(WorkRefs(f)')
      BY <2>4, <2>5, <2>12, CountRefs DEF RefsCounted
    <2>15. file'[f].ref >= file[f].ref /\ (d = 0 => file'[f].ref = file[f].ref)
      BY <2>4
    <2>. QED BY <2>4, <2>13, <2>14, <2>15, Zenon
  <1>2. file' = [f \in Files |-> file'[f]]
    OBVIOUS
  <1>3. file' \in [Files -> [ref : Nat, end : Ends \cup {FD_NONE}]]
    BY <1>1, <1>2
  <1>. QED BY <1>1, <1>3, Zenon DEF RefsCounted

\* What sys_pipe() starts from once both files are allocated.
LEMMA PipeFiles ==
    ASSUME TableInv, NEW p \in Procs, pc[p] = "pipe2"
    PROVE  \E rf, wf \in Files :
              /\ rf # wf /\ rf = work[p][1] /\ wf = work[p][2] /\ work[p] = <<rf, wf>>
              /\ file[rf].ref = 1 /\ FdRefs(rf) = {} /\ WorkRefs(rf) = {<<p, 1>>} /\ file[rf].end = FD_NONE
              /\ file[wf].ref = 1 /\ FdRefs(wf) = {} /\ WorkRefs(wf) = {<<p, 2>>} /\ file[wf].end = FD_NONE
  <1>1. FilesInv /\ HoldInv /\ WorkInv /\ RefsCounted
    BY Zenon DEF TableInv
  <1>2. Len(work[p]) = 2 /\ work[p] \in Seq(Files)
    BY <1>1, Zenon DEF HoldInv, FilesInv
  <1>3. 1 \in 1 .. Len(work[p]) /\ 2 \in 1 .. Len(work[p])
    BY <1>2
  <1>4. PICK rf \in Files, wf \in Files : rf = work[p][1] /\ wf = work[p][2]
    BY <1>2
  <1>5. /\ file[rf].ref = 1 /\ FdRefs(rf) = {} /\ WorkRefs(rf) = {<<p, 1>>}
        /\ file[wf].ref = 1 /\ FdRefs(wf) = {} /\ WorkRefs(wf) = {<<p, 2>>}
    BY <1>1, <1>3, <1>4, OneWork, Zenon
  <1>6. file[rf].end = FD_NONE /\ file[wf].end = FD_NONE
    BY <1>1, <1>3, <1>4 DEF WorkInv
  <1>7. rf # wf
    <2>1. <<p, 1>> # <<p, 2>>
      OBVIOUS
    <2>. QED BY <1>5, <2>1, Zenon
  <1>8. work[p] = <<rf, wf>>
    BY <1>2, <1>4
  <1>. QED BY <1>4, <1>5, <1>6, <1>7, <1>8, Zenon

\* Each of the two files goes from a pointer to a descriptor.
LEMMA PipeRefs ==
    ASSUME TableInv, NEW p \in Procs, pc[p] = "pipe2", \A g \in Files : file'[g].ref = file[g].ref,
           NEW fd0 \in Fds, NEW fd1 \in Fds, fd0 # fd1,
           ofile[p][fd0] = NoFile, ofile[p][fd1] = NoFile,
           ofile'[p][fd0] = work[p][1], ofile'[p][fd1] = work[p][2],
           \A q \in Procs, e \in Fds : q # p \/ e \notin {fd0, fd1} => ofile'[q][e] = ofile[q][e],
           work' = [work EXCEPT ![p] = <<>>]
    PROVE  RefsCounted'
  <1>0. PICK rf \in Files, wf \in Files :
           /\ rf # wf /\ rf = work[p][1] /\ wf = work[p][2] /\ work[p] = <<rf, wf>>
           /\ file[rf].ref = 1 /\ FdRefs(rf) = {} /\ WorkRefs(rf) = {<<p, 1>>}
           /\ file[wf].ref = 1 /\ FdRefs(wf) = {} /\ WorkRefs(wf) = {<<p, 2>>}
    BY PipeFiles, Zenon
  <1>. ofile'[p][fd0] = rf /\ ofile'[p][fd1] = wf
    BY <1>0
  <1>1. work'[p] = <<>> /\ \A q \in Procs \ {p} : work'[q] = work[q]
    BY DEF TableInv, FilesInv
  <1>2. ASSUME NEW g \in Files
        PROVE  file'[g].ref = Cardinality(FdRefs(g)') + Cardinality(WorkRefs(g)')
    <2>1. CASE g = rf
      <3>1. FdRefs(rf)' = {<<p, fd0>>}
        <4>1. \A q \in Procs, e \in Fds : ofile[q][e] # rf
          BY <1>0, IsRef, Zenon
        <4>. QED BY <1>0, <4>1 DEF FdRefs
      <3>2. WorkRefs(rf)' = {}
        <4>1. ASSUME NEW q \in Procs \ {p}, NEW k \in 1 .. 2
              PROVE  ~(k \in DOMAIN work[q] /\ work[q][k] = rf)
          <5>1. <<q, k>> # <<p, 1>>
            OBVIOUS
          <5>. QED BY <1>0, <5>1, IsRef, ZenonT(60)
        <4>2. \A q \in Procs, k \in 1 .. 2 : ~(k \in DOMAIN work'[q] /\ work'[q][k] = rf)
          BY <1>1, <4>1
        <4>. QED BY <4>2 DEF WorkRefs
      <3>3. Cardinality(FdRefs(rf)') = 1 /\ Cardinality(WorkRefs(rf)') = 0
        BY <3>1, <3>2, FS_Singleton, FS_EmptySet, ZenonT(60)
      <3>. QED BY <1>0, <2>1, <3>3
    <2>2. CASE g = wf
      <3>1. FdRefs(wf)' = {<<p, fd1>>}
        <4>1. \A q \in Procs, e \in Fds : ofile[q][e] # wf
          BY <1>0, IsRef, Zenon
        <4>. QED BY <1>0, <4>1 DEF FdRefs
      <3>2. WorkRefs(wf)' = {}
        <4>1. ASSUME NEW q \in Procs \ {p}, NEW k \in 1 .. 2
              PROVE  ~(k \in DOMAIN work[q] /\ work[q][k] = wf)
          <5>1. <<q, k>> # <<p, 2>>
            OBVIOUS
          <5>. QED BY <1>0, <5>1, IsRef, Zenon
        <4>2. \A q \in Procs, k \in 1 .. 2 : ~(k \in DOMAIN work'[q] /\ work'[q][k] = wf)
          BY <1>1, <4>1
        <4>. QED BY <4>2 DEF WorkRefs
      <3>3. Cardinality(FdRefs(wf)') = 1 /\ Cardinality(WorkRefs(wf)') = 0
        BY <3>1, <3>2, FS_Singleton, FS_EmptySet, ZenonT(60)
      <3>. QED BY <1>0, <2>2, <3>3
    <2>3. CASE g # rf /\ g # wf
      <3>1. FdRefs(g)' = FdRefs(g)
        <4>1. ASSUME NEW q \in Procs, NEW e \in Fds PROVE ofile'[q][e] = g <=> ofile[q][e] = g
          <5>1. CASE q = p /\ e = fd0
            <6>1. ofile'[q][e] = rf /\ ofile[q][e] = NoFile /\ g # NoFile
              BY <5>1, FilesAssumption
            <6>. QED BY <2>3, <6>1, Zenon
          <5>2. CASE q = p /\ e = fd1
            <6>1. ofile'[q][e] = wf /\ ofile[q][e] = NoFile /\ g # NoFile
              BY <5>2, FilesAssumption
            <6>. QED BY <2>3, <6>1, Zenon
          <5>3. CASE q # p \/ e \notin {fd0, fd1}
            <6>1. ofile'[q][e] = ofile[q][e]
              BY <5>3, Zenon
            <6>. QED BY <6>1, Zenon
          <5>. QED BY <5>1, <5>2, <5>3, Zenon
        <4>. QED BY <4>1, SMTT(30) DEF FdRefs
      <3>2. WorkRefs(g)' = WorkRefs(g)
        <4>1. ASSUME NEW q \in Procs, NEW k \in 1 .. 2
              PROVE  (k \in DOMAIN work'[q] /\ work'[q][k] = g) <=> (k \in DOMAIN work[q] /\ work[q][k] = g)
          <5>1. CASE q = p
            <6>1. work'[q] = <<>> /\ work[q] = <<rf, wf>>
              BY <1>0, <1>1, <5>1
            <6>. QED BY <2>3, <6>1
          <5>2. CASE q # p
            BY <1>1, <5>2
          <5>. QED BY <5>1, <5>2, Zenon
        <4>. QED BY <4>1 DEF WorkRefs
      <3>. QED BY <3>1, <3>2, Zenon DEF TableInv, RefsCounted
    <2>. QED BY <2>1, <2>2, <2>3
  <1>. QED BY <1>2, Zenon DEF RefsCounted

\* Descriptor p, fd of file f goes, and f's count goes down.
LEMMA DropRefs ==
    ASSUME FilesInv, RefsCounted, NEW p \in Procs, NEW fd \in Fds, NEW f \in Files, ofile[p][fd] = f,
           ofile' = [ofile EXCEPT ![p][fd] = NoFile], work' = work,
           file'[f].ref = file[f].ref - 1, \A g \in Files \ {f} : file'[g] = file[g]
    PROVE  RefsCounted'
  <1>1. \A q \in Procs, e \in Fds : ofile'[q][e] = IF q = p /\ e = fd THEN NoFile ELSE ofile[q][e]
    BY DEF FilesInv
  <1>2. ASSUME NEW g \in Files
        PROVE  file'[g].ref = Cardinality(FdRefs(g)') + Cardinality(WorkRefs(g)')
    <2>1. WorkRefs(g)' = WorkRefs(g)
      BY Zenon DEF WorkRefs
    <2>2. file[g].ref = Cardinality(FdRefs(g)) + Cardinality(WorkRefs(g))
      BY Zenon DEF RefsCounted
    <2>3. CASE g = f
      <3>1. <<p, fd>> \in FdRefs(f)
        BY IsRef, Zenon
      <3>2. FdRefs(f)' = FdRefs(f) \ {<<p, fd>>}
        <4>1. f # NoFile
          BY FilesAssumption
        <4>. QED BY <1>1, <4>1 DEF FdRefs
      <3>3. IsFiniteSet(FdRefs(f)) /\ Cardinality(FdRefs(f)) \in Nat /\ Cardinality(WorkRefs(f)) \in Nat
        BY CountRefs, Zenon
      <3>4. Cardinality(FdRefs(f)') = Cardinality(FdRefs(f)) - 1
        <4>1. PICK S, x : S = FdRefs(f) /\ x = <<p, fd>>
          OBVIOUS
        <4>2. IsFiniteSet(S) /\ x \in S
          BY <3>1, <3>3, <4>1, Zenon
        <4>3. Cardinality(S \ {x}) = Cardinality(S) - 1
          BY <4>2, FS_RemoveElement
        <4>. QED BY <3>2, <4>1, <4>3, Zenon
      <3>. QED BY <2>1, <2>2, <2>3, <3>3, <3>4
    <2>4. CASE g # f
      <3>1. FdRefs(g)' = FdRefs(g)
        <4>1. g # NoFile
          BY FilesAssumption
        <4>. QED BY <1>1, <2>4, <4>1 DEF FdRefs
      <3>2. file'[g] = file[g]
        BY <2>4
      <3>. QED BY <2>1, <2>2, <3>1, <3>2, Zenon
    <2>. QED BY <2>3, <2>4
  <1>. QED BY <1>2, Zenon DEF RefsCounted

\* What Tail() returns.
LEMMA TailOf ==
    ASSUME NEW S, NEW s \in Seq(S), s # <<>>
    PROVE  /\ Tail(s) \in Seq(S) /\ Len(Tail(s)) = Len(s) - 1
           /\ \A k \in 1 .. Len(Tail(s)) : Tail(s)[k] = s[k + 1]
  OBVIOUS

\* A sys_pipe() that fails drops the first of its files: it had no other reference.
LEMMA ShiftRefs ==
    ASSUME FilesInv, HoldInv, WorkInv, RefsCounted, NEW p \in Procs, work[p] # <<>>,
           NEW f \in Files, f = work[p][1], FdRefs(f) = {}, WorkRefs(f) = {<<p, 1>>},
           file'[f].ref = 0, \A g \in Files \ {f} : file'[g] = file[g],
           ofile' = ofile, NEW n \in 1 .. 2, n = Len(work[p]), Len(work'[p]) = n - 1, work'[p] \in Seq(Files),
           n = 2 => work'[p][1] = work[p][2], \A q \in Procs \ {p} : work'[q] = work[q]
    PROVE  RefsCounted'
  <1>1. work[p] \in Seq(Files) /\ DOMAIN work[p] = 1 .. n /\ DOMAIN work'[p] = 1 .. n - 1
    BY DEF FilesInv
  <1>2. ASSUME NEW g \in Files
        PROVE  file'[g].ref = Cardinality(FdRefs(g)') + Cardinality(WorkRefs(g)')
    <2>1. FdRefs(g)' = FdRefs(g)
      BY Zenon DEF FdRefs
    <2>2. file[g].ref = Cardinality(FdRefs(g)) + Cardinality(WorkRefs(g))
      BY Zenon DEF RefsCounted
    <2>3. CASE g = f
      <3>1. ASSUME NEW q \in Procs, NEW k \in 1 .. 2, k \in DOMAIN work'[q], work'[q][k] = f PROVE FALSE
        <4>1. CASE q # p
          <5>1. <<q, k>> \in WorkRefs(f)
            <6>1. work'[q] = work[q]
              BY <4>1
            <6>. QED BY <3>1, <6>1, IsRef, Zenon
          <5>. QED BY <4>1, <5>1
        <4>2. CASE q = p
          <5>1. n = 2 /\ k = 1 /\ work[p][2] = f /\ 2 \in 1 .. 2 /\ 2 \in DOMAIN work[p]
            BY <1>1, <3>1, <4>2
          <5>2. <<p, 2>> \in WorkRefs(f)
            BY <5>1, IsRef, Zenon
          <5>. QED BY <5>2
        <4>. QED BY <4>1, <4>2
      <3>2. WorkRefs(f)' = {}
        BY <3>1 DEF WorkRefs
      <3>3. Cardinality(FdRefs(f)') = 0 /\ Cardinality(WorkRefs(f)') = 0
        BY <2>1, <2>3, <3>2, FS_EmptySet, Zenon
      <3>. QED BY <2>3, <3>3
    <2>4. CASE g # f
      <3>1. file'[g] = file[g]
        BY <2>4
      <3>2. CASE n = 2 /\ g = work[p][2]
        <4>1. 2 \in 1 .. Len(work[p])
          BY <3>2
        <4>2. WorkRefs(g) = {<<p, 2>>}
          BY <3>2, <4>1, OneWork, Zenon
        <4>3. WorkRefs(g)' = {<<p, 1>>}
          <5>1. ASSUME NEW q \in Procs \ {p}, NEW k \in 1 .. 2
                PROVE  ~(k \in DOMAIN work'[q] /\ work'[q][k] = g)
            <6>1. <<q, k>> # <<p, 2>> /\ work'[q] = work[q]
              OBVIOUS
            <6>. QED BY <4>2, <6>1, IsRef, Zenon
          <5>2. DOMAIN work'[p] = {1} /\ work'[p][1] = g
            BY <1>1, <3>2
          <5>. QED BY <5>1, <5>2 DEF WorkRefs
        <4>4. Cardinality(WorkRefs(g)') = Cardinality(WorkRefs(g))
          <5>1. Cardinality({<<p, 1>>}) = 1 /\ Cardinality({<<p, 2>>}) = 1
            BY FS_Singleton, Zenon
          <5>. QED BY <4>2, <4>3, <5>1, Zenon
        <4>. QED BY <2>1, <2>2, <3>1, <4>4, Zenon
      <3>3. CASE ~(n = 2 /\ g = work[p][2])
        <4>1. ASSUME NEW q \in Procs, NEW k \in 1 .. 2
              PROVE  (k \in DOMAIN work'[q] /\ work'[q][k] = g) <=> (k \in DOMAIN work[q] /\ work[q][k] = g)
          <5>1. CASE q # p
            <6>1. work'[q] = work[q]
              BY <5>1
            <6>. QED BY <6>1
          <5>2. CASE q = p
            <6>1. ASSUME k \in DOMAIN work[p], work[p][k] = g PROVE FALSE
              BY <1>1, <2>4, <3>3, <6>1
            <6>2. ASSUME k \in DOMAIN work'[p], work'[p][k] = g PROVE FALSE
              BY <1>1, <2>4, <3>3, <6>2
            <6>. QED BY <5>2, <6>1, <6>2
          <5>. QED BY <5>1, <5>2
        <4>2. WorkRefs(g)' = WorkRefs(g)
          BY <4>1, SMTT(30) DEF WorkRefs
        <4>. QED BY <2>1, <2>2, <3>1, <4>2, Zenon
      <3>. QED BY <3>2, <3>3
    <2>. QED BY <2>3, <2>4
  <1>. QED BY <1>2, Zenon DEF RefsCounted

\* Ends of a pipe are told apart, and none is FD_NONE.
LEMMA Apart ==
    ASSUME NEW pi \in Pipes
    PROVE  /\ <<pi, FALSE>> \in Ends /\ <<pi, TRUE>> \in Ends
           /\ <<pi, FALSE>> # <<pi, TRUE>> /\ <<pi, FALSE>> # FD_NONE /\ <<pi, TRUE>> # FD_NONE
           /\ \A qi : qi # pi => \A v, w : <<pi, v>> # <<qi, w>>
  <1>1. <<pi, FALSE>> \in Ends /\ <<pi, TRUE>> \in Ends
    BY Zenon DEF Ends
  <1>2. <<pi, FALSE>> # FD_NONE /\ <<pi, TRUE>> # FD_NONE
    BY <1>1, FilesAssumption, Zenon DEF Ends
  <1>3. ASSUME <<pi, FALSE>> = <<pi, TRUE>> PROVE FALSE
    <2>1. <<pi, FALSE>>[2] = <<pi, TRUE>>[2]
      BY <1>3, Zenon
    <2>. QED BY <2>1, Zenon
  <1>4. ASSUME NEW qi, qi # pi, NEW v, NEW w, <<pi, v>> = <<qi, w>> PROVE FALSE
    <2>1. <<pi, v>>[1] = <<qi, w>>[1]
      BY <1>4, Zenon
    <2>. QED BY <1>4, <2>1, Zenon
  <1>. QED BY <1>1, <1>2, <1>3, <1>4, Zenon

\* A pipe that is not allocated has nobody at its ends, asleep or not.
LEMMA Unused ==
    ASSUME IInv, NEW pi \in Pipes, ~pipe[pi].alloc
    PROVE  /\ \A g \in Files, w \in BOOLEAN : file[g].end # <<pi, w>>
           /\ \A q \in Procs, w \in BOOLEAN : pend[q] # <<pi, w>>
           /\ \A q \in Procs : pc[q] \in {"rsleep", "wsleep"} => cur[q] # pi
  <1>1. ~Refers(pi, TRUE) /\ ~Refers(pi, FALSE) /\ ~pipe[pi].readopen /\ ~pipe[pi].writeopen
    BY Zenon DEF IInv, EndsOpen
  <1>2. ASSUME NEW g \in Files, NEW w \in BOOLEAN, file[g].end = <<pi, w>> PROVE FALSE
    <2>1. file[g].end # FD_NONE
      BY <1>2, FilesAssumption
    <2>2. file[g].ref \in Nat /\ file[g].ref # 0
      BY <2>1 DEF IInv, TableInv, FilesInv, EndInv
    <2>3. file[g].ref > 0
      BY <2>2
    <2>. QED BY <1>1, <1>2, <2>3, Zenon DEF Refers
  <1>3. ASSUME NEW q \in Procs, NEW w \in BOOLEAN, pend[q] = <<pi, w>> PROVE FALSE
    BY <1>1, <1>3, Zenon DEF Refers
  <1>4. \A q \in Procs : pc[q] \in {"rsleep", "wsleep"} => cur[q] # pi
    BY <1>1, Zenon DEF IInv, SleepersMustWait
  <1>. QED BY <1>2, <1>3, <1>4, Zenon

\* The part of EndInv that is not about descriptors.
EndsApart ==
    /\ \A f \in Files : file[f].ref = 0 => file[f].end = FD_NONE
    /\ \A f, g \in Files : file[f].end = file[g].end /\ file[f].end # FD_NONE => f = g
    /\ \A p \in Procs, f \in Files : pend[p] # FD_NONE => file[f].end # pend[p]
    /\ \A p, q \in Procs : pend[p] = pend[q] /\ pend[p] # FD_NONE => p = q

\* fileclose() takes one reference.  With the last one the end of the pipe passes
\* from the entry to the process, which is about to close it: nobody's end is lost.
LEMMA FileClose ==
    ASSUME FilesInv, EndInv, NEW p \in Procs, NEW f \in Files, file[f].ref > 0, pend[p] = FD_NONE,
           fileclose(p, f)
    PROVE  /\ file' \in [Files -> [ref : Nat, end : Ends \cup {FD_NONE}]]
           /\ pend' \in [Procs -> Ends \cup {FD_NONE}]
           /\ \A g \in Files \ {f} : file'[g] = file[g]
           /\ file'[f].ref = file[f].ref - 1
           /\ file[f].ref > 1 => file'[f].end = file[f].end
           /\ \A q \in Procs \ {p} : pend'[q] = pend[q]
           /\ EndsApart'
           /\ \A pi \in Pipes, w \in BOOLEAN : Refers(pi, w)' <=> Refers(pi, w)
  <1>1. /\ file \in [Files -> [ref : Nat, end : Ends \cup {FD_NONE}]]
        /\ pend \in [Procs -> Ends \cup {FD_NONE}]
    BY Zenon DEF FilesInv
  <1>2. EndsApart
    BY Zenon DEF EndInv, EndsApart
  <1>3. CASE file[f].ref > 1
    <2>1. file' = [file EXCEPT ![f].ref = @ - 1] /\ pend' = pend
      BY <1>3, Zenon DEF fileclose
    <2>2. PICK n \in Nat : n = file[f].ref - 1 /\ n > 0
      BY <1>1, <1>3
    <2>3. file' = [file EXCEPT ![f].ref = n]
      BY <2>1, <2>2
    <2>4. /\ file' \in [Files -> [ref : Nat, end : Ends \cup {FD_NONE}]]
          /\ \A g \in Files \ {f} : file'[g] = file[g]
          /\ file'[f].ref = n
          /\ \A g \in Files : file'[g].end = file[g].end
      BY <1>1, <2>3
    <2>5. \A g \in Files : file'[g].ref > 0 <=> file[g].ref > 0
      BY <2>2, <2>4
    <2>6. \A g \in Files : file'[g].ref = 0 => file[g].ref = 0
      BY <2>2, <2>4
    <2>7. EndsApart'
      BY <1>2, <2>1, <2>4, <2>6 DEF EndsApart
    <2>8. \A pi \in Pipes, w \in BOOLEAN : Refers(pi, w)' <=> Refers(pi, w)
      BY <2>1, <2>4, <2>5, SameRefers, Zenon
    <2>9. file'[f].ref = file[f].ref - 1
      BY <2>2, <2>4
    <2>. QED BY <1>1, <2>1, <2>4, <2>7, <2>8, <2>9, Zenon
  <1>4. CASE ~(file[f].ref > 1)
    <2>1. /\ file' = [file EXCEPT ![f] = [ref |-> 0, end |-> FD_NONE]]
          /\ pend' = [pend EXCEPT ![p] = file[f].end]
      BY <1>4, Zenon DEF fileclose
    <2>2. file[f].ref = 1 /\ file[f].end \in Ends \cup {FD_NONE}
      BY <1>1, <1>4
    <2>3. /\ file' \in [Files -> [ref : Nat, end : Ends \cup {FD_NONE}]]
          /\ \A g \in Files \ {f} : file'[g] = file[g]
          /\ file'[f].ref = 0 /\ file'[f].end = FD_NONE
      BY <1>1, <2>1
    <2>4. /\ pend' \in [Procs -> Ends \cup {FD_NONE}]
          /\ pend'[p] = file[f].end
          /\ \A q \in Procs \ {p} : pend'[q] = pend[q]
      BY <1>1, <2>1, <2>2
    <2>5. \A g \in Files : g = f \/ file'[g] = file[g]
      BY <2>3
    <2>6. \A q \in Procs : q = p \/ pend'[q] = pend[q]
      BY <2>4
    <2>7. EndsApart'
      <3>1. \A g \in Files : file'[g].ref = 0 => file'[g].end = FD_NONE
        BY <1>2, <2>3, <2>5, Zenon DEF EndsApart
      <3>2. \A g, h \in Files : file'[g].end = file'[h].end /\ file'[g].end # FD_NONE => g = h
        <4>1. ASSUME NEW g \in Files, NEW h \in Files, file'[g].end = file'[h].end, file'[g].end # FD_NONE
              PROVE  g = h
          <5>1. g # f
            BY <2>3, <4>1, Zenon
          <5>2. h # f
            BY <2>3, <4>1, Zenon
          <5>3. file[g].end = file[h].end /\ file[g].end # FD_NONE
            BY <2>5, <4>1, <5>1, <5>2
          <5>. QED BY <1>2, <5>3, Zenon DEF EndsApart
        <4>. QED BY <4>1, Zenon
      <3>3. \A q \in Procs, g \in Files : pend'[q] # FD_NONE => file'[g].end # pend'[q]
        <4>1. ASSUME NEW q \in Procs, NEW g \in Files, pend'[q] # FD_NONE, file'[g].end = pend'[q] PROVE FALSE
          <5>1. g # f /\ file'[g] = file[g]
            BY <2>3, <2>5, <4>1, Zenon
          <5>2. CASE q = p
            BY <1>2, <2>4, <4>1, <5>1, <5>2, ZenonT(60) DEF EndsApart
          <5>3. CASE q # p
            BY <1>2, <2>6, <4>1, <5>1, <5>3, Zenon DEF EndsApart
          <5>. QED BY <5>2, <5>3
        <4>. QED BY <4>1, Zenon
      <3>4. \A q, r \in Procs : pend'[q] = pend'[r] /\ pend'[q] # FD_NONE => q = r
        <4>1. \A q \in Procs : q # p => ~(pend'[q] = pend'[p] /\ pend'[q] # FD_NONE)
          <5>1. ASSUME NEW q \in Procs, q # p, pend'[q] = pend'[p], pend'[q] # FD_NONE PROVE FALSE
            <6>1. pend[q] # FD_NONE /\ file[f].end = pend[q]
              BY <2>4, <2>6, <5>1, Zenon
            <6>. QED BY <1>2, <6>1, Zenon DEF EndsApart
          <5>. QED BY <5>1, Zenon
        <4>2. ASSUME NEW q \in Procs, NEW r \in Procs, pend'[q] = pend'[r], pend'[q] # FD_NONE, q # r
              PROVE  FALSE
          <5>1. q # p
            BY <4>1, <4>2, Zenon
          <5>2. r # p
            BY <4>1, <4>2, Zenon
          <5>. QED BY <1>2, <2>6, <4>2, <5>1, <5>2, Zenon DEF EndsApart
        <4>. QED BY <4>2, Zenon
      <3>. QED BY <3>1, <3>2, <3>3, <3>4, Zenon DEF EndsApart
    <2>8. ASSUME NEW pi \in Pipes, NEW w \in BOOLEAN PROVE Refers(pi, w)' <=> Refers(pi, w)
      <3>1. <<pi, w>> # FD_NONE
        <4>1. <<pi, w>> \in Pipes \X BOOLEAN
          OBVIOUS
        <4>. QED BY <4>1, FilesAssumption, Zenon
      <3>2. ASSUME Refers(pi, w) PROVE Refers(pi, w)'
        <4>1. CASE \E g \in Files : file[g].ref > 0 /\ file[g].end = <<pi, w>>
          <5>1. PICK g \in Files : file[g].ref > 0 /\ file[g].end = <<pi, w>>
            BY <4>1, Zenon
          <5>2. CASE g = f
            BY <2>4, <5>1, <5>2, Zenon DEF Refers
          <5>3. CASE g # f
            BY <2>5, <5>1, <5>3, Zenon DEF Refers
          <5>. QED BY <5>2, <5>3
        <4>2. CASE \E q \in Procs : pend[q] = <<pi, w>>
          BY <2>6, <3>1, <4>2, Zenon DEF Refers
        <4>. QED BY <3>2, <4>1, <4>2, Zenon DEF Refers
      <3>3. ASSUME Refers(pi, w)' PROVE Refers(pi, w)
        <4>1. CASE \E g \in Files : file'[g].ref > 0 /\ file'[g].end = <<pi, w>>
          BY <2>3, <2>5, <3>1, <4>1, Zenon DEF Refers
        <4>2. CASE \E q \in Procs : pend'[q] = <<pi, w>>
          BY <2>4, <2>6, <4>2, Zenon DEF Refers
        <4>. QED BY <3>3, <4>1, <4>2, Zenon DEF Refers
      <3>. QED BY <3>2, <3>3, Zenon
    <2>9. file'[f].ref = file[f].ref - 1 /\ ~(file[f].ref > 1)
      BY <1>4, <2>2, <2>3
    <2>. QED BY <2>3, <2>4, <2>7, <2>8, <2>9, Zenon
  <1>. QED BY <1>3, <1>4
=============================================================================
