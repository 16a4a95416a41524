--------------------------- MODULE ConsoleProofs ---------------------------
(***************************************************************************)
(* Proofs about Console, for rings of any size whose indices wrap at any   *)
(* multiple of it, and for any number of readers and writers: nobody       *)
(* sleeps who could go on, output keeps its order, and the input ring      *)
(* implements the line discipline of Tty.                                  *)
(***************************************************************************)
EXTENDS Console, Integers, TLAPS

(* Arithmetic of a ring of N entries whose indices wrap at W *)

Wraps(N, W) == N \in Nat /\ N > 0 /\ W \in Nat /\ W % N = 0 /\ W > N

\* Division with remainder.
LEMMA ModDef ==
    ASSUME NEW a \in Nat, NEW b \in Nat, b > 0
    PROVE  \E q \in Nat, m \in 0 .. b - 1 : m = a % b /\ a = b * q + m
  <1>1. PICK q \in Nat : q = a \div b
    OBVIOUS
  <1>2. PICK m \in 0 .. b - 1 : m = a % b
    OBVIOUS
  <1>3. a = b * q + m
    BY <1>1, <1>2
  <1>. QED BY <1>2, <1>3

\* The remainder is unique.
LEMMA ModUnique ==
    ASSUME NEW b \in Nat, b > 0, NEW q \in Int, NEW m \in 0 .. b - 1, NEW s \in Int, NEW t \in 0 .. b - 1,
           b * q + m = b * s + t
    PROVE  m = t
  <1>1. b * (q - s) = t - m
    OBVIOUS
  <1>2. CASE q - s >= 1
    <2>1. b * (q - s) >= b
      BY <1>2
    <2>. QED BY <1>1, <2>1
  <1>3. CASE q - s <= -1
    <2>1. b * (q - s) <= -b
      BY <1>3
    <2>. QED BY <1>1, <2>1
  <1>4. q = s
    BY <1>2, <1>3
  <1>. QED BY <1>1, <1>4

\* A number with a known quotient has that remainder.
LEMMA ModOf ==
    ASSUME NEW b \in Nat, b > 0, NEW q \in Nat, NEW m \in 0 .. b - 1, NEW a, a = b * q + m
    PROVE  a % b = m
  <1>1. a \in Nat
    OBVIOUS
  <1>2. PICK s \in Nat, t \in 0 .. b - 1 : t = a % b /\ a = b * s + t
    BY <1>1, ModDef, Zenon
  <1>3. b * q + m = b * s + t /\ q \in Int /\ s \in Int
    BY <1>2
  <1>4. m = t
    BY <1>3, ModUnique, Zenon
  <1>. QED BY <1>2, <1>4

\* The wrap of an index does not disturb its place in the ring.
LEMMA ModMod ==
    ASSUME NEW N, NEW W, Wraps(N, W), NEW x \in Nat
    PROVE  (x % W) % N = x % N
  <1>. N \in Nat /\ N > 0 /\ W \in Nat /\ W % N = 0 /\ W > 0
    BY DEF Wraps
  <1>1. PICK q \in Nat : W = N * q
    <2>1. PICK q \in Nat, m \in 0 .. N - 1 : m = W % N /\ W = N * q + m
      BY ModDef
    <2>2. W = N * q
      BY <2>1
    <2>. QED BY <2>2
  <1>2. PICK s \in Nat, y \in 0 .. W - 1 : y = x % W /\ x = W * s + y
    BY ModDef, Zenon
  <1>. y \in Nat
    OBVIOUS
  <1>3. PICK u \in Nat, m \in 0 .. N - 1 : m = y % N /\ y = N * u + m
    BY ModDef, Zenon
  <1>4. x = N * (q * s + u) + m
    <2>1. PICK k \in Nat : k = q * s
      OBVIOUS
    <2>2. (N * q) * s = N * k
      BY <2>1
    <2>3. N * (k + u) = N * k + N * u
      OBVIOUS
    <2>4. W * s = N * k
      BY <1>1, <2>2
    <2>5. PICK pk \in Int, pu \in Int : pk = N * k /\ pu = N * u
      OBVIOUS
    <2>6. x = pk + (pu + m)
      BY <1>2, <1>3, <2>4, <2>5
    <2>7. N * (k + u) = pk + pu
      BY <2>3, <2>5
    <2>. QED BY <2>1, <2>5, <2>6, <2>7
  <1>5. q * s + u \in Nat
    OBVIOUS
  <1>6. x % N = m
    BY <1>4, <1>5, <1>3, ModOf
  <1>. QED BY <1>2, <1>3, <1>6

\* Positions less than N apart have different places in the ring.
LEMMA ModApart ==
    ASSUME NEW N \in Nat, N > 0, NEW x \in Nat, NEW y \in Nat, x < y, y < x + N
    PROVE  x % N # y % N
  <1>1. PICK q \in Nat, m \in 0 .. N - 1 : m = x % N /\ x = N * q + m
    BY ModDef
  <1>2. PICK s \in Nat, t \in 0 .. N - 1 : t = y % N /\ y = N * s + t
    BY ModDef
  <1>3. SUFFICES ASSUME m = t PROVE FALSE
    BY <1>1, <1>2
  <1>4. N * (s - q) = y - x
    BY <1>1, <1>2, <1>3
  <1>5. CASE s - q >= 1
    <2>1. N * (s - q) >= N
      BY <1>5
    <2>. QED BY <1>4, <2>1
  <1>6. CASE s - q <= 0
    <2>1. N * (s - q) <= 0
      BY <1>6
    <2>. QED BY <1>4, <2>1
  <1>. QED BY <1>5, <1>6

\* An index wraps at most once.
LEMMA ModSmall ==
    ASSUME NEW W \in Nat, W > 0, NEW x \in Nat, x < 2 * W
    PROVE  x % W = IF x < W THEN x ELSE x - W
  <1>1. CASE x < W
    <2>1. x = W * 0 + x /\ x \in 0 .. W - 1
      BY <1>1
    <2>2. x % W = x
      BY <2>1, ModOf
    <2>. QED BY <2>2, <1>1
  <1>2. CASE ~(x < W)
    <2>1. x = W * 1 + (x - W) /\ x - W \in 0 .. W - 1
      BY <1>2
    <2>2. x % W = x - W
      BY <2>1, ModOf
    <2>. QED BY <2>2, <1>2
  <1>. QED BY <1>1, <1>2

\* j is u positions after i exactly if u is the distance from i to j.
LEMMA Distance ==
    ASSUME NEW W \in Nat, W > 0, NEW i \in 0 .. W - 1, NEW j \in 0 .. W - 1, NEW u \in 0 .. W - 1
    PROVE  j = (i + u) % W <=> u = (j + W - i) % W
  <1>1. PICK x \in Nat : x = i + u /\ x < 2 * W
    OBVIOUS
  <1>2. PICK y \in Nat : y = j + W - i /\ y < 2 * W
    OBVIOUS
  <1>3. x % W = IF x < W THEN x ELSE x - W
    BY <1>1, ModSmall
  <1>4. y % W = IF y < W THEN y ELSE y - W
    BY <1>2, ModSmall
  <1>5. j = x % W <=> u = y % W
    BY <1>1, <1>2, <1>3, <1>4
  <1>. QED BY <1>1, <1>2, <1>5

\* Steps along the ring add up.
LEMMA Along ==
    ASSUME NEW W \in Nat, W > 0, NEW i \in 0 .. W - 1, NEW u \in Nat, NEW k \in Nat, u + k < W
    PROVE  (((i + u) % W) + k) % W = (i + (u + k)) % W
  <1>1. PICK x \in Nat : x = i + u /\ x < 2 * W
    OBVIOUS
  <1>2. x % W = IF x < W THEN x ELSE x - W
    BY <1>1, ModSmall
  <1>3. PICK m \in 0 .. W - 1 : m = x % W
    BY <1>1, <1>2
  <1>4. PICK y \in Nat : y = m + k /\ y < 2 * W
    OBVIOUS
  <1>5. PICK z \in Nat : z = i + (u + k) /\ z < 2 * W
    OBVIOUS
  <1>6. y % W = IF y < W THEN y ELSE y - W
    BY <1>4, ModSmall
  <1>7. z % W = IF z < W THEN z ELSE z - W
    BY <1>5, ModSmall
  <1>8. y % W = z % W
    BY <1>1, <1>2, <1>3, <1>4, <1>5, <1>6, <1>7
  <1>. QED BY <1>1, <1>3, <1>4, <1>5, <1>8

\* One step more.
LEMMA AlongOne ==
    ASSUME NEW W \in Nat, W > 0, NEW i \in 0 .. W - 1, NEW u \in Nat, u + 1 < W
    PROVE  (((i + u) % W) + 1) % W = (i + (u + 1)) % W
  <1>1. 1 \in Nat
    OBVIOUS
  <1>. QED BY <1>1, Along

-----------------------------------------------------------------------------

(* Stretches of the input ring *)

N == INPUT_BUF_SIZE

Index == 0 .. Wrap - 1

Chars == Letters \cup {"nl", "eof", Junk}

Buffers == [0 .. N - 1 -> Chars]

\* The v characters of ring d from position x on.
Stretch(d, x, v) == [k \in 1 .. v |-> d[(x + k - 1) % N]]

\* Slice(), for any ring.
View(d, i, j) == [k \in 1 .. Dist(i, j) |-> d[((i + k - 1) % Wrap) % N]]

\* The sizes of the input ring.
LEMMA Sizes == Wraps(N, Wrap) /\ N \in Nat /\ N > 0 /\ Wrap \in Nat /\ Wrap > 0 /\ Wrap > N
  BY InputAssumption DEF Wraps, N

\* An index that moves on by less than the wrap stays an index, and the distance
\* between the two is what it moved.
LEMMA Moves ==
    ASSUME NEW i \in Index, NEW u \in Nat, u <= N
    PROVE  (i + u) % Wrap \in Index /\ Dist(i, (i + u) % Wrap) = u
  <1>1. PICK j \in 0 .. Wrap - 1 : j = (i + u) % Wrap
    BY Sizes DEF Index
  <1>2. u \in 0 .. Wrap - 1 /\ i \in 0 .. Wrap - 1
    BY Sizes DEF Index
  <1>3. u = (j + Wrap - i) % Wrap
    BY <1>1, <1>2, Sizes, Distance, Zenon
  <1>. QED BY <1>1, <1>3 DEF Dist, Index

\* The place of an index that has moved on by u and another k.
LEMMA Place ==
    ASSUME NEW x \in Index, NEW u \in Nat, NEW k \in Nat, u + k <= N
    PROVE  /\ (((x + u) % Wrap) + k) % Wrap = (x + (u + k)) % Wrap
           /\ ((((x + u) % Wrap) + k) % Wrap) % N = (x + u + k) % N
           /\ (((x + u) % Wrap) + k) % N = (x + u + k) % N
  <1>1. x \in 0 .. Wrap - 1 /\ u + k < Wrap
    BY Sizes DEF Index
  <1>2. (((x + u) % Wrap) + k) % Wrap = (x + (u + k)) % Wrap
    BY <1>1, Sizes, Along, Zenon
  <1>3. PICK y \in Nat : y = x + (u + k) /\ y = x + u + k
    BY <1>1
  <1>4. PICK z \in Nat : z = ((x + u) % Wrap) + k
    <2>1. (x + u) % Wrap \in Nat
      BY <1>1, Sizes
    <2>. QED BY <2>1
  <1>5. (y % Wrap) % N = y % N /\ (z % Wrap) % N = z % N
    BY Sizes, ModMod, Zenon
  <1>6. z % Wrap = y % Wrap
    BY <1>2, <1>3, <1>4, Zenon
  <1>7. (z % Wrap) % N = y % N /\ z % N = y % N
    BY <1>5, <1>6, Zenon
  <1>. QED BY <1>2, <1>3, <1>4, <1>7, Zenon

\* Slice() reads a stretch, whatever the base from which positions are counted.
LEMMA SliceIs ==
    ASSUME NEW d, NEW x \in Index, NEW u \in Nat, NEW v \in Nat, u + v <= N
    PROVE  View(d, (x + u) % Wrap, (x + (u + v)) % Wrap) = Stretch(d, x + u, v)
  <1>. u <= N /\ v <= N /\ N \in Nat
    BY Sizes
  <1>. DEFINE i == (x + u) % Wrap
              j == (x + (u + v)) % Wrap
  <1>1. i \in Index
    BY Moves, Zenon
  <1>2. j = (i + v) % Wrap
    BY Place, Zenon
  <1>3. Dist(i, j) = v
    BY <1>1, <1>2, Moves, Zenon
  <1>4. ASSUME NEW k \in 1 .. v
        PROVE  ((i + k - 1) % Wrap) % N = (x + u + k - 1) % N
    <2>1. PICK m \in Nat : m = k - 1 /\ u + m <= N
      OBVIOUS
    <2>2. i + k - 1 = i + m /\ x + u + k - 1 = x + u + m
      BY <1>1, <2>1 DEF Index
    <2>3. ((((x + u) % Wrap) + m) % Wrap) % N = (x + u + m) % N
      BY <2>1, Place, Zenon
    <2>. QED BY <2>2, <2>3, Zenon
  <1>. HIDE DEF i, j
  <1>5. View(d, i, j) = Stretch(d, x + u, v)
    BY <1>3, <1>4 DEF Stretch, View
  <1>. QED BY <1>5 DEF i, j

\* A stretch is a sequence of characters.
LEMMA StretchType ==
    ASSUME NEW d \in Buffers, NEW x \in Nat, NEW v \in Nat
    PROVE  /\ Stretch(d, x, v) \in Seq(Chars)
           /\ Len(Stretch(d, x, v)) = v
           /\ \A k \in 1 .. v : Stretch(d, x, v)[k] = d[(x + k - 1) % N]
           /\ v = 0 <=> Stretch(d, x, v) = <<>>
  <1>1. ASSUME NEW k \in 1 .. v PROVE d[(x + k - 1) % N] \in Chars
    <2>1. PICK y \in Nat : y = x + k - 1
      OBVIOUS
    <2>2. y % N \in 0 .. N - 1
      BY Sizes
    <2>. QED BY <2>1, <2>2 DEF Buffers
  <1>. DEFINE s == [k \in 1 .. v |-> d[(x + k - 1) % N]]
  <1>2. s \in [1 .. v -> Chars]
    BY <1>1
  <1>. HIDE DEF s
  <1>3. s \in Seq(Chars)
    BY <1>2
  <1>4. Len(s) = v
    BY <1>2, <1>3
  <1>5. v = 0 <=> s = <<>>
    BY <1>3, <1>4
  <1>. QED BY <1>3, <1>4, <1>5 DEF Stretch, s

\* Two sequences with the same elements are the same.
LEMMA SameSeq ==
    ASSUME NEW s \in Seq(Chars), NEW t \in Seq(Chars), Len(s) = Len(t), \A k \in 1 .. Len(s) : s[k] = t[k]
    PROVE  s = t
  OBVIOUS

\* The elements of two sequences, one after the other.
LEMMA ConcatAt ==
    ASSUME NEW s \in Seq(Chars), NEW t \in Seq(Chars), NEW k \in 1 .. Len(s) + Len(t)
    PROVE  (s \o t)[k] = IF k <= Len(s) THEN s[k] ELSE t[k - Len(s)]
  OBVIOUS

\* Two rings agree on a stretch.
Agree(f, d, x, v) == \A k \in 0 .. v - 1 : f[(x + k) % N] = d[(x + k) % N]

\* They then have the same stretch.
LEMMA StretchSame ==
    ASSUME NEW d, NEW f, NEW x \in Nat, NEW v \in Nat, Agree(f, d, x, v)
    PROVE  Stretch(f, x, v) = Stretch(d, x, v)
  <1>1. ASSUME NEW k \in 1 .. v PROVE f[(x + k - 1) % N] = d[(x + k - 1) % N]
    <2>1. PICK m \in 0 .. v - 1 : m = k - 1 /\ x + k - 1 = x + m
      OBVIOUS
    <2>. QED BY <2>1, Zenon DEF Agree
  <1>. QED BY <1>1 DEF Stretch

\* A stretch that is one character longer.
LEMMA StretchAppend ==
    ASSUME NEW d \in Buffers, NEW x \in Nat, NEW v \in Nat, NEW c \in Chars, d[(x + v) % N] = c
    PROVE  Stretch(d, x, v + 1) = Append(Stretch(d, x, v), c)
  <1>. DEFINE s == Stretch(d, x, v)
              t == Stretch(d, x, v + 1)
  <1>1. s \in Seq(Chars) /\ Len(s) = v /\ \A k \in 1 .. v : s[k] = d[(x + k - 1) % N]
    BY StretchType, Zenon
  <1>2. v + 1 \in Nat /\ x + (v + 1) - 1 = x + v
    OBVIOUS
  <1>3. t \in Seq(Chars) /\ Len(t) = v + 1 /\ \A k \in 1 .. v + 1 : t[k] = d[(x + k - 1) % N]
    BY <1>2, StretchType, Zenon
  <1>4. t[v + 1] = c
    BY <1>2, <1>3
  <1>. HIDE DEF s, t
  <1>. s \in Seq(Chars) /\ Len(s) = v
    BY <1>1
  <1>5. Append(s, c) \in Seq(Chars) /\ Len(Append(s, c)) = v + 1
    BY <1>1
  <1>6. ASSUME NEW k \in 1 .. v + 1 PROVE t[k] = Append(s, c)[k]
    <2>1. CASE k = v + 1
      BY <1>1, <1>4, <2>1
    <2>2. CASE k \in 1 .. v
      <3>1. t[k] = s[k]
        BY <1>1, <1>3, <2>2
      <3>2. Append(s, c)[k] = s[k]
        BY <2>2
      <3>. QED BY <3>1, <3>2
    <2>. QED BY <2>1, <2>2
  <1>7. t = Append(s, c)
    BY <1>3, <1>5, <1>6, SameSeq
  <1>. QED BY <1>7 DEF s, t

\* Two stretches, one after the other.
LEMMA StretchConcat ==
    ASSUME NEW d \in Buffers, NEW x \in Nat, NEW u \in Nat, NEW v \in Nat
    PROVE  Stretch(d, x, u + v) = Stretch(d, x, u) \o Stretch(d, x + u, v)
  <1>. DEFINE s == Stretch(d, x, u)
              t == Stretch(d, x + u, v)
              z == Stretch(d, x, u + v)
  <1>1. s \in Seq(Chars) /\ Len(s) = u /\ \A k \in 1 .. u : s[k] = d[(x + k - 1) % N]
    BY StretchType, Zenon
  <1>2. x + u \in Nat /\ u + v \in Nat
    OBVIOUS
  <1>3. t \in Seq(Chars) /\ Len(t) = v /\ \A k \in 1 .. v : t[k] = d[(x + u + k - 1) % N]
    BY <1>2, StretchType, Zenon
  <1>4. z \in Seq(Chars) /\ Len(z) = u + v /\ \A k \in 1 .. u + v : z[k] = d[(x + k - 1) % N]
    BY <1>2, StretchType, Zenon
  <1>. HIDE DEF s, t, z
  <1>. s \in Seq(Chars) /\ Len(s) = u /\ t \in Seq(Chars) /\ Len(t) = v
    BY <1>1, <1>3
  <1>5. s \o t \in Seq(Chars) /\ Len(s \o t) = u + v
    OBVIOUS
  <1>6. ASSUME NEW k \in 1 .. u + v PROVE z[k] = (s \o t)[k]
    <2>1. CASE k \in 1 .. u
      <3>1. z[k] = s[k]
        BY <1>1, <1>4, <2>1
      <3>2. (s \o t)[k] = s[k]
        BY <2>1, ConcatAt
      <3>. QED BY <3>1, <3>2
    <2>2. CASE k > u
      <3>1. PICK m \in 1 .. v : m = k - u /\ x + u + m - 1 = x + k - 1
        BY <2>2
      <3>2. z[k] = t[m]
        BY <1>3, <1>4, <3>1
      <3>3. (s \o t)[k] = t[m]
        BY <2>2, <3>1, ConcatAt
      <3>. QED BY <3>2, <3>3
    <2>. QED BY <2>1, <2>2
  <1>7. z = s \o t
    BY <1>4, <1>5, <1>6, SameSeq
  <1>. QED BY <1>7 DEF s, t, z

\* A stretch that begins i characters later.
LEMMA StretchRest ==
    ASSUME NEW d \in Buffers, NEW x \in Nat, NEW i \in Nat, NEW v \in Nat
    PROVE  Stretch(d, x + i, v) = SubSeq(Stretch(d, x, i + v), i + 1, i + v)
  <1>. DEFINE s == Stretch(d, x, i + v)
              t == Stretch(d, x + i, v)
  <1>0. x + i \in Nat /\ i + v \in Nat
    OBVIOUS
  <1>1. s \in Seq(Chars) /\ Len(s) = i + v /\ \A k \in 1 .. i + v : s[k] = d[(x + k - 1) % N]
    BY <1>0, StretchType, Zenon
  <1>2. t \in Seq(Chars) /\ Len(t) = v /\ \A k \in 1 .. v : t[k] = d[(x + i + k - 1) % N]
    BY <1>0, StretchType, Zenon
  <1>. HIDE DEF s, t
  <1>. s \in Seq(Chars) /\ Len(s) = i + v
    BY <1>1
  <1>3. SubSeq(s, i + 1, i + v) \in Seq(Chars) /\ Len(SubSeq(s, i + 1, i + v)) = v
    OBVIOUS
  <1>4. ASSUME NEW k \in 1 .. v PROVE t[k] = SubSeq(s, i + 1, i + v)[k]
    <2>1. PICK m \in 1 .. i + v : m = i + k /\ x + m - 1 = x + i + k - 1
      OBVIOUS
    <2>2. t[k] = s[m]
      BY <1>1, <1>2, <2>1
    <2>3. SubSeq(s, i + 1, i + v)[k] = s[m]
      BY <2>1
    <2>. QED BY <2>2, <2>3
  <1>5. t = SubSeq(s, i + 1, i + v)
    BY <1>2, <1>3, <1>4, SameSeq
  <1>. QED BY <1>5 DEF s, t

\* A stretch that ends one character earlier.
LEMMA StretchFront ==
    ASSUME NEW d \in Buffers, NEW x \in Nat, NEW v \in Nat
    PROVE  Stretch(d, x, v) = SubSeq(Stretch(d, x, v + 1), 1, v)
  <1>. DEFINE s == Stretch(d, x, v + 1)
              z == Stretch(d, x, v)
  <1>0. v + 1 \in Nat
    OBVIOUS
  <1>1. s \in Seq(Chars) /\ Len(s) = v + 1 /\ \A k \in 1 .. v + 1 : s[k] = d[(x + k - 1) % N]
    BY <1>0, StretchType, Zenon
  <1>2. z \in Seq(Chars) /\ Len(z) = v /\ \A k \in 1 .. v : z[k] = d[(x + k - 1) % N]
    BY StretchType, Zenon
  <1>. HIDE DEF s, z
  <1>. s \in Seq(Chars) /\ Len(s) = v + 1
    BY <1>1
  <1>3. SubSeq(s, 1, v) \in Seq(Chars) /\ Len(SubSeq(s, 1, v)) = v
    OBVIOUS
  <1>4. ASSUME NEW k \in 1 .. v PROVE z[k] = SubSeq(s, 1, v)[k]
    <2>0. k \in 1 .. v + 1
      OBVIOUS
    <2>1. z[k] = s[k]
      BY <1>1, <1>2, <2>0, Zenon
    <2>2. SubSeq(s, 1, v)[k] = s[k]
      OBVIOUS
    <2>. QED BY <2>1, <2>2
  <1>5. z = SubSeq(s, 1, v)
    BY <1>2, <1>3, <1>4, SameSeq
  <1>. QED BY <1>5 DEF s, z

-----------------------------------------------------------------------------

(* What the operations do to the input ring *)

\* a characters are entered, and another b edited.
Marks(x, y, z, a, b) == a + b <= N /\ y = (x + a) % Wrap /\ z = (x + (a + b)) % Wrap

RingOk(d, x, y, z) ==
    /\ x \in Index /\ y \in Index /\ z \in Index
    /\ d \in Buffers
    /\ \E a \in Nat, b \in Nat : Marks(x, y, z, a, b)

RingInv == RingOk(buf, r, w, e)

\* An index that does not move.
LEMMA NoMove ==
    ASSUME NEW x \in Index
    PROVE  x % Wrap = x
  <1>1. x \in Nat /\ x < Wrap /\ x < 2 * Wrap
    BY Sizes DEF Index
  <1>. QED BY <1>1, Sizes, ModSmall

\* An index that moves on by one more.
LEMMA MoveOne ==
    ASSUME NEW x \in Index, NEW u \in Nat, u < N
    PROVE  (((x + u) % Wrap) + 1) % Wrap = (x + (u + 1)) % Wrap
  <1>1. 1 \in Nat /\ u + 1 <= N
    BY Sizes
  <1>. QED BY <1>1, Place

\* How far apart the marks then are.
LEMMA MarksDist ==
    ASSUME NEW x \in Index, NEW a \in Nat, NEW b \in Nat, NEW y, NEW z, Marks(x, y, z, a, b)
    PROVE  /\ y \in Index /\ z \in Index
           /\ Dist(x, y) = a /\ Dist(y, z) = b /\ Dist(x, z) = a + b
  <1>. a + b <= N /\ y = (x + a) % Wrap /\ z = (x + (a + b)) % Wrap
    BY DEF Marks
  <1>. a <= N /\ b <= N /\ a + b \in Nat
    BY Sizes
  <1>1. y \in Index /\ z \in Index /\ Dist(x, y) = a /\ Dist(x, z) = a + b
    BY Moves, Zenon
  <1>2. z = (y + b) % Wrap
    BY Place, Zenon
  <1>3. Dist(y, (y + b) % Wrap) = b
    BY <1>1, Moves
  <1>. QED BY <1>1, <1>2, <1>3

\* What the ring then holds.
LEMMA MarksHold ==
    ASSUME NEW d, NEW x \in Index, NEW a \in Nat, NEW b \in Nat, NEW y, NEW z, Marks(x, y, z, a, b)
    PROVE  View(d, x, y) = Stretch(d, x, a) /\ View(d, y, z) = Stretch(d, x + a, b)
  <1>1. a + b <= N
    BY DEF Marks
  <1>2. 0 \in Nat /\ 0 + a <= N
    BY <1>1, Sizes
  <1>3. View(d, (x + 0) % Wrap, (x + (0 + a)) % Wrap) = Stretch(d, x + 0, a)
    BY <1>2, SliceIs, Zenon
  <1>4. View(d, (x + a) % Wrap, (x + (a + b)) % Wrap) = Stretch(d, x + a, b)
    BY <1>1, SliceIs, Zenon
  <1>5. x + 0 = x /\ 0 + a = a /\ x % Wrap = x
    BY NoMove DEF Index
  <1>6. y = (x + a) % Wrap /\ z = (x + (a + b)) % Wrap
    BY DEF Marks
  <1>. QED BY <1>3, <1>4, <1>5, <1>6

\* The slices of the console are views.
LEMMA Slices ==
    /\ \A i, j : Slice(i, j) = View(buf, i, j)
    /\ Slice(r, w)' = View(buf', r', w')
    /\ Slice(w, e)' = View(buf', w', e')
  BY DEF Slice, View, N, Dist

\* Ring(i, j) keeps the characters from i up to j.
LEMMA RingKeeps ==
    ASSUME buf \in Buffers, NEW i \in Index, NEW v \in Nat, v <= N, NEW j, j = (i + v) % Wrap
    PROVE  /\ Ring(i, j) \in Buffers
           /\ \A k \in 0 .. v - 1 : Ring(i, j)[(i + k) % N] = buf[(i + k) % N]
  <1>1. Dist(i, j) = v
    BY Moves, Zenon
  <1>2. DOMAIN buf = 0 .. N - 1 /\ Junk \in Chars
    BY DEF Buffers, Chars
  <1>3. Ring(i, j) = [k \in 0 .. N - 1 |-> IF \E m \in 0 .. v - 1 : (i + m) % N = k THEN buf[k] ELSE Junk]
    BY <1>1, <1>2, Zenon DEF Ring, N
  <1>4. Ring(i, j) \in Buffers
    BY <1>2, <1>3 DEF Buffers
  <1>5. ASSUME NEW k \in 0 .. v - 1 PROVE Ring(i, j)[(i + k) % N] = buf[(i + k) % N]
    <2>1. (i + k) % N \in 0 .. N - 1
      <3>1. i + k \in Nat
        BY DEF Index
      <3>. QED BY <3>1, Sizes
    <2>2. PICK c \in 0 .. N - 1 : c = (i + k) % N
      BY <2>1
    <2>3. Ring(i, j)[c] = buf[c]
      BY <1>3, <2>2
    <2>. QED BY <2>2, <2>3
  <1>. QED BY <1>4, <1>5

\* Ring d, with its marks, after c was stored in it at z.
AfterStore(d, x, y, z, a, b, c) ==
    LET f == [d EXCEPT ![z % N] = c]
        i == (z + 1) % Wrap
    IN  /\ f \in Buffers
        /\ Marks(x, y, i, a, b + 1) /\ Marks(x, i, i, a + b + 1, 0)
        /\ View(f, x, y) = View(d, x, y)
        /\ View(f, y, i) = Append(View(d, y, z), c)
        /\ View(f, x, i) = Append(View(d, x, y) \o View(d, y, z), c)
        /\ View(f, i, i) = <<>>

\* A character goes behind the edited ones.
LEMMA Stored ==
    ASSUME NEW d \in Buffers, NEW x \in Index, NEW a \in Nat, NEW b \in Nat, NEW y, NEW z, Marks(x, y, z, a, b),
           a + b < N, NEW c \in Chars
    PROVE  AfterStore(d, x, y, z, a, b, c)
  <1>0. /\ x \in Nat /\ x + a \in Nat /\ a + b \in Nat /\ b + 1 \in Nat /\ a + b + 1 \in Nat /\ x + (a + b + 1) \in Nat
        /\ x + (a + b) \in Nat /\ 0 \in Nat
    BY DEF Index
  <1>1. /\ a + (b + 1) = a + b + 1 /\ (a + b + 1) + 0 = a + b + 1 /\ a + b + 1 <= N /\ N \in Nat
        /\ x + a + b = x + (a + b)
    BY <1>0, Sizes
  <1>2. View(d, x, y) = Stretch(d, x, a) /\ View(d, y, z) = Stretch(d, x + a, b)
    BY MarksHold
  <1>3. z = (x + (a + b)) % Wrap
    BY DEF Marks
  <1>4. z % N = (x + (a + b)) % N /\ z % N \in 0 .. N - 1
    <2>1. z % N = (x + (a + b)) % N
      BY <1>0, <1>3, Sizes, ModMod, Zenon
    <2>2. (x + (a + b)) % N \in 0 .. N - 1
      BY <1>0, Sizes
    <2>. QED BY <2>1, <2>2, Zenon
  <1>. DEFINE f == [d EXCEPT ![z % N] = c]
              i == (z + 1) % Wrap
  <1>5. f \in Buffers /\ f[(x + (a + b)) % N] = c
    BY <1>4 DEF Buffers
  <1>6. ASSUME NEW k \in 0 .. a + b - 1 PROVE f[(x + k) % N] = d[(x + k) % N]
    <2>1. x + k \in Nat /\ x + k < x + (a + b) /\ x + (a + b) < (x + k) + N
      BY <1>0, <1>1
    <2>2. (x + k) % N # (x + (a + b)) % N
      BY <1>0, <2>1, Sizes, ModApart, Zenon
    <2>3. (x + k) % N \in 0 .. N - 1
      BY <2>1, Sizes
    <2>. QED BY <1>4, <2>2, <2>3 DEF Buffers
  <1>7. i = (x + (a + b + 1)) % Wrap
    BY <1>0, <1>3, MoveOne, Zenon
  <1>. HIDE DEF f, i
  <1>8. Marks(x, y, i, a, b + 1) /\ Marks(x, i, i, a + b + 1, 0)
    BY <1>0, <1>1, <1>7 DEF Marks
  <1>9. View(f, x, y) = Stretch(f, x, a) /\ View(f, y, i) = Stretch(f, x + a, b + 1)
    BY <1>0, <1>8, MarksHold
  <1>10. View(f, x, i) = Stretch(f, x, a + b + 1) /\ View(f, i, i) = Stretch(f, x + (a + b + 1), 0)

    <2>1. PICK m \in Nat, q \in Nat : m = a + b + 1 /\ q = 0 /\ Marks(x, i, i, m, q)
      BY <1>0, <1>8
    <2>2. View(f, x, i) = Stretch(f, x, m) /\ View(f, i, i) = Stretch(f, x + m, q)
      BY <2>1, MarksHold
    <2>. QED BY <2>1, <2>2
  <1>11. Stretch(f, x, a) = Stretch(d, x, a)
    <2>1. Agree(f, d, x, a)
      BY <1>6 DEF Agree
    <2>. QED BY <1>0, <2>1, StretchSame
  <1>12. Stretch(f, x + a, b) = Stretch(d, x + a, b)
    <2>1. ASSUME NEW k \in 0 .. b - 1 PROVE f[(x + a + k) % N] = d[(x + a + k) % N]
      <3>1. PICK m \in 0 .. a + b - 1 : x + m = x + a + k
        <4>1. a + k \in 0 .. a + b - 1 /\ x + (a + k) = x + a + k
          BY <1>0
        <4>. QED BY <4>1
      <3>2. f[(x + m) % N] = d[(x + m) % N]
        BY <1>6
      <3>. QED BY <3>1, <3>2, Zenon
    <2>2. Agree(f, d, x + a, b)
      BY <2>1, Zenon DEF Agree
    <2>. QED BY <1>0, <2>2, StretchSame
  <1>13. Stretch(f, x + a, b + 1) = Append(Stretch(d, x + a, b), c)
    <2>1. f[(x + a + b) % N] = c
      BY <1>1, <1>5, Zenon
    <2>2. Stretch(f, x + a, b + 1) = Append(Stretch(f, x + a, b), c)
      BY <1>0, <1>5, <2>1, StretchAppend
    <2>. QED BY <1>12, <2>2, Zenon
  <1>14. Stretch(f, x, a + b + 1) = Append(Stretch(d, x, a) \o Stretch(d, x + a, b), c)
    <2>1. Stretch(f, x, (a + b) + 1) = Append(Stretch(f, x, a + b), c)
      BY <1>0, <1>5, StretchAppend
    <2>2. Stretch(f, x, a + b) = Stretch(f, x, a) \o Stretch(f, x + a, b)
      <3>1. f \in Buffers /\ x \in Nat
        BY <1>0, <1>5
      <3>. QED BY <3>1, StretchConcat, Zenon
    <2>. QED BY <1>11, <1>12, <2>1, <2>2, Zenon
  <1>15. Stretch(f, x + (a + b + 1), 0) = <<>>
    BY <1>0, <1>5, StretchType
  <1>. QED BY <1>2, <1>5, <1>8, <1>9, <1>10, <1>11, <1>13, <1>14, <1>15 DEF f, i, AfterStore
\* Rings that agree from x up to z hold the same characters there.
LEMMA AgreeSame ==
    ASSUME NEW d, NEW f, NEW x \in Index, NEW a \in Nat, NEW b \in Nat, NEW y, NEW z, Marks(x, y, z, a, b),
           Agree(f, d, x, a + b)
    PROVE  View(f, x, y) = View(d, x, y) /\ View(f, y, z) = View(d, y, z)
  <1>1. x \in Nat /\ x + a \in Nat
    BY DEF Index
  <1>2. Agree(f, d, x, a)
    BY DEF Agree
  <1>3. Agree(f, d, x + a, b)
    <2>1. ASSUME NEW k \in 0 .. b - 1 PROVE f[(x + a + k) % N] = d[(x + a + k) % N]
      <3>1. a + k \in 0 .. a + b - 1 /\ x + (a + k) = x + a + k
        BY <1>1
      <3>2. f[(x + (a + k)) % N] = d[(x + (a + k)) % N]
        BY <3>1 DEF Agree
      <3>. QED BY <3>1, <3>2
    <2>. QED BY <2>1, Zenon DEF Agree
  <1>4. Stretch(f, x, a) = Stretch(d, x, a)
    BY <1>1, <1>2, StretchSame
  <1>5. Stretch(f, x + a, b) = Stretch(d, x + a, b)
    BY <1>1, <1>3, StretchSame
  <1>6. View(f, x, y) = Stretch(f, x, a) /\ View(f, y, z) = Stretch(f, x + a, b)
    BY MarksHold
  <1>7. View(d, x, y) = Stretch(d, x, a) /\ View(d, y, z) = Stretch(d, x + a, b)
    BY MarksHold
  <1>. QED BY <1>4, <1>5, <1>6, <1>7

\* An index that moves on by m and back.
LEMMA MoveBack ==
    ASSUME NEW j \in Index, NEW m \in Nat, m <= N
    PROVE  (((j + m) % Wrap) + Wrap - m) % Wrap = j
  <1>1. j \in Nat /\ j < Wrap /\ m < Wrap /\ Wrap \in Nat /\ Wrap > 0
    BY Sizes DEF Index
  <1>2. PICK x \in Nat : x = j + m /\ x < 2 * Wrap
    BY <1>1
  <1>3. x % Wrap = IF x < Wrap THEN x ELSE x - Wrap
    BY <1>1, <1>2, ModSmall
  <1>4. PICK z \in Nat : z = x % Wrap
    BY <1>1, <1>2, <1>3
  <1>5. PICK y \in Nat : y = z + Wrap - m /\ y < 2 * Wrap
    BY <1>1, <1>2, <1>3, <1>4
  <1>6. y % Wrap = IF y < Wrap THEN y ELSE y - Wrap
    BY <1>1, <1>5, ModSmall
  <1>7. y % Wrap = j
    BY <1>1, <1>2, <1>3, <1>4, <1>5, <1>6
  <1>. QED BY <1>2, <1>4, <1>5, <1>7

\* The ring after m characters before z were taken back.
AfterErase(x, y, z, a, v, m) ==
    LET j == (z + Wrap - m) % Wrap
    IN  /\ Ring(x, j) \in Buffers
        /\ Marks(x, y, j, a, v)
        /\ View(Ring(x, j), x, y) = View(buf, x, y)
        /\ View(Ring(x, j), y, j) = Stretch(buf, x + a, v)

\* The last m of the edited characters are taken back: a backspace or a line kill.
LEMMA TakenBack ==
    ASSUME buf \in Buffers, NEW x \in Index, NEW a \in Nat, NEW v \in Nat, NEW m \in Nat, NEW y, NEW z,
           Marks(x, y, z, a, v + m)
    PROVE  AfterErase(x, y, z, a, v, m)
  <1>. DEFINE j == (x + (a + v)) % Wrap
  <1>1. a + v \in Nat /\ a + v <= N /\ m <= N /\ (a + v) + m <= N /\ (a + v) + m = a + (v + m)
    BY Sizes DEF Marks
  <1>2. j \in Index
    BY <1>1, Moves, Zenon
  <1>3. z = (j + m) % Wrap
    <2>1. (j + m) % Wrap = (x + ((a + v) + m)) % Wrap
      BY <1>1, Place
    <2>2. z = (x + (a + (v + m))) % Wrap
      BY DEF Marks
    <2>. QED BY <1>1, <2>1, <2>2
  <1>4. Marks(x, y, j, a, v)
    BY <1>1 DEF Marks
  <1>5. Ring(x, j) \in Buffers /\ Agree(Ring(x, j), buf, x, a + v)
    BY <1>1, RingKeeps, Zenon DEF Agree
  <1>. HIDE DEF j
  <1>6. (z + Wrap - m) % Wrap = j
    <2>1. (((j + m) % Wrap) + Wrap - m) % Wrap = j
      BY <1>1, <1>2, MoveBack
    <2>. QED BY <1>3, <2>1
  <1>7. View(Ring(x, j), x, y) = View(buf, x, y) /\ View(Ring(x, j), y, j) = View(buf, y, j)
    BY <1>4, <1>5, AgreeSame
  <1>8. View(buf, y, j) = Stretch(buf, x + a, v)
    BY <1>4, MarksHold
  <1>. QED BY <1>4, <1>5, <1>6, <1>7, <1>8 DEF AfterErase

\* The ring after m characters from x on were read.
AfterRead(x, y, z, m, v, b) ==
    LET i == (x + m) % Wrap
    IN  /\ i \in Index /\ Ring(i, z) \in Buffers
        /\ Marks(i, y, z, v, b)
        /\ View(Ring(i, z), i, y) = SubSeq(View(buf, x, y), m + 1, m + v)
        /\ View(Ring(i, z), y, z) = View(buf, y, z)

\* The first m of the entered characters are read.
LEMMA Read ==
    ASSUME buf \in Buffers, NEW x \in Index, NEW m \in Nat, NEW v \in Nat, NEW b \in Nat, NEW y, NEW z,
           Marks(x, y, z, m + v, b)
    PROVE  AfterRead(x, y, z, m, v, b)
  <1>. DEFINE i == (x + m) % Wrap
  <1>1. /\ x \in Nat /\ m <= N /\ v + b \in Nat /\ v + b <= N /\ m + v \in Nat
        /\ m + v <= N /\ m + (v + b) <= N /\ m + (v + b) = (m + v) + b
    BY Sizes DEF Marks, Index
  <1>2. i \in Index
    BY <1>1, Moves, Zenon
  <1>3. Marks(i, y, z, v, b)
    <2>1. (i + v) % Wrap = (x + (m + v)) % Wrap
      BY <1>1, Place
    <2>2. (i + (v + b)) % Wrap = (x + (m + (v + b))) % Wrap
      BY <1>1, Place
    <2>. HIDE DEF i
    <2>3. y = (x + (m + v)) % Wrap /\ z = (x + ((m + v) + b)) % Wrap
      BY DEF Marks
    <2>. QED BY <1>1, <2>1, <2>2, <2>3 DEF Marks
  <1>4. View(buf, i, y) = Stretch(buf, x + m, v)
    <2>0. m + v <= N
      BY <1>1
    <2>1. View(buf, (x + m) % Wrap, (x + (m + v)) % Wrap) = Stretch(buf, x + m, v)
      BY <2>0, SliceIs, Zenon
    <2>2. y = (x + (m + v)) % Wrap
      BY DEF Marks
    <2>. QED BY <2>1, <2>2
  <1>5. i = (x + m) % Wrap
    OBVIOUS
  <1>. HIDE DEF i
  <1>6. Ring(i, z) \in Buffers /\ Agree(Ring(i, z), buf, i, v + b)
    <2>1. z = (i + (v + b)) % Wrap
      BY <1>3 DEF Marks
    <2>2. v + b \in Nat /\ v + b <= N
      BY <1>1
    <2>3. /\ Ring(i, z) \in Buffers
          /\ \A k \in 0 .. (v + b) - 1 : Ring(i, z)[(i + k) % N] = buf[(i + k) % N]
      BY <1>2, <2>1, <2>2, RingKeeps, Zenon
    <2>. QED BY <2>3, Zenon DEF Agree
  <1>7. View(Ring(i, z), i, y) = View(buf, i, y) /\ View(Ring(i, z), y, z) = View(buf, y, z)
    BY <1>2, <1>3, <1>6, AgreeSame
  <1>8. Stretch(buf, x + m, v) = SubSeq(Stretch(buf, x, m + v), m + 1, m + v)
    <2>1. x \in Nat
      BY <1>1
    <2>. QED BY <2>1, StretchRest
  <1>9. View(buf, x, y) = Stretch(buf, x, m + v)
    <2>1. m + v \in Nat
      OBVIOUS
    <2>2. View(buf, x, y) = Stretch(buf, x, m + v) /\ View(buf, y, z) = Stretch(buf, x + (m + v), b)
      BY <2>1, MarksHold
    <2>. QED BY <2>2
  <1>10. View(Ring(i, z), i, y) = SubSeq(View(buf, x, y), m + 1, m + v)
    BY <1>4, <1>7, <1>8, <1>9
  <1>. QED BY <1>2, <1>3, <1>5, <1>6, <1>7, <1>10 DEF AfterRead

-----------------------------------------------------------------------------

(* The steps of the line discipline *)

Typed == Letters \cup {"nl", "eof"} \cup Commands

\* What the ring holds, in terms of the slices that Tty sees.
LEMMA Held ==
    ASSUME RingInv
    PROVE  \E a \in Nat, b \in Nat :
              /\ Marks(r, w, e, a, b)
              /\ Dist(r, w) = a /\ Dist(w, e) = b /\ Dist(r, e) = a + b
              /\ Slice(r, w) = Stretch(buf, r, a) /\ Slice(w, e) = Stretch(buf, r + a, b)
              /\ Slice(r, w) \in Seq(Chars) /\ Len(Slice(r, w)) = a
              /\ Slice(w, e) \in Seq(Chars) /\ Len(Slice(w, e)) = b
              /\ r \in Index /\ r \in Nat /\ w \in Index /\ e \in Index /\ buf \in Buffers
              /\ (e # w) = (b > 0)
  <1>1. r \in Index /\ w \in Index /\ e \in Index /\ buf \in Buffers /\ r \in Nat
    BY DEF RingInv, RingOk, Index
  <1>2. PICK a \in Nat, b \in Nat : Marks(r, w, e, a, b)
    BY DEF RingInv, RingOk
  <1>3. Dist(r, w) = a /\ Dist(w, e) = b /\ Dist(r, e) = a + b
    BY <1>1, <1>2, MarksDist
  <1>4. Slice(r, w) = Stretch(buf, r, a) /\ Slice(w, e) = Stretch(buf, r + a, b)
    <2>1. View(buf, r, w) = Stretch(buf, r, a) /\ View(buf, w, e) = Stretch(buf, r + a, b)
      BY <1>1, <1>2, MarksHold
    <2>. QED BY <2>1, Slices
  <1>5. Stretch(buf, r, a) \in Seq(Chars) /\ Len(Stretch(buf, r, a)) = a
    BY <1>1, StretchType, Zenon
  <1>6. Stretch(buf, r + a, b) \in Seq(Chars) /\ Len(Stretch(buf, r + a, b)) = b
    <2>1. r + a \in Nat
      BY <1>1
    <2>. QED BY <1>1, <2>1, StretchType, Zenon
  <1>7. (e # w) = (b > 0)
    <2>1. ASSUME e = w PROVE b = 0
      <3>1. Dist(w, w) = 0
        <4>1. 0 \in Nat /\ 0 <= N /\ w + 0 = w
          BY <1>1, Sizes DEF Index
        <4>2. Dist(w, (w + 0) % Wrap) = 0
          BY <1>1, <4>1, Moves
        <4>. QED BY <1>1, <4>1, <4>2, NoMove
      <3>. QED BY <1>3, <2>1, <3>1
    <2>2. ASSUME b = 0 PROVE e = w
      <3>1. e = (r + (a + b)) % Wrap /\ w = (r + a) % Wrap /\ a + b = a
        BY <1>2, <2>2 DEF Marks
      <3>. QED BY <3>1
    <2>. QED BY <2>1, <2>2
  <1>. QED BY <1>1, <1>2, <1>3, <1>4, <1>5, <1>6, <1>7

\* consoleintr() stores a character: Type() of Tty.
LEMMA TypeStep ==
    ASSUME RingInv, NEW c \in Typed, consoleintr(c), Stores(c)
    PROVE  RingInv' /\ Line!Type(c) /\ c \in Letters \cup {"nl", "eof"}
  <1>1. PICK a \in Nat, b \in Nat :
           /\ Marks(r, w, e, a, b)
           /\ Dist(r, w) = a /\ Dist(w, e) = b /\ Dist(r, e) = a + b
           /\ Slice(r, w) \in Seq(Chars) /\ Len(Slice(r, w)) = a
           /\ Slice(w, e) \in Seq(Chars) /\ Len(Slice(w, e)) = b
           /\ r \in Index /\ r \in Nat /\ w \in Index /\ e \in Index /\ buf \in Buffers
    BY Held
  <1>2. c \in Letters \cup {"nl", "eof"} /\ c \in Chars /\ a + b < N
    BY <1>1 DEF Stores, Typed, Chars, N
  <1>3. /\ buf' = [buf EXCEPT ![e % N] = c] /\ e' = (e + 1) % Wrap /\ r' = r
        /\ Enters(c) => w' = e'
        /\ ~Enters(c) => w' = w
    BY DEF consoleintr, N
  <1>4. Enters(c) <=> ~(c \in Letters /\ a + b + 1 < N)
    BY <1>1, <1>2, LettersAssumption, Sizes DEF Enters, N
  <1>5. /\ buf' \in Buffers
        /\ Marks(r, w, e', a, b + 1) /\ Marks(r, e', e', a + b + 1, 0)
        /\ View(buf', r, w) = View(buf, r, w)
        /\ View(buf', w, e') = Append(View(buf, w, e), c)
        /\ View(buf', r, e') = Append(View(buf, r, w) \o View(buf, w, e), c)
        /\ View(buf', e', e') = <<>>
    <2>. DEFINE f == [buf EXCEPT ![e % N] = c]
                i == (e + 1) % Wrap
    <2>1. /\ f \in Buffers
          /\ Marks(r, w, i, a, b + 1) /\ Marks(r, i, i, a + b + 1, 0)
          /\ View(f, r, w) = View(buf, r, w)
          /\ View(f, w, i) = Append(View(buf, w, e), c)
          /\ View(f, r, i) = Append(View(buf, r, w) \o View(buf, w, e), c)
          /\ View(f, i, i) = <<>>
      <3>1. Marks(r, w, e, a, b) /\ r \in Index /\ buf \in Buffers /\ c \in Chars /\ a + b < N
        BY <1>1, <1>2
      <3>2. AfterStore(buf, r, w, e, a, b, c)
        BY <3>1, Stored, Zenon
      <3>. QED BY <3>2, Zenon DEF AfterStore
    <2>2. buf' = f /\ e' = i
      BY <1>3
    <2>. QED BY <2>1, <2>2
  <1>6. e' \in Index
    <2>1. e \in Nat
      BY <1>1 DEF Index
    <2>. QED BY <1>3, <2>1, Sizes DEF Index
  <1>7. CASE ~Enters(c)
    <2>1. Slice(r, w)' = Slice(r, w) /\ Slice(w, e)' = Append(Slice(w, e), c)
      BY <1>3, <1>5, <1>7, Slices
    <2>2. RingOk(buf', r', w', e')
      <3>1. \E i \in Nat, j \in Nat : Marks(r, w, e', i, j)
        BY <1>5
      <3>2. r' = r /\ w' = w
        BY <1>3, <1>7
      <3>. QED BY <1>1, <1>5, <1>6, <3>1, <3>2 DEF RingOk
    <2>3. Line!Type(c)
      BY <1>1, <1>2, <1>4, <1>7, <2>1 DEF Line!Type, N
    <2>. QED BY <1>2, <2>2, <2>3 DEF RingInv, RingOk, Marks
  <1>8. CASE Enters(c)
    <2>1. Slice(r, w)' = Append(Slice(r, w) \o Slice(w, e), c) /\ Slice(w, e)' = <<>>
      BY <1>3, <1>5, <1>8, Slices
    <2>2. RingOk(buf', r', w', e')
      <3>1. \E i \in Nat, j \in Nat : Marks(r, e', e', i, j)
        BY <1>5
      <3>2. r' = r /\ w' = e'
        BY <1>3, <1>8
      <3>. QED BY <1>1, <1>5, <1>6, <3>1, <3>2 DEF RingOk
    <2>3. Line!Type(c)
      BY <1>1, <1>2, <1>4, <1>8, <2>1 DEF Line!Type, N
    <2>. QED BY <1>2, <2>2, <2>3 DEF RingInv, RingOk, Marks
  <1>. QED BY <1>7, <1>8

\* consoleintr() stores nothing: a backspace, a line kill, or no effect.
LEMMA EraseStep ==
    ASSUME RingInv, NEW c \in Typed, consoleintr(c), ~Stores(c)
    PROVE  RingInv' /\ (Line!Next \/ UNCHANGED <<Slice(r, w), Slice(w, e)>>)
  <1>1. PICK a \in Nat, b \in Nat :
           /\ Marks(r, w, e, a, b)
           /\ Dist(w, e) = b
           /\ Slice(w, e) = Stretch(buf, r + a, b)
           /\ Slice(w, e) \in Seq(Chars) /\ Len(Slice(w, e)) = b
           /\ r \in Index /\ r \in Nat /\ w \in Index /\ e \in Index /\ buf \in Buffers
           /\ (e # w) = (b > 0)
    BY Held
  <1>2. PICK m \in Nat, v \in Nat :
           /\ m = Erased(c) /\ b = v + m
           /\ m = 0 \/ (c = "bs" /\ m = 1 /\ b > 0) \/ (c = "kill" /\ m = b)
    <2>1. Erased(c) \in Nat /\ Erased(c) <= b
      BY <1>1 DEF Erased
    <2>2. Erased(c) = 0 \/ (c = "bs" /\ Erased(c) = 1 /\ b > 0) \/ (c = "kill" /\ Erased(c) = b)
      BY <1>1 DEF Erased
    <2>3. b - Erased(c) \in Nat /\ b = (b - Erased(c)) + Erased(c)
      BY <2>1
    <2>. QED BY <2>1, <2>2, <2>3
  <1>3. e' = (e + Wrap - m) % Wrap /\ buf' = Ring(r, e') /\ w' = w /\ r' = r
    BY <1>2 DEF consoleintr
  <1>4. /\ buf' \in Buffers /\ Marks(r, w, e', a, v)
        /\ View(buf', r, w) = View(buf, r, w) /\ View(buf', w, e') = Stretch(buf, r + a, v)
    <2>1. Marks(r, w, e, a, v + m) /\ r \in Index /\ buf \in Buffers
      BY <1>1, <1>2
    <2>2. AfterErase(r, w, e, a, v, m)
      BY <2>1, TakenBack, Zenon
    <2>. QED BY <1>3, <2>2 DEF AfterErase
  <1>5. RingInv'
    <2>1. e' \in Index
      BY <1>1, <1>4, MarksDist
    <2>2. \E i \in Nat, j \in Nat : Marks(r, w, e', i, j)
      BY <1>4
    <2>3. RingOk(buf', r', w', e')
      BY <1>1, <1>3, <1>4, <2>1, <2>2 DEF RingOk
    <2>. QED BY <2>3 DEF RingInv, RingOk, Marks
  <1>6. Slice(r, w)' = Slice(r, w) /\ Slice(w, e)' = Stretch(buf, r + a, v)
    BY <1>3, <1>4, Slices
  <1>7. CASE m = 0
    <2>1. v = b
      BY <1>2, <1>7
    <2>. QED BY <1>1, <1>5, <1>6, <2>1
  <1>8. CASE c = "bs" /\ m = 1 /\ b > 0
    <2>1. b = v + 1 /\ v = b - 1 /\ r + a \in Nat /\ buf \in Buffers
      BY <1>1, <1>2, <1>8
    <2>2. Stretch(buf, r + a, v) = SubSeq(Stretch(buf, r + a, v + 1), 1, v)
      BY <2>1, StretchFront
    <2>3. Slice(w, e)' = SubSeq(Slice(w, e), 1, Len(Slice(w, e)) - 1) /\ Slice(w, e) # <<>>
      BY <1>1, <1>6, <1>8, <2>1, <2>2
    <2>4. Line!Erase
      BY <1>6, <2>3 DEF Line!Erase
    <2>. QED BY <1>5, <2>4 DEF Line!Next
  <1>9. CASE c = "kill" /\ m = b
    <2>1. v = 0 /\ r + a \in Nat
      BY <1>1, <1>2, <1>9
    <2>2. Stretch(buf, r + a, v) = <<>>
      BY <1>1, <2>1, StretchType
    <2>3. Line!Kill
      BY <1>6, <2>2 DEF Line!Kill
    <2>. QED BY <1>5, <2>3 DEF Line!Next
  <1>. QED BY <1>2, <1>7, <1>8, <1>9

\* consoleread() takes characters as Take() of Tty, or none.
LEMMA ReadStep ==
    ASSUME RingInv, NEW p \in Readers, consoleread(p)
    PROVE  RingInv' /\ (Line!Next \/ UNCHANGED <<Slice(r, w), Slice(w, e)>>)
  <1>1. PICK a \in Nat, b \in Nat :
           /\ Marks(r, w, e, a, b)
           /\ Slice(r, w) \in Seq(Chars) /\ Len(Slice(r, w)) = a
           /\ r \in Index /\ r \in Nat /\ w \in Index /\ e \in Index /\ buf \in Buffers
    BY Held
  <1>. DEFINE s == Slice(r, w)
  <1>2. PICK k \in Copied(p, s), m \in Nat :
           /\ m <= k \/ (m = 1 /\ k = 0 /\ k < Len(s))
           /\ r' = (r + m) % Wrap
    <2>1. PICK k \in Copied(p, s) :
             \/ r' = (r + k) % Wrap
             \/ k = 0 /\ k < Len(s) /\ r' = (r + 1) % Wrap
             \/ \E i \in 1 .. k : r' = (r + i) % Wrap
      BY DEF consoleread
    <2>2. k \in Nat
      BY <1>1, <2>1 DEF Copied
    <2>. QED BY <2>1, <2>2
  <1>3. k \in 0 .. a /\ \A i \in 1 .. k : s[i] # "eof" /\ (s[i] = "nl" => i = k)
    BY <1>1, <1>2 DEF Copied
  <1>. HIDE DEF s
  <1>4. m <= a /\ \A i \in 1 .. m : (s[i] = "nl" => i = m) /\ (s[i] = "eof" => m = 1)
    <2>0. Len(s) = a
      BY <1>1 DEF s
    <2>1. CASE m <= k
      BY <1>3, <2>1
    <2>2. CASE m = 1 /\ k = 0 /\ k < Len(s)
      BY <2>0, <2>2
    <2>. QED BY <1>2, <2>1, <2>2
  <1>5. PICK v \in Nat : a = m + v
    <2>1. a - m \in Nat /\ a = m + (a - m)
      BY <1>4
    <2>. QED BY <2>1
  <1>6. buf' = Ring(r', e) /\ w' = w /\ e' = e
    BY DEF consoleread
  <1>7. /\ r' \in Index /\ buf' \in Buffers /\ Marks(r', w, e, v, b)
        /\ View(buf', r', w) = SubSeq(View(buf, r, w), m + 1, a) /\ View(buf', w, e) = View(buf, w, e)
    <2>1. Marks(r, w, e, m + v, b) /\ r \in Index /\ buf \in Buffers
      BY <1>1, <1>5
    <2>2. AfterRead(r, w, e, m, v, b)
      BY <2>1, Read, Zenon
    <2>. QED BY <1>2, <1>5, <1>6, <2>2 DEF AfterRead
  <1>8. RingInv'
    <2>1. \E i \in Nat, j \in Nat : Marks(r', w, e, i, j)
      BY <1>7
    <2>2. RingOk(buf', r', w', e')
      BY <1>1, <1>6, <1>7, <2>1 DEF RingOk
    <2>. QED BY <2>2 DEF RingInv, RingOk, Marks
  <1>9. Slice(r, w)' = SubSeq(s, m + 1, Len(s)) /\ Slice(w, e)' = Slice(w, e) /\ s = Slice(r, w)
    BY <1>1, <1>6, <1>7, Slices DEF s
  <1>10. CASE m = 0
    <2>1. SubSeq(s, m + 1, Len(s)) = s
      BY <1>1, <1>9, <1>10
    <2>. QED BY <1>8, <1>9, <2>1
  <1>11. CASE m > 0
    <2>1. m \in 1 .. Len(Slice(r, w))
      BY <1>1, <1>4, <1>11
    <2>2. Line!Take(m)
      BY <1>4, <1>9 DEF Line!Take
    <2>. QED BY <1>8, <2>1, <2>2 DEF Line!Next
  <1>. QED BY <1>10, <1>11

-----------------------------------------------------------------------------

(* The transmit ring *)

T == UART_TX_BUF_SIZE

TxIndex == 0 .. TxWrap - 1

\* Ring d holds u bytes, from index i up to j.
TxHolds(d, i, j, u) ==
    /\ u <= T /\ j = (i + u) % TxWrap
    /\ \A k \in 0 .. u - 1 : d[((i + k) % TxWrap) % T] = (i + k) % TxWrap

TxInv ==
    /\ tx_w \in TxIndex /\ tx_r \in TxIndex
    /\ tx_buf \in [0 .. T - 1 -> 0 .. TxWrap]
    /\ \E u \in Nat : TxHolds(tx_buf, tx_r, tx_w, u)

\* The sizes of the transmit ring.
LEMMA TxSizes ==
    Wraps(T, TxWrap) /\ T \in Nat /\ T > 0 /\ TxWrap \in Nat /\ TxWrap > 0 /\ TxWrap > T
  BY TxAssumption DEF Wraps, T

\* A byte is added at j.
LEMMA TxPut ==
    ASSUME NEW d \in [0 .. T - 1 -> 0 .. TxWrap], NEW i \in TxIndex, NEW j \in TxIndex, NEW u \in Nat,
           TxHolds(d, i, j, u), u < T
    PROVE  TxHolds([d EXCEPT ![j % T] = j], i, (j + 1) % TxWrap, u + 1)
  <1>. DEFINE f == [d EXCEPT ![j % T] = j]
  <1>1. i \in Nat /\ i \in 0 .. TxWrap - 1 /\ j \in Nat /\ i + u \in Nat /\ j \in 0 .. TxWrap
    BY TxSizes DEF TxIndex
  <1>2. j = (i + u) % TxWrap
    BY DEF TxHolds
  <1>3. j % T = (i + u) % T /\ j % T \in 0 .. T - 1
    <2>1. j % T = (i + u) % T
      BY <1>1, <1>2, TxSizes, ModMod
    <2>2. j % T \in 0 .. T - 1
      BY <1>1, TxSizes
    <2>. QED BY <2>1, <2>2
  <1>4. (j + 1) % TxWrap = (i + (u + 1)) % TxWrap
    <2>1. u + 1 < TxWrap
      BY TxSizes
    <2>2. (((i + u) % TxWrap) + 1) % TxWrap = (i + (u + 1)) % TxWrap
      BY <1>1, <2>1, TxSizes, AlongOne
    <2>. QED BY <1>2, <2>2
  <1>5. ASSUME NEW k \in 0 .. (u + 1) - 1 PROVE f[((i + k) % TxWrap) % T] = (i + k) % TxWrap
    <2>1. i + k \in Nat /\ ((i + k) % TxWrap) % T = (i + k) % T
      <3>1. i + k \in Nat
        BY <1>1
      <3>. QED BY <3>1, TxSizes, ModMod
    <2>2. CASE k = u
      BY <1>2, <1>3, <2>1, <2>2
    <2>3. CASE k < u
      <3>1. i + k < i + u /\ i + u < (i + k) + T /\ k \in 0 .. u - 1
        BY <1>1, <2>3, TxSizes
      <3>2. (i + k) % T # (i + u) % T
        BY <1>1, <2>1, <3>1, TxSizes, ModApart, Zenon
      <3>3. (i + k) % T \in 0 .. T - 1
        BY <2>1, TxSizes
      <3>4. f[(i + k) % T] = d[(i + k) % T]
        BY <1>3, <3>2, <3>3
      <3>5. d[((i + k) % TxWrap) % T] = (i + k) % TxWrap
        BY <3>1 DEF TxHolds
      <3>. QED BY <2>1, <3>4, <3>5
    <2>. QED BY <2>2, <2>3
  <1>6. u + 1 <= T
    BY TxSizes
  <1>. QED BY <1>4, <1>5, <1>6 DEF TxHolds

\* The byte at i is taken: it is byte number i, and the last one before the next.
LEMMA TxGet ==
    ASSUME NEW d, NEW i \in TxIndex, NEW j \in TxIndex, NEW u \in Nat, TxHolds(d, i, j, u), i # j
    PROVE  /\ \E v \in Nat : TxHolds(d, (i + 1) % TxWrap, j, v)
           /\ d[i % T] = i
           /\ (((i + 1) % TxWrap) + TxWrap - 1) % TxWrap = i
           /\ (i + 1) % TxWrap \in TxIndex
  <1>1. i \in Nat /\ i \in 0 .. TxWrap - 1 /\ i < TxWrap /\ i + 1 < 2 * TxWrap /\ i < 2 * TxWrap
    BY TxSizes DEF TxIndex
  <1>2. (i + 0) % TxWrap = i
    <2>1. i % TxWrap = i
      BY <1>1, TxSizes, ModSmall
    <2>. QED BY <1>1, <2>1
  <1>3. u > 0
    <2>1. ASSUME u = 0 PROVE FALSE
      <3>1. j = (i + 0) % TxWrap
        BY <2>1 DEF TxHolds
      <3>. QED BY <1>2, <3>1
    <2>. QED BY <2>1
  <1>4. d[i % T] = i
    <2>1. 0 \in 0 .. u - 1
      BY <1>3
    <2>2. d[((i + 0) % TxWrap) % T] = (i + 0) % TxWrap
      BY <2>1 DEF TxHolds
    <2>. QED BY <1>2, <2>2
  <1>5. PICK x \in Nat : x = (i + 1) % TxWrap /\ x = IF i + 1 < TxWrap THEN i + 1 ELSE i + 1 - TxWrap
    <2>1. i + 1 \in Nat
      BY <1>1
    <2>2. (i + 1) % TxWrap = IF i + 1 < TxWrap THEN i + 1 ELSE i + 1 - TxWrap
      BY <1>1, <2>1, TxSizes, ModSmall
    <2>. QED BY <1>1, <2>2, TxSizes
  <1>6. (x + TxWrap - 1) % TxWrap = i
    <2>1. PICK y \in Nat : y = x + TxWrap - 1 /\ y < 2 * TxWrap
      BY <1>1, <1>5, TxSizes
    <2>2. y % TxWrap = IF y < TxWrap THEN y ELSE y - TxWrap
      BY <2>1, TxSizes, ModSmall
    <2>3. y % TxWrap = i
      BY <1>1, <1>5, <2>1, <2>2, TxSizes
    <2>. QED BY <2>1, <2>3
  <1>7. x \in TxIndex
    BY <1>1, <1>5, TxSizes DEF TxIndex
  <1>8. PICK v \in Nat : u = 1 + v
    <2>1. u - 1 \in Nat /\ u = 1 + (u - 1)
      BY <1>3
    <2>. QED BY <2>1
  <1>9. ASSUME NEW k \in Nat, k <= v PROVE (x + k) % TxWrap = (i + (1 + k)) % TxWrap
    <2>1. 1 \in Nat /\ 1 + k < TxWrap
      BY <1>8, <1>9, TxSizes DEF TxHolds
    <2>2. (((i + 1) % TxWrap) + k) % TxWrap = (i + (1 + k)) % TxWrap
      BY <1>1, <2>1, TxSizes, Along
    <2>. QED BY <1>5, <2>2
  <1>10. TxHolds(d, x, j, v)
    <2>1. v <= T /\ j = (i + (1 + v)) % TxWrap
      BY <1>8, TxSizes DEF TxHolds
    <2>2. j = (x + v) % TxWrap
      BY <1>9, <2>1
    <2>3. ASSUME NEW k \in 0 .. v - 1 PROVE d[((x + k) % TxWrap) % T] = (x + k) % TxWrap
      <3>1. 1 + k \in 0 .. u - 1 /\ k \in Nat /\ k <= v
        BY <1>8
      <3>2. d[((i + (1 + k)) % TxWrap) % T] = (i + (1 + k)) % TxWrap
        BY <3>1 DEF TxHolds
      <3>. QED BY <1>9, <3>1, <3>2
    <2>. QED BY <2>1, <2>2, <2>3 DEF TxHolds
  <1>. QED BY <1>4, <1>5, <1>6, <1>7, <1>10

-----------------------------------------------------------------------------

(* The transmit FIFO *)

\* The last byte taken from the ring.
Last == (tx_r + TxWrap - 1) % TxWrap

\* The FIFO holds len bytes, and there is room for what is on its way.
Load(len) ==
    /\ len <= 2
    /\ idle => len <= 1
    /\ byte # None => len <= 1
    /\ idle /\ byte # None => len = 0

FifoInv ==
    /\ thr \in Seq(0 .. TxWrap) /\ byte \in TxIndex \cup {None} /\ idle \in BOOLEAN
    /\ \A k \in DOMAIN thr : thr[k] = Echo \/ thr[k] = Last
    /\ \A k, l \in DOMAIN thr : thr[k] # Echo /\ thr[l] # Echo => k = l
    /\ byte # None => byte = Last /\ \A k \in DOMAIN thr : thr[k] = Echo
    /\ Load(Len(thr))

Labels == {"read", "write", "csleep", "wsleep"}

\* The inductive invariant.
IInv ==
    /\ RingInv /\ TxInv /\ FifoInv
    /\ pc \in [Procs -> Labels] /\ ConsoleSleepers

\* The invariant holds initially.
LEMMA Initial == Init => IInv
  <1>. SUFFICES ASSUME Init PROVE IInv
    OBVIOUS
  <1>. USE DEF Init, UartInit
  <1>1. RingInv
    <2>1. 0 \in Index /\ 0 \in Nat /\ 0 + 0 = 0 /\ 0 <= N
      BY Sizes DEF Index
    <2>2. 0 % Wrap = 0
      BY <2>1, NoMove
    <2>3. Marks(0, 0, 0, 0, 0)
      BY <2>1, <2>2 DEF Marks
    <2>4. buf \in Buffers
      BY DEF Buffers, Chars, N
    <2>. QED BY <2>1, <2>3, <2>4 DEF RingInv, RingOk
  <1>2. TxInv
    <2>1. 0 \in TxIndex /\ 0 \in Nat /\ 0 + 0 = 0 /\ 0 <= T /\ 0 < TxWrap /\ 0 < 2 * TxWrap
      BY TxSizes DEF TxIndex
    <2>2. 0 % TxWrap = 0
      BY <2>1, TxSizes, ModSmall
    <2>3. TxHolds(tx_buf, 0, 0, 0)
      BY <2>1, <2>2 DEF TxHolds
    <2>4. tx_buf \in [0 .. T - 1 -> 0 .. TxWrap]
      BY TxSizes DEF T
    <2>. QED BY <2>1, <2>3, <2>4 DEF TxInv
  <1>3. FifoInv
    <2>1. thr = <<>> /\ Len(thr) = 0 /\ DOMAIN thr = {} /\ thr \in Seq(0 .. TxWrap)
      OBVIOUS
    <2>2. byte = None /\ idle = FALSE
      OBVIOUS
    <2>3. Load(Len(thr))
      BY <2>1, <2>2 DEF Load
    <2>. QED BY <2>1, <2>2, <2>3, Zenon DEF FifoInv
  <1>4. pc \in [Procs -> Labels] /\ ConsoleSleepers
    BY DEF Labels, ConsoleSleepers
  <1>. QED BY <1>1, <1>2, <1>3, <1>4 DEF IInv

\* The elements of a sequence with one more at its end.
LEMMA AppendAt ==
    ASSUME NEW S, NEW s \in Seq(S), NEW c
    PROVE  \A k \in DOMAIN Append(s, c) :
              (k \in DOMAIN s /\ Append(s, c)[k] = s[k]) \/ (k = Len(s) + 1 /\ Append(s, c)[k] = c)
  OBVIOUS

\* A step that leaves the FIFO, and what is on its way there, alone.
LEMMA FifoSame ==
    ASSUME FifoInv, tx_r' = tx_r, byte' = byte, thr' = thr, idle' = idle
    PROVE  FifoInv'
  <1>1. Last' = Last /\ (Load(Len(thr))' <=> Load(Len(thr)))
    BY DEF Last, Load
  <1>. QED BY <1>1, SMTT(20) DEF FifoInv

\* uartputc() puts a byte into the ring, or sleeps on a full one.
LEMMA PutcStep ==
    ASSUME IInv, NEW p \in Writers, uartputc(p), UNCHANGED <<consvars, n, rx>>
    PROVE  TxInv' /\ FifoInv' /\ pc' \in [Procs -> Labels] /\ ConsoleSleepers'
  <1>. USE DEF IInv
  <1>0. p \in Procs /\ r' = r /\ w' = w /\ tx_r' = tx_r
    BY DEF Procs, uartputc, consvars
  <1>1. FifoInv'
    BY FifoSame DEF uartputc
  <1>2. pc' \in [Procs -> Labels]
    BY <1>0 DEF uartputc, Goto, Labels
  <1>3. CASE TxFull
    <2>1. tx_w' = tx_w /\ tx_buf' = tx_buf /\ pc' = [pc EXCEPT ![p] = "wsleep"]
      BY <1>3 DEF uartputc, Goto
    <2>2. TxInv'
      BY <1>0, <2>1 DEF TxInv, TxHolds
    <2>3. ConsoleSleepers'
      BY <1>0, <1>3, <2>1 DEF ConsoleSleepers, TxFull
    <2>. QED BY <1>1, <1>2, <2>2, <2>3
  <1>4. CASE ~TxFull
    <2>1. tx_w' = (tx_w + 1) % TxWrap /\ tx_buf' = [tx_buf EXCEPT ![tx_w % T] = tx_w] /\ pc' = pc
      BY <1>4 DEF uartputc, T
    <2>2. TxInv'
      <3>1. PICK u \in Nat : TxHolds(tx_buf, tx_r, tx_w, u)
        BY DEF TxInv
      <3>2. u < T
        <4>1. u # T
          BY <1>4, <3>1 DEF TxHolds, TxFull, T
        <4>. QED BY <3>1, <4>1, TxSizes DEF TxHolds
      <3>3. tx_r \in TxIndex /\ tx_w \in TxIndex /\ tx_buf \in [0 .. T - 1 -> 0 .. TxWrap] /\ tx_w \in 0 .. TxWrap
        BY TxSizes DEF TxInv, TxIndex
      <3>4. TxHolds(tx_buf', tx_r', tx_w', u + 1) /\ u + 1 \in Nat
        <4>1. TxHolds([tx_buf EXCEPT ![tx_w % T] = tx_w], tx_r, (tx_w + 1) % TxWrap, u + 1)
          BY <3>1, <3>2, <3>3, TxPut, Zenon
        <4>. QED BY <1>0, <2>1, <4>1
      <3>5. tx_w' \in TxIndex
        <4>1. tx_w + 1 \in Nat
          BY <3>3 DEF TxIndex
        <4>. QED BY <2>1, <4>1, TxSizes DEF TxIndex
      <3>6. tx_buf' \in [0 .. T - 1 -> 0 .. TxWrap]
        BY <2>1, <3>3
      <3>. QED BY <1>0, <3>3, <3>4, <3>5, <3>6 DEF TxInv, TxHolds
    <2>3. ConsoleSleepers'
      BY <1>0, <1>4, <2>1 DEF ConsoleSleepers
    <2>. QED BY <1>1, <1>2, <2>2, <2>3
  <1>. QED BY <1>3, <1>4

\* uartstart() leaves; it does not touch what the invariant is about.
LEMMA ReturnStep ==
    ASSUME IInv, uartstart_return, UNCHANGED <<consvars, n, rx>>
    PROVE  TxInv' /\ FifoInv' /\ pc' \in [Procs -> Labels] /\ ConsoleSleepers'
  <1>1. /\ tx_buf' = tx_buf /\ tx_w' = tx_w /\ tx_r' = tx_r /\ byte' = byte /\ thr' = thr /\ idle' = idle /\ pc' = pc
        /\ r' = r /\ w' = w
    BY DEF uartstart_return, consvars
  <1>2. TxInv'
    BY <1>1 DEF IInv, TxInv, TxHolds
  <1>3. FifoInv'
    BY <1>1, FifoSame DEF IInv
  <1>4. ConsoleSleepers'
    BY <1>1 DEF IInv, ConsoleSleepers, TxFull
  <1>. QED BY <1>1, <1>2, <1>3, <1>4 DEF IInv

\* uartstart() takes a byte when the FIFO is empty, and wakes every writer.
LEMMA TakeStep ==
    ASSUME IInv, uartstart_take, UNCHANGED <<consvars, n, rx>>
    PROVE  TxInv' /\ FifoInv' /\ pc' \in [Procs -> Labels] /\ ConsoleSleepers'
  <1>1. /\ byte = None /\ tx_w # tx_r /\ thr = <<>> /\ thr' = <<>> /\ idle' = idle
        /\ byte' = tx_buf[tx_r % T] /\ tx_r' = (tx_r + 1) % TxWrap
        /\ tx_buf' = tx_buf /\ tx_w' = tx_w /\ r' = r /\ w' = w
    BY DEF uartstart_take, consvars, T
  <1>2. PICK u \in Nat : TxHolds(tx_buf, tx_r, tx_w, u)
    BY DEF IInv, TxInv
  <1>3. tx_r \in TxIndex /\ tx_w \in TxIndex /\ tx_buf \in [0 .. T - 1 -> 0 .. TxWrap]
    BY DEF IInv, TxInv
  <1>4. /\ \E v \in Nat : TxHolds(tx_buf, (tx_r + 1) % TxWrap, tx_w, v)
        /\ tx_buf[tx_r % T] = tx_r
        /\ (((tx_r + 1) % TxWrap) + TxWrap - 1) % TxWrap = tx_r
        /\ (tx_r + 1) % TxWrap \in TxIndex
    <2>1. tx_r # tx_w
      BY <1>1
    <2>. QED BY <1>2, <1>3, <2>1, TxGet, Zenon
  <1>5. TxInv'
    BY <1>1, <1>3, <1>4 DEF TxInv, TxHolds
  <1>6. FifoInv'
    <2>1. byte' = tx_r /\ Last' = tx_r /\ byte' \in TxIndex
      BY <1>1, <1>3, <1>4 DEF Last
    <2>2. Len(thr') = 0 /\ DOMAIN thr' = {} /\ thr' \in Seq(0 .. TxWrap)
      BY <1>1
    <2>3. idle' \in BOOLEAN
      BY <1>1 DEF IInv, FifoInv
    <2>4. Load(Len(thr))'
      BY <2>2 DEF Load
    <2>. QED BY <2>1, <2>2, <2>3, <2>4 DEF FifoInv
  <1>7. pc \in [Procs -> Labels] /\ pc' = [p \in Procs |-> IF pc[p] = "wsleep" THEN "write" ELSE pc[p]]
    BY DEF IInv, uartstart_take, Wake
  <1>8. pc' \in [Procs -> Labels]
    BY <1>7 DEF Labels
  <1>9. ConsoleSleepers'
    BY <1>1, <1>7 DEF IInv, ConsoleSleepers
  <1>. QED BY <1>5, <1>6, <1>8, <1>9

\* uartstart() writes its byte into THR: no other byte of the ring is in the FIFO.
LEMMA WriteStep ==
    ASSUME IInv, uartstart_write, UNCHANGED <<consvars, n, rx>>
    PROVE  TxInv' /\ FifoInv' /\ pc' \in [Procs -> Labels] /\ ConsoleSleepers'
  <1>1. /\ byte # None /\ byte' = None /\ thr' = Append(thr, byte) /\ idle' = idle /\ pc' = pc
        /\ tx_buf' = tx_buf /\ tx_w' = tx_w /\ tx_r' = tx_r /\ r' = r /\ w' = w
    BY DEF uartstart_write, consvars
  <1>2. TxInv'
    BY <1>1 DEF IInv, TxInv, TxHolds
  <1>3. ConsoleSleepers'
    BY <1>1 DEF IInv, ConsoleSleepers, TxFull
  <1>4. /\ thr \in Seq(0 .. TxWrap) /\ byte \in TxIndex /\ byte = Last /\ Last' = Last /\ idle \in BOOLEAN
        /\ \A k \in DOMAIN thr : thr[k] = Echo
        /\ Len(thr) <= 1 /\ (idle => Len(thr) = 0)
    BY <1>1 DEF IInv, FifoInv, Last, Load
  <1>5. thr' \in Seq(0 .. TxWrap) /\ Len(thr') = Len(thr) + 1
    <2>1. byte \in 0 .. TxWrap
      BY <1>4, TxSizes DEF TxIndex
    <2>. QED BY <1>1, <1>4, <2>1
  <1>6. \A k \in DOMAIN thr' : (k \in DOMAIN thr /\ thr'[k] = Echo) \/ (k = Len(thr) + 1 /\ thr'[k] = Last')
    <2>1. \A k \in DOMAIN thr' : (k \in DOMAIN thr /\ thr'[k] = thr[k]) \/ (k = Len(thr) + 1 /\ thr'[k] = byte)
      BY <1>1, <1>4, AppendAt
    <2>. QED BY <1>4, <2>1
  <1>7. Load(Len(thr))'
    BY <1>1, <1>4, <1>5 DEF Load
  <1>8. FifoInv'
    BY <1>1, <1>4, <1>5, <1>6, <1>7 DEF FifoInv
  <1>. QED BY <1>1, <1>2, <1>3, <1>8 DEF IInv

\* uartputc_sync() sees the port idle, or writes the echo into THR.
LEMMA EchoStep ==
    ASSUME IInv, uartputc_sync, UNCHANGED <<consvars, n, rx>>
    PROVE  TxInv' /\ FifoInv' /\ pc' \in [Procs -> Labels] /\ ConsoleSleepers'
  <1>1. /\ byte' = byte /\ pc' = pc
        /\ tx_buf' = tx_buf /\ tx_w' = tx_w /\ tx_r' = tx_r /\ r' = r /\ w' = w
    BY DEF uartputc_sync, consvars
  <1>2. TxInv'
    BY <1>1 DEF IInv, TxInv, TxHolds
  <1>3. ConsoleSleepers'
    BY <1>1 DEF IInv, ConsoleSleepers, TxFull
  <1>4. /\ thr \in Seq(0 .. TxWrap) /\ byte \in TxIndex \cup {None} /\ idle \in BOOLEAN /\ Last' = Last
        /\ \A k \in DOMAIN thr : thr[k] = Echo \/ thr[k] = Last
        /\ \A k, l \in DOMAIN thr : thr[k] # Echo /\ thr[l] # Echo => k = l
        /\ byte # None => byte = Last /\ \A k \in DOMAIN thr : thr[k] = Echo
        /\ Load(Len(thr))
    BY <1>1 DEF IInv, FifoInv, Last
  <1>5. CASE ~idle /\ thr = <<>> /\ idle' = TRUE /\ thr' = thr
    <2>1. Len(thr') = 0 /\ DOMAIN thr' = {} /\ thr' \in Seq(0 .. TxWrap)
      BY <1>5
    <2>2. Load(Len(thr))'
      BY <1>5, <2>1 DEF Load
    <2>3. FifoInv'
      BY <1>1, <1>4, <1>5, <2>1, <2>2 DEF FifoInv
    <2>. QED BY <1>1, <1>2, <1>3, <2>3 DEF IInv
  <1>6. CASE idle /\ thr' = Append(thr, Echo) /\ idle' = FALSE
    <2>1. thr' \in Seq(0 .. TxWrap) /\ Len(thr') = Len(thr) + 1
      <3>1. Echo \in 0 .. TxWrap
        BY TxSizes DEF Echo
      <3>. QED BY <1>4, <1>6, <3>1
    <2>2. \A k \in DOMAIN thr' : (k \in DOMAIN thr /\ thr'[k] = thr[k]) \/ (k = Len(thr) + 1 /\ thr'[k] = Echo)
      BY <1>4, <1>6, AppendAt
    <2>3. Load(Len(thr))'
      BY <1>1, <1>4, <1>6, <2>1 DEF Load
    <2>4. FifoInv'
      BY <1>1, <1>4, <1>6, <2>1, <2>2, <2>3 DEF FifoInv
    <2>. QED BY <1>1, <1>2, <1>3, <2>4 DEF IInv
  <1>. QED BY <1>5, <1>6 DEF uartputc_sync

\* The port sends a byte.
LEMMA SendStep ==
    ASSUME IInv, dev_send, UNCHANGED <<consvars, n, rx>>
    PROVE  TxInv' /\ FifoInv' /\ pc' \in [Procs -> Labels] /\ ConsoleSleepers'
  <1>1. /\ thr # <<>> /\ thr' = Tail(thr) /\ byte' = byte /\ pc' = pc /\ idle' = idle
        /\ tx_buf' = tx_buf /\ tx_w' = tx_w /\ tx_r' = tx_r /\ r' = r /\ w' = w
    BY DEF dev_send, consvars
  <1>2. TxInv'
    BY <1>1 DEF IInv, TxInv, TxHolds
  <1>3. ConsoleSleepers'
    BY <1>1 DEF IInv, ConsoleSleepers, TxFull
  <1>4. /\ thr \in Seq(0 .. TxWrap) /\ byte \in TxIndex \cup {None} /\ idle \in BOOLEAN /\ Last' = Last
        /\ \A k \in DOMAIN thr : thr[k] = Echo \/ thr[k] = Last
        /\ \A k, l \in DOMAIN thr : thr[k] # Echo /\ thr[l] # Echo => k = l
        /\ byte # None => byte = Last /\ \A k \in DOMAIN thr : thr[k] = Echo
        /\ Load(Len(thr))
    BY <1>1 DEF IInv, FifoInv, Last
  <1>5. thr' \in Seq(0 .. TxWrap) /\ Len(thr') = Len(thr) - 1 /\ Len(thr) > 0
    BY <1>1, <1>4
  <1>6. \A k \in DOMAIN thr' : k \in Nat /\ k + 1 \in DOMAIN thr /\ thr'[k] = thr[k + 1]
    BY <1>1, <1>4, <1>5
  <1>7. Load(Len(thr))'
    <2>1. Len(thr) \in Nat
      BY <1>4
    <2>. QED BY <1>1, <1>4, <1>5, <2>1 DEF Load
  <1>8. \A k, l \in DOMAIN thr' : thr'[k] # Echo /\ thr'[l] # Echo => k = l
    <2>1. ASSUME NEW k \in DOMAIN thr', NEW l \in DOMAIN thr', thr'[k] # Echo, thr'[l] # Echo PROVE k = l
      <3>1. k + 1 = l + 1
        BY <1>4, <1>6, <2>1
      <3>. QED BY <1>6, <3>1
    <2>. QED BY <2>1
  <1>9. FifoInv'
    BY <1>1, <1>4, <1>5, <1>6, <1>7, <1>8 DEF FifoInv
  <1>. QED BY <1>1, <1>2, <1>3, <1>9 DEF IInv

\* A step that leaves the port alone.
LEMMA PortSame ==
    ASSUME IInv, UNCHANGED <<uartvars, idle>>
    PROVE  TxInv' /\ FifoInv' /\ (TxFull' <=> TxFull)
  <1>1. /\ tx_buf' = tx_buf /\ tx_w' = tx_w /\ tx_r' = tx_r /\ byte' = byte /\ thr' = thr /\ idle' = idle
    BY DEF uartvars
  <1>2. TxInv'
    BY <1>1 DEF IInv, TxInv, TxHolds
  <1>3. FifoInv'
    BY <1>1, FifoSame DEF IInv
  <1>. QED BY <1>1, <1>2, <1>3 DEF TxFull

\* A reader sleeps only when it has read all there is, and a reader that finds
\* nothing leaves r where it is.
LEMMA ReadSleepers ==
    ASSUME IInv, NEW p \in Readers, consoleread(p)
    PROVE  pc' \in [Procs -> Labels] /\ ConsoleSleepers'
  <1>0. p \in Procs /\ pc \in [Procs -> Labels] /\ ConsoleSleepers /\ RingInv
    BY DEF Procs, IInv
  <1>1. PICK a \in Nat, b \in Nat :
           /\ Marks(r, w, e, a, b) /\ Dist(r, w) = a
           /\ Slice(r, w) \in Seq(Chars) /\ Len(Slice(r, w)) = a /\ r \in Index /\ r \in Nat
    BY <1>0, Held
  <1>2. pc' = [pc EXCEPT ![p] = "read"] \/ pc' = [pc EXCEPT ![p] = "csleep"]
    BY DEF consoleread, Returns, Goto
  <1>3. pc' \in [Procs -> Labels]
    BY <1>0, <1>2 DEF Labels
  <1>4. TxFull' <=> TxFull
    BY PortSame DEF consoleread
  <1>5. w' = w
    BY DEF consoleread
  <1>6. w = (r + a) % Wrap
    BY <1>1 DEF Marks
  <1>7. ASSUME pc' = [pc EXCEPT ![p] = "csleep"] PROVE r' = w'
    <2>0. pc'[p] = "csleep"
      BY <1>0, <1>7
    <2>1. PICK k \in Copied(p, Slice(r, w)) : k >= Len(Slice(r, w)) /\ r' = (r + k) % Wrap
      <3>1. PICK k \in Copied(p, Slice(r, w)) :
               \/ Goto(p, "read")
               \/ ~(k < Len(Slice(r, w))) /\ r' = (r + k) % Wrap
        BY DEF consoleread, Returns
      <3>2. ~Goto(p, "read")
        BY <1>0, <2>0 DEF Goto
      <3>3. k \in 0 .. Len(Slice(r, w))
        BY DEF Copied
      <3>. QED BY <1>1, <3>1, <3>2, <3>3
    <2>2. k = a
      BY <1>1, <2>1 DEF Copied
    <2>. QED BY <1>5, <1>6, <2>1, <2>2
  <1>8. ASSUME r = w PROVE r' = w'
    <2>1. a = 0
      <3>1. Dist(r, r) = 0
        <4>1. 0 \in Nat /\ 0 <= N /\ r + 0 = r
          BY <1>1, Sizes DEF Index
        <4>2. Dist(r, (r + 0) % Wrap) = 0
          BY <1>1, <4>1, Moves
        <4>. QED BY <1>1, <4>1, <4>2, NoMove
      <3>. QED BY <1>1, <1>8, <3>1
    <2>2. PICK k \in Copied(p, Slice(r, w)) :
             \/ r' = (r + k) % Wrap
             \/ k < Len(Slice(r, w))
             \/ \E i \in 1 .. k : r' = (r + i) % Wrap
      BY DEF consoleread
    <2>3. k = 0
      BY <1>1, <2>1 DEF Copied
    <2>4. r' = (r + 0) % Wrap
      BY <1>1, <2>1, <2>2, <2>3
    <2>. QED BY <1>1, <1>5, <1>8, <2>4, NoMove
  <1>9. ASSUME NEW q \in Procs
        PROVE  (pc'[q] = "csleep" => r' = w') /\ (pc'[q] = "wsleep" => TxFull')
    <2>1. CASE q = p
      <3>1. pc'[q] = "read" \/ (pc'[q] = "csleep" /\ pc' = [pc EXCEPT ![p] = "csleep"])
        BY <1>0, <1>2, <2>1
      <3>. QED BY <1>7, <3>1
    <2>2. CASE q # p
      <3>1. pc'[q] = pc[q]
        BY <1>0, <1>2, <2>2
      <3>. QED BY <1>0, <1>4, <1>8, <3>1 DEF ConsoleSleepers
    <2>. QED BY <2>1, <2>2
  <1>. QED BY <1>3, <1>9 DEF ConsoleSleepers

\* consoleintr() wakes every reader when it enters a line.
LEMMA IntrSleepers ==
    ASSUME IInv, NEW c \in Typed, consoleintr(c)
    PROVE  pc' \in [Procs -> Labels] /\ ConsoleSleepers'
  <1>1. pc \in [Procs -> Labels] /\ ConsoleSleepers
    BY DEF IInv
  <1>2. TxFull' <=> TxFull
    BY PortSame DEF consoleintr
  <1>3. r' = r
    BY DEF consoleintr
  <1>4. \/ pc' = [p \in Procs |-> IF pc[p] = "csleep" THEN "read" ELSE pc[p]]
        \/ pc' = pc /\ w' = w
    BY DEF consoleintr, Wake
  <1>5. CASE pc' = pc /\ w' = w
    BY <1>1, <1>2, <1>3, <1>5 DEF ConsoleSleepers
  <1>6. CASE pc' = [p \in Procs |-> IF pc[p] = "csleep" THEN "read" ELSE pc[p]]
    <2>1. pc' \in [Procs -> Labels]
      BY <1>1, <1>6 DEF Labels
    <2>2. ConsoleSleepers'
      BY <1>1, <1>2, <1>6 DEF ConsoleSleepers
    <2>. QED BY <2>1, <2>2
  <1>. QED BY <1>4, <1>5, <1>6

\* A step that leaves the ring alone.
LEMMA RingSame ==
    ASSUME RingInv, UNCHANGED consvars
    PROVE  RingInv' /\ UNCHANGED <<Slice(r, w), Slice(w, e)>>
  <1>1. buf' = buf /\ r' = r /\ w' = w /\ e' = e
    BY DEF consvars
  <1>. QED BY <1>1 DEF RingInv, RingOk, Marks, Slice, Dist

\* The invariant is inductive, and every step is one of Tty or changes nothing that
\* Tty shows.
LEMMA Inductive ==
    ASSUME IInv, [Next]_vars
    PROVE  IInv' /\ (Line!Next \/ UNCHANGED <<Slice(r, w), Slice(w, e)>>)
  <1>0. RingInv /\ pc \in [Procs -> Labels] /\ ConsoleSleepers
    BY DEF IInv
  <1>1. CASE UNCHANGED vars
    <2>1. UNCHANGED consvars /\ UNCHANGED <<uartvars, idle>> /\ pc' = pc /\ r' = r /\ w' = w
      BY <1>1 DEF vars, consvars
    <2>2. RingInv' /\ UNCHANGED <<Slice(r, w), Slice(w, e)>>
      BY <1>0, <2>1, RingSame
    <2>3. TxInv' /\ FifoInv' /\ (TxFull' <=> TxFull)
      BY <2>1, PortSame
    <2>4. ConsoleSleepers'
      BY <1>0, <2>1, <2>3 DEF ConsoleSleepers
    <2>. QED BY <1>0, <2>1, <2>2, <2>3, <2>4 DEF IInv
  <1>2. CASE dev_receive \/ uartintr
    <2>1. UNCHANGED consvars /\ UNCHANGED <<uartvars, idle>> /\ pc' = pc /\ r' = r /\ w' = w
      BY <1>2 DEF dev_receive, uartintr, consvars
    <2>2. RingInv' /\ UNCHANGED <<Slice(r, w), Slice(w, e)>>
      BY <1>0, <2>1, RingSame
    <2>3. TxInv' /\ FifoInv' /\ (TxFull' <=> TxFull)
      BY <2>1, PortSame
    <2>4. ConsoleSleepers'
      BY <1>0, <2>1, <2>3 DEF ConsoleSleepers
    <2>. QED BY <1>0, <2>1, <2>2, <2>3, <2>4 DEF IInv
  <1>3. CASE uartintr_tx
    <2>1. /\ UNCHANGED consvars /\ pc' = pc /\ r' = r /\ w' = w
          /\ tx_buf' = tx_buf /\ tx_w' = tx_w /\ tx_r' = tx_r /\ byte' = byte /\ thr' = thr /\ idle' = idle
      BY <1>3 DEF uartintr_tx, consvars
    <2>2. RingInv' /\ UNCHANGED <<Slice(r, w), Slice(w, e)>>
      BY <1>0, <2>1, RingSame
    <2>3. TxInv'
      BY <2>1 DEF IInv, TxInv, TxHolds
    <2>4. FifoInv'
      BY <2>1, FifoSame DEF IInv
    <2>5. ConsoleSleepers'
      BY <1>0, <2>1 DEF ConsoleSleepers, TxFull
    <2>. QED BY <1>0, <2>1, <2>2, <2>3, <2>4, <2>5 DEF IInv
  <1>4. CASE UartStep
    <2>1. UNCHANGED consvars
      BY <1>4 DEF UartStep
    <2>2. RingInv' /\ UNCHANGED <<Slice(r, w), Slice(w, e)>>
      BY <1>0, <2>1, RingSame
    <2>3. TxInv' /\ FifoInv' /\ pc' \in [Procs -> Labels] /\ ConsoleSleepers'
      BY <1>4, ReturnStep, TakeStep, WriteStep, EchoStep, SendStep DEF UartStep, uartstart
    <2>. QED BY <2>2, <2>3 DEF IInv
  <1>5. ASSUME NEW p \in Writers, uartputc(p), UNCHANGED <<consvars, n, rx>>
        PROVE  IInv' /\ UNCHANGED <<Slice(r, w), Slice(w, e)>>
    <2>1. RingInv' /\ UNCHANGED <<Slice(r, w), Slice(w, e)>>
      BY <1>0, <1>5, RingSame
    <2>2. TxInv' /\ FifoInv' /\ pc' \in [Procs -> Labels] /\ ConsoleSleepers'
      BY <1>5, PutcStep
    <2>. QED BY <2>1, <2>2 DEF IInv
  <1>6. ASSUME NEW p \in Procs, kill(p)
        PROVE  IInv' /\ UNCHANGED <<Slice(r, w), Slice(w, e)>>
    <2>1. /\ UNCHANGED consvars /\ UNCHANGED <<uartvars, idle>> /\ r' = r /\ w' = w
          /\ pc' = [pc EXCEPT ![p] = "read"] \/ pc' = [pc EXCEPT ![p] = "write"]
      BY <1>6 DEF kill, Goto, consvars
    <2>2. RingInv' /\ UNCHANGED <<Slice(r, w), Slice(w, e)>>
      BY <1>0, <2>1, RingSame
    <2>3. TxInv' /\ FifoInv' /\ (TxFull' <=> TxFull)
      BY <2>1, PortSame
    <2>4. pc' \in [Procs -> Labels]
      BY <1>0, <2>1 DEF Labels
    <2>5. ConsoleSleepers'
      BY <1>0, <2>1, <2>3 DEF ConsoleSleepers
    <2>. QED BY <2>2, <2>3, <2>4, <2>5 DEF IInv
  <1>7. ASSUME NEW c \in Typed, consoleintr(c)
        PROVE  IInv' /\ (Line!Next \/ UNCHANGED <<Slice(r, w), Slice(w, e)>>)
    <2>1. TxInv' /\ FifoInv'
      BY <1>7, PortSame DEF consoleintr
    <2>2. pc' \in [Procs -> Labels] /\ ConsoleSleepers'
      BY <1>7, IntrSleepers
    <2>3. CASE Stores(c)
      <3>1. RingInv' /\ Line!Type(c) /\ c \in Letters \cup {"nl", "eof"}
        BY <1>0, <1>7, <2>3, TypeStep
      <3>. QED BY <2>1, <2>2, <3>1 DEF IInv, Line!Next
    <2>4. CASE ~Stores(c)
      <3>1. RingInv' /\ (Line!Next \/ UNCHANGED <<Slice(r, w), Slice(w, e)>>)
        BY <1>0, <1>7, <2>4, EraseStep
      <3>. QED BY <2>1, <2>2, <3>1 DEF IInv
    <2>. QED BY <2>3, <2>4
  <1>8. ASSUME NEW p \in Readers, consoleread(p)
        PROVE  IInv' /\ (Line!Next \/ UNCHANGED <<Slice(r, w), Slice(w, e)>>)
    <2>1. TxInv' /\ FifoInv'
      BY <1>8, PortSame DEF consoleread
    <2>2. pc' \in [Procs -> Labels] /\ ConsoleSleepers'
      BY <1>8, ReadSleepers
    <2>3. RingInv' /\ (Line!Next \/ UNCHANGED <<Slice(r, w), Slice(w, e)>>)
      BY <1>0, <1>8, ReadStep
    <2>. QED BY <2>1, <2>2, <2>3 DEF IInv
  <1>. QED BY <1>1, <1>2, <1>3, <1>4, <1>5, <1>6, <1>7, <1>8 DEF Next, IntrStep, Typed

-----------------------------------------------------------------------------

(* The theorems *)

\* The invariant holds throughout.
LEMMA Invariance == Spec => []IInv
  BY Initial, Inductive, PTL DEF Spec

\* ConsoleSleepers: consoleread() sleeps only while no line is entered and uartputc()
\* only while the ring is full, for any number of readers and writers.
THEOREM SleepersWait == Spec => []ConsoleSleepers
  <1>1. IInv => ConsoleSleepers
    BY DEF IInv
  <1>. QED BY <1>1, Invariance, PTL

\* LineDiscipline: the ring of consoleintr() and consoleread() implements Tty, for a
\* buffer of any size whose indices wrap at any multiple of it.
THEOREM ImplementsTty == Spec => LineDiscipline
  <1>1. Init => Line!Init
    <2>. SUFFICES ASSUME Init PROVE Line!Init
      OBVIOUS
    <2>1. IInv
      BY Initial
    <2>2. PICK a \in Nat, b \in Nat :
             /\ Dist(r, w) = a /\ Dist(w, e) = b
             /\ Slice(r, w) \in Seq(Chars) /\ Len(Slice(r, w)) = a
             /\ Slice(w, e) \in Seq(Chars) /\ Len(Slice(w, e)) = b
      BY <2>1, Held DEF IInv
    <2>3. Dist(0, 0) = 0
      <3>1. 0 \in Index /\ 0 \in Nat /\ 0 <= N /\ 0 + 0 = 0
        BY Sizes DEF Index
      <3>2. Dist(0, (0 + 0) % Wrap) = 0
        BY <3>1, Moves
      <3>. QED BY <3>1, <3>2, NoMove
    <2>4. a = 0 /\ b = 0
      BY <2>2, <2>3 DEF Init
    <2>5. Slice(r, w) = <<>> /\ Slice(w, e) = <<>>
      BY <2>2, <2>4
    <2>. QED BY <2>5 DEF Line!Init
  <1>2. IInv /\ [Next]_vars => [Line!Next]_<<Slice(r, w), Slice(w, e)>>
    BY Inductive
  <1>. QED BY <1>1, <1>2, Invariance, PTL DEF Spec, LineDiscipline, Line!Spec

\* TxInOrder: what uartputc() accepts leaves the port in that order, whatever is echoed
\* in between, for a ring of any size.
THEOREM OutputInOrder == Spec => []TxInOrder
  <1>1. ASSUME IInv PROVE TxInOrder
    <2>. DEFINE out == IF byte = None THEN thr ELSE Append(thr, byte)
                Taken == {k \in DOMAIN out : out[k] # Echo}
    <2>1. /\ thr \in Seq(0 .. TxWrap) /\ byte \in TxIndex \cup {None}
          /\ \A k \in DOMAIN thr : thr[k] = Echo \/ thr[k] = Last
          /\ \A k, l \in DOMAIN thr : thr[k] # Echo /\ thr[l] # Echo => k = l
          /\ byte # None => byte = Last /\ \A k \in DOMAIN thr : thr[k] = Echo
          /\ Len(thr) <= 2
      BY <1>1 DEF IInv, FifoInv, Load
    <2>2. (\A k \in Taken : out[k] = Last) /\ \A k, l \in Taken : k = l
      <3>1. CASE byte = None
        <4>1. out = thr
          BY <3>1
        <4>. QED BY <2>1, <4>1
      <3>2. CASE byte # None
        <4>1. out = Append(thr, byte) /\ byte \in 0 .. TxWrap
          BY <2>1, <3>2, TxSizes DEF TxIndex
        <4>2. \A k \in DOMAIN out : out[k] = Echo \/ (k = Len(thr) + 1 /\ out[k] = Last)
          BY <2>1, <3>2, <4>1
        <4>. QED BY <4>2
      <3>. QED BY <3>1, <3>2
    <2>3. PICK u \in Nat : TxHolds(tx_buf, tx_r, tx_w, u)
      BY <1>1 DEF IInv, TxInv
    <2>4. TxUsed = u /\ u <= T
      <3>1. tx_r \in 0 .. TxWrap - 1 /\ tx_w \in 0 .. TxWrap - 1 /\ u \in 0 .. TxWrap - 1 /\ u <= T
        BY <1>1, <2>3, TxSizes DEF IInv, TxInv, TxIndex, TxHolds
      <3>2. tx_w = (tx_r + u) % TxWrap
        BY <2>3 DEF TxHolds
      <3>3. u = (tx_w + TxWrap - tx_r) % TxWrap
        BY <3>1, <3>2, TxSizes, Distance
      <3>. QED BY <3>1, <3>3 DEF TxUsed
    <2>5. \A k \in 0 .. TxUsed - 1 :
             LET i == (tx_r + k) % TxWrap IN tx_buf[i % UART_TX_BUF_SIZE] = i
      BY <2>3, <2>4 DEF TxHolds, T
    <2>. HIDE DEF out
    <2>6. TxUsed <= UART_TX_BUF_SIZE
      BY <2>4 DEF T
    <2>. QED BY <2>1, <2>2, <2>5, <2>6 DEF TxInOrder, out, Last
  <1>. QED BY <1>1, Invariance, PTL


=============================================================================
