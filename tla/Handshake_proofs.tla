-------------------------- MODULE Handshake_proofs --------------------------
(***************************************************************************)
(* Proofs about Handshake, for every size of a block, of the bit count and *)
(* of the digest, every length of the keys and every digest.  The          *)
(* hash is given the padded message block by block: an invariant of the    *)
(* context says how far it is in one text, the padded message (Took), and  *)
(* the calls of hash1_write and hash1_final each go on in it.  base64      *)
(* writes the bits of RFC 4648, six to a letter.  Together with the proofs *)
(* about membuf, what a server answers is the base64 of the digest.        *)
(***************************************************************************)
EXTENDS Handshake, Membuf_proofs, WellFoundedInduction

\* The values of a byte.
Octet == 0 .. 255

-----------------------------------------------------------------------------
(* Blocks.                                                                 *)

\* The bytes in k blocks.
N(k) == k * Block

\* Counting in blocks.
LEMMA Blocks ==
    /\ N(0) = 0 /\ Block \in Nat /\ Block > 0
    /\ \A k \in Nat : N(k) \in Nat /\ N(k + 1) = N(k) + Block
    /\ \A j, k \in Nat : N(j + k) = N(j) + N(k)
    /\ \A j, k \in Nat : j < k => N(j) + Block <= N(k)
<1>1. Block \in Nat /\ Block > 0
  BY Sha1Assumption
<1>2. N(0) = 0
  BY <1>1 DEF N
<1>3. ASSUME NEW k \in Nat PROVE N(k) \in Nat /\ N(k + 1) = N(k) + Block
  <2>1. k * Block \in Nat
    BY <1>1, Z3
  <2>2. (k + 1) * Block = k * Block + Block
    BY <1>1, Z3
  <2> QED
    BY <2>1, <2>2 DEF N
<1>4. ASSUME NEW j \in Nat, NEW k \in Nat PROVE N(j + k) = N(j) + N(k)
  BY <1>1, Z3 DEF N
<1>5. ASSUME NEW j \in Nat, NEW k \in Nat, j < k PROVE N(j) + Block <= N(k)
  <2> DEFINE m == k - (j + 1)
  <2>1. m \in Nat /\ k = (j + 1) + m /\ j + 1 \in Nat
    BY <1>5
  <2> HIDE DEF m
  <2>2. N(k) = N(j + 1) + N(m) /\ N(j + 1) = N(j) + Block
    BY <1>3, <1>4, <2>1
  <2>3. N(m) \in Nat /\ N(j) \in Nat
    BY <1>3, <2>1
  <2> QED
    BY <1>1, <2>2, <2>3
<1> QED
  BY <1>1, <1>2, <1>3, <1>4, <1>5

\* What is left over from a number of blocks.
LEMMA LeftOver ==
    ASSUME NEW n \in Nat, NEW r \in 0 .. Block - 1
    PROVE  (N(n) + r) \div Block = n /\ (N(n) + r) % Block = r
<1> DEFINE x == N(n) + r
<1> DEFINE q == x \div Block
<1> DEFINE s == x % Block
<1>0. Block \in Nat /\ Block > 0 /\ N(n) \in Nat
  BY Blocks, Zenon
<1>1. Block \in Nat /\ Block > 0 /\ N(n) \in Nat /\ r \in Nat /\ r < Block
  BY <1>0
<1>2. x \in Nat
  BY <1>1
<1> HIDE DEF x
<1>3. q \in Nat /\ s \in 0 .. Block - 1 /\ x = q * Block + s
  BY <1>1, <1>2, Z3
<1> HIDE DEF q, s
<1>4. N(q) \in Nat /\ x = N(q) + s /\ x = N(n) + r
  BY <1>3, Blocks DEF N, x
<1>5. ~ (q < n)
  <2>1. q < n => N(q) + Block <= N(n)
    BY <1>3, Blocks
  <2> QED
    BY <1>1, <1>3, <1>4, <2>1
<1>6. ~ (n < q)
  <2>1. n < q => N(n) + Block <= N(q)
    BY <1>3, Blocks
  <2> QED
    BY <1>1, <1>3, <1>4, <2>1
<1>7. q = n
  BY <1>3, <1>5, <1>6
<1>8. s = r
  BY <1>1, <1>3, <1>4, <1>7
<1> QED
  BY <1>7, <1>8 DEF q, s, x

\* A number is made of whole blocks and what is left over.
LEMMA WholeBlocks ==
    ASSUME NEW x \in Nat
    PROVE  x \div Block \in Nat /\ N(x \div Block) <= x /\ x < N(x \div Block) + Block /\ N(x \div Block) \in Nat
<1>1. Block \in Nat /\ Block > 0
  BY Blocks
<1> DEFINE q == x \div Block
<1> DEFINE s == x % Block
<1>3. q \in Nat /\ s \in 0 .. Block - 1 /\ x = q * Block + s
  BY <1>1, Z3
<1> HIDE DEF q, s
<1>4. N(q) \in Nat /\ x = N(q) + s
  BY <1>3, Blocks DEF N
<1>5. N(q) <= x /\ x < N(q) + Block
  BY <1>1, <1>3, <1>4
<1> QED
  BY <1>3, <1>4, <1>5 DEF q

-----------------------------------------------------------------------------
(* What the operators of sha1.cpp do to a context.                         *)

\* h is a context between two calls, with these fields.
Is(h, b, u, c) == h = [blocks |-> b, buf |-> u, count |-> c, final |-> FALSE]

\* A buffer u with c bytes in it, after data.
Filled(u, c, data) ==
    [i \in 1 .. Block |-> IF i > c /\ i <= c + Len(data) THEN data[i - c] ELSE u[i]]

\* The fields of a context between two calls.
LEMMA IsFields ==
    ASSUME NEW h, NEW b, NEW u, NEW c, Is(h, b, u, c)
    PROVE  h.blocks = b /\ h.buf = u /\ h.count = c /\ h.final = FALSE
  BY DEF Is

\* A context with other blocks.
LEMMA SetBlocks ==
    ASSUME NEW h, NEW b, NEW u, NEW c, Is(h, b, u, c), NEW x, NEW g, g = [h EXCEPT !.blocks = x]
    PROVE  Is(g, x, u, c)
  BY DEF Is

\* A context with another count.
LEMMA SetCount ==
    ASSUME NEW h, NEW b, NEW u, NEW c, Is(h, b, u, c), NEW x, NEW g, g = [h EXCEPT !.count = x]
    PROVE  Is(g, b, u, x)
  BY DEF Is

\* A hashed block is the next one.
LEMMA TransformIs ==
    ASSUME NEW h, NEW b, NEW u, NEW c, Is(h, b, u, c), NEW x
    PROVE  Is(Transform(h, x), Append(b, x), u, c)
<1> DEFINE g == Transform(h, x)
<1> DEFINE y == Append(b, x)
<1>1. h.blocks = b
  BY DEF Is
<1>2. g = [h EXCEPT !.blocks = y]
  BY <1>1 DEF Transform
<1> HIDE DEF g, y
<1>3. Is(g, y, u, c)
  BY <1>2, SetBlocks, Zenon
<1> QED
  BY <1>3, Zenon DEF g, y

\* A full buffer is hashed.
LEMMA FlushFull ==
    ASSUME NEW h, NEW b, NEW u, NEW c, Is(h, b, u, c), c = Block
    PROVE  Is(Flush(h), Append(b, u), u, 0)
<1>1. h.count = Block /\ h.buf = u
  BY DEF Is
<1> DEFINE t == Transform(h, u)
<1> DEFINE g == Flush(h)
<1> DEFINE z == 0
<1>2. g = [t EXCEPT !.count = z]
  BY <1>1 DEF Flush
<1>3. Is(t, Append(b, u), u, c)
  BY TransformIs, Zenon
<1> HIDE DEF t, g, z
<1>4. Is(g, Append(b, u), u, z)
  BY <1>2, <1>3, SetCount, Zenon
<1> QED
  BY <1>4, Zenon DEF g, z

\* A buffer that is not full is left alone.
LEMMA FlushRest ==
    ASSUME NEW h, NEW b, NEW u, NEW c, Is(h, b, u, c), c # Block
    PROVE  Is(Flush(h), b, u, c)
  BY DEF Is, Flush

\* A context with another buffer and count.
LEMMA SetTwo ==
    ASSUME NEW h, NEW b, NEW u, NEW c, Is(h, b, u, c), NEW x, NEW y, NEW g,
           g = [h EXCEPT !.buf = x, !.count = y]
    PROVE  Is(g, b, x, y)
  BY DEF Is

\* Data that fits goes behind what is in the buffer.
LEMMA FillIs ==
    ASSUME NEW h, NEW b, NEW u, NEW c, Is(h, b, u, c), NEW data
    PROVE  Is(Fill(h, data), b, Filled(u, c, data), c + Len(data))
<1> DEFINE x == Filled(u, c, data)
<1> DEFINE y == c + Len(data)
<1> DEFINE g == Fill(h, data)
<1>1. h.count = c /\ h.buf = u
  BY DEF Is
<1>2. g = [h EXCEPT !.buf = x, !.count = y]
  BY <1>1 DEF Fill, Filled
<1> HIDE DEF x, y, g
<1>3. Is(g, b, x, y)
  BY <1>2, SetTwo, Zenon
<1> QED
  BY <1>3, Zenon DEF x, y, g

\* Blocks that are hashed from the data.
LEMMA HashMore ==
    ASSUME NEW h, NEW b, NEW u, NEW c, Is(h, b, u, c), NEW more
    PROVE  Is([h EXCEPT !.blocks = @ \o more], b \o more, u, c)
<1> DEFINE g == [h EXCEPT !.blocks = @ \o more]
<1> DEFINE y == b \o more
<1>1. h.blocks = b
  BY DEF Is
<1>2. g = [h EXCEPT !.blocks = y]
  BY <1>1
<1> HIDE DEF g, y
<1>3. Is(g, y, u, c)
  BY <1>2, SetBlocks, Zenon
<1> QED
  BY <1>3, Zenon DEF g, y

\* A context that has taken nothing.
LEMMA ResetIs == Is(Reset, <<>>, [i \in 1 .. Block |-> 0], 0)
  BY DEF Reset, Is

-----------------------------------------------------------------------------
(* Blocks of a text.                                                       *)

\* The k-th block of the text T, and its first n blocks.
Slice(T, k) == [i \in 1 .. Block |-> T[N(k - 1) + i]]
Slices(T, n) == [k \in 1 .. n |-> Slice(T, k)]

\* The context h has taken the start of T: n blocks are hashed, and the next c bytes
\* are in its buffer u, of bytes of V.
Took(h, T, n, u, c, V) ==
    /\ Is(h, Slices(T, n), u, c)
    /\ n \in Nat /\ c \in 0 .. Block /\ u \in [1 .. Block -> V] /\ N(n) + c <= Len(T)
    /\ \A i \in 1 .. c : u[i] = T[N(n) + i]

\* data is what follows the first p bytes of T.
Follows(data, T, p) ==
    /\ p \in Nat /\ p + Len(data) <= Len(T)
    /\ \A i \in 1 .. Len(data) : data[i] = T[p + i]

\* A part of a sequence.
LEMMA PartOf ==
    ASSUME NEW V, NEW s \in Seq(V), NEW a \in Nat, NEW b \in Nat, a <= b, b <= Len(s)
    PROVE  /\ SubSeq(s, a + 1, b) \in Seq(V) /\ Len(SubSeq(s, a + 1, b)) = b - a
           /\ \A i \in 1 .. b - a : SubSeq(s, a + 1, b)[i] = s[a + i]
<1> DEFINE u == SubSeq(s, a + 1, b)
<1> DEFINE l == Len(s)
<1>1. l \in Nat /\ \A i \in 1 .. l : s[i] \in V
  OBVIOUS
<1>2. b <= l
  OBVIOUS
<1> HIDE DEF l
<1>3. \A i \in a + 1 .. b : i \in 1 .. l
  BY <1>1, <1>2
<1>4. \A i \in a + 1 .. b : s[i] \in V
  BY <1>1, <1>3, Zenon
<1>5. a + 1 \in Nat /\ b \in Nat
  OBVIOUS
<1>6. /\ u \in Seq(V) /\ Len(u) = (IF a + 1 <= b THEN b - (a + 1) + 1 ELSE 0)
      /\ \A i \in 1 .. b - (a + 1) + 1 : u[i] = s[(a + 1) + i - 1]
  BY <1>4, <1>5, SubSeqProperties
<1> HIDE DEF u
<1>7. Len(u) = b - a
  <2>1. Len(u) = (IF a + 1 <= b THEN b - (a + 1) + 1 ELSE 0)
    BY <1>6, Zenon
  <2> QED
    BY <2>1
<1>8. \A i \in 1 .. b - a : i \in 1 .. b - (a + 1) + 1 /\ (a + 1) + i - 1 = a + i
  OBVIOUS
<1> QED
  BY <1>6, <1>7, <1>8, Zenon DEF u

\* Two sequences with the same elements.
LEMMA SameElements ==
    ASSUME NEW V, NEW s \in Seq(V), NEW t \in Seq(V), Len(s) = Len(t), \A i \in 1 .. Len(s) : s[i] = t[i]
    PROVE  s = t
  OBVIOUS

\* The slices of a text are blocks.
LEMMA SliceTyped ==
    ASSUME NEW V, NEW T \in Seq(V), NEW n \in Nat, N(n) <= Len(T)
    PROVE  /\ \A k \in 1 .. n : Slice(T, k) \in [1 .. Block -> V]
           /\ Slices(T, n) \in Seq([1 .. Block -> V]) /\ Len(Slices(T, n)) = n
<1> DEFINE l == Len(T)
<1>1. l \in Nat /\ N(n) <= l /\ \A i \in 1 .. l : T[i] \in V
  OBVIOUS
<1> HIDE DEF l
<1>2. ASSUME NEW k \in 1 .. n PROVE Slice(T, k) \in [1 .. Block -> V]
  <2>1. k - 1 \in Nat /\ k \in Nat /\ k - 1 < n
    BY <1>2
  <2>2. N(k - 1) \in Nat /\ N(k - 1) + Block <= N(n) /\ Block \in Nat /\ N(n) \in Nat
    BY <2>1, Blocks, Zenon
  <2>3. \A i \in 1 .. Block : N(k - 1) + i \in 1 .. l
    BY <1>1, <2>2
  <2>4. \A i \in 1 .. Block : T[N(k - 1) + i] \in V
    BY <1>1, <2>3, Zenon
  <2> QED
    BY <2>4 DEF Slice
<1>3. Slices(T, n) \in [1 .. n -> [1 .. Block -> V]]
  BY <1>2 DEF Slices
<1> QED
  BY <1>2, <1>3

\* One more slice.
LEMMA NextSlice ==
    ASSUME NEW V, NEW T \in Seq(V), NEW n \in Nat, N(n + 1) <= Len(T)
    PROVE  Append(Slices(T, n), Slice(T, n + 1)) = Slices(T, n + 1)
<1> DEFINE W == [1 .. Block -> V]
<1>1. N(n) <= Len(T) /\ N(n + 1) <= Len(T) /\ n + 1 \in Nat
  <2>1. N(n) \in Nat /\ N(n + 1) = N(n) + Block /\ Block \in Nat
    BY Blocks
  <2>2. Len(T) \in Nat /\ N(n + 1) <= Len(T)
    OBVIOUS
  <2> QED
    BY <2>1, <2>2
<1>2. /\ Slices(T, n) \in Seq(W) /\ Len(Slices(T, n)) = n
      /\ Slices(T, n + 1) \in Seq(W) /\ Len(Slices(T, n + 1)) = n + 1
  BY <1>1, SliceTyped, Zenon
<1>3. Slice(T, n + 1) \in W
  <2>1. n + 1 \in 1 .. n + 1
    OBVIOUS
  <2> QED
    BY <1>1, <2>1, SliceTyped, Zenon
<1>4. /\ \A k \in 1 .. n : Slices(T, n)[k] = Slice(T, k)
      /\ \A k \in 1 .. n + 1 : Slices(T, n + 1)[k] = Slice(T, k)
  BY DEF Slices
<1> DEFINE a == Slices(T, n)
<1> DEFINE b == Slices(T, n + 1)
<1> DEFINE f(k) == Slice(T, k)
<1> HIDE DEF W, a, b, f
<1>5. /\ a \in Seq(W) /\ Len(a) = n /\ b \in Seq(W) /\ Len(b) = n + 1 /\ f(n + 1) \in W
      /\ \A k \in 1 .. n : a[k] = f(k)
      /\ \A k \in 1 .. n + 1 : b[k] = f(k)
  BY <1>2, <1>3, <1>4, Zenon DEF a, b, f
<1>6. Append(a, f(n + 1)) = b
  BY <1>5
<1> QED
  BY <1>6, Zenon DEF a, b, f

\* A full buffer is the next slice.
LEMMA FullIsSlice ==
    ASSUME NEW V, NEW T, NEW h, NEW n, NEW u, Took(h, T, n, u, Block, V)
    PROVE  u = Slice(T, n + 1)
<1>1. /\ n \in Nat /\ u \in [1 .. Block -> V] /\ \A i \in 1 .. Block : u[i] = T[N(n) + i]
  BY Zenon DEF Took
<1>2. (n + 1) - 1 = n
  BY <1>1
<1> QED
  BY <1>1, <1>2 DEF Slice

\* A full buffer is hashed as the next block, any other is left alone.
LEMMA FlushTook ==
    ASSUME NEW V, NEW T \in Seq(V), NEW h, NEW n, NEW u, Took(h, T, n, u, Block, V)
    PROVE  Took(Flush(h), T, n + 1, u, 0, V)
<1>1. /\ Is(h, Slices(T, n), u, Block)
      /\ n \in Nat /\ u \in [1 .. Block -> V] /\ N(n) + Block <= Len(T)
  BY Zenon DEF Took
<1>2. Block \in Nat /\ N(n) \in Nat /\ N(n + 1) = N(n) + Block
  BY <1>1, Blocks
<1>3. N(n + 1) <= Len(T)
  BY <1>1, <1>2, Zenon
<1>4. Append(Slices(T, n), u) = Slices(T, n + 1)
  BY <1>1, <1>3, NextSlice, FullIsSlice, Zenon
<1>5. Is(Flush(h), Append(Slices(T, n), u), u, 0)
  BY <1>1, FlushFull, Zenon
<1>6. Is(Flush(h), Slices(T, n + 1), u, 0)
  BY <1>4, <1>5, Zenon
<1>7. n + 1 \in Nat /\ 0 \in 0 .. Block /\ N(n + 1) + 0 = N(n + 1)
  BY <1>1, <1>2
<1>8. \A i \in 1 .. 0 : u[i] = T[N(n + 1) + i]
  OBVIOUS
<1> QED
  BY <1>1, <1>3, <1>6, <1>7, <1>8 DEF Took

\* A buffer that is not full is not hashed.
LEMMA NoFlush ==
    ASSUME NEW V, NEW T, NEW h, NEW n, NEW u, NEW c, Took(h, T, n, u, c, V), c # Block
    PROVE  Took(Flush(h), T, n, u, c, V)
  BY FlushRest, Zenon DEF Took

\* What follows fills the buffer up.
LEMMA FillTook ==
    ASSUME NEW V, NEW T \in Seq(V), NEW h, NEW n, NEW u, NEW c, Took(h, T, n, u, c, V),
           NEW data \in Seq(V), c + Len(data) <= Block, Follows(data, T, N(n) + c)
    PROVE  Took(Fill(h, data), T, n, Filled(u, c, data), c + Len(data), V)
<1> DEFINE l == Len(data)
<1> DEFINE x == Filled(u, c, data)
<1>1. /\ Is(h, Slices(T, n), u, c)
      /\ n \in Nat /\ c \in 0 .. Block /\ u \in [1 .. Block -> V] /\ N(n) + c <= Len(T)
      /\ \A i \in 1 .. c : u[i] = T[N(n) + i]
  BY Zenon DEF Took
<1>2. Block \in Nat /\ N(n) \in Nat
  BY <1>1, Blocks, Zenon
<1>5. l \in Nat /\ c + l <= Block /\ \A i \in 1 .. l : data[i] \in V
  OBVIOUS
<1>6. x = [i \in 1 .. Block |-> IF i > c /\ i <= c + l THEN data[i - c] ELSE u[i]]
  BY Zenon DEF Filled
<1>7. (N(n) + c) + l <= Len(T) /\ \A i \in 1 .. l : data[i] = T[(N(n) + c) + i]
  BY Zenon DEF Follows
<1>8. Is(Fill(h, data), Slices(T, n), x, c + l)
  BY <1>1, FillIs, Zenon
<1> HIDE DEF l, x
<1>9. x \in [1 .. Block -> V]
  <2>1. ASSUME NEW i \in 1 .. Block
        PROVE  (IF i > c /\ i <= c + l THEN data[i - c] ELSE u[i]) \in V
    <3>1. CASE i > c /\ i <= c + l
      <4>1. i - c \in 1 .. l
        BY <1>1, <1>2, <1>5, <2>1, <3>1
      <4> QED
        BY <1>5, <3>1, <4>1, Zenon
    <3>2. CASE ~ (i > c /\ i <= c + l)
      <4>1. u[i] \in V
        BY <1>1, <2>1
      <4> QED
        BY <3>2, <4>1, Zenon
    <3> QED
      BY <3>1, <3>2, Zenon
  <2> QED
    BY <1>6, <2>1
<1>10. \A i \in 1 .. c + l : x[i] = T[N(n) + i]
  <2> SUFFICES ASSUME NEW i \in 1 .. c + l PROVE x[i] = T[N(n) + i]
    OBVIOUS
  <2>1. i \in 1 .. Block /\ (i <= c => i \in 1 .. c)
    BY <1>1, <1>2, <1>5
  <2>2. CASE i <= c
    <3>1. x[i] = u[i]
      BY <1>1, <1>6, <2>1, <2>2
    <3> QED
      BY <1>1, <2>1, <2>2, <3>1, Zenon
  <2>3. CASE i > c
    <3>1. x[i] = data[i - c] /\ i - c \in 1 .. l /\ (N(n) + c) + (i - c) = N(n) + i
      BY <1>1, <1>2, <1>5, <1>6, <2>1, <2>3
    <3> QED
      BY <1>7, <3>1, Zenon
  <2> QED
    BY <1>1, <2>2, <2>3
<1>11. c + l \in 0 .. Block /\ N(n) + (c + l) = (N(n) + c) + l
  BY <1>1, <1>2, <1>5
<1>12. Took(Fill(h, data), T, n, x, c + l, V)
  BY <1>1, <1>7, <1>8, <1>9, <1>10, <1>11, Zenon DEF Took
<1> QED
  BY <1>12, Zenon DEF l, x

\* The blocks of what follows n slices are the next slices.
LEMMA ChunksFollow ==
    ASSUME NEW V, NEW T \in Seq(V), NEW n \in Nat, NEW data \in Seq(V), Follows(data, T, N(n))
    PROVE  /\ Slices(T, n) \o Chunks(data) = Slices(T, n + Len(data) \div Block)
           /\ Len(Chunks(data)) = Len(data) \div Block
<1> DEFINE l == Len(data)
<1> DEFINE w == l \div Block
<1> DEFINE W == [1 .. Block -> V]
<1> DEFINE p == N(n)
<1>1. n \in Nat /\ p = N(n) /\ p \in Nat
  BY DEF Follows
<1>2. l \in Nat /\ Len(T) \in Nat
  OBVIOUS
<1>3. Block \in Nat /\ Block > 0 /\ N(n) \in Nat
  BY <1>1, Blocks, Zenon
<1>4. w \in Nat /\ N(w) <= l /\ N(w) \in Nat
  BY <1>2, WholeBlocks
<1>5. /\ p + l <= Len(T) /\ \A i \in 1 .. l : data[i] = T[p + i]
      /\ Chunks(data) = [k \in 1 .. w |-> SubSeq(data, (k - 1) * Block + 1, k * Block)] /\ l = Len(data)
  BY DEF Chunks, Follows
<1> HIDE DEF l, w, p
<1>6. N(n + w) = N(n) + N(w) /\ n + w \in Nat
  BY <1>1, <1>4, Blocks
<1>p. p = N(n) /\ p + N(w) = N(n + w) /\ N(n + w) <= Len(T) /\ N(n) <= Len(T)
  BY <1>1, <1>2, <1>3, <1>4, <1>5, <1>6
<1>7. ASSUME NEW k \in 1 .. w
      PROVE  SubSeq(data, (k - 1) * Block + 1, k * Block) = Slice(T, n + k)
  <2> DEFINE a == N(k - 1)
  <2>1. k - 1 \in Nat /\ k \in Nat /\ k - 1 < w /\ k = (k - 1) + 1 /\ (n + k) - 1 = n + (k - 1) /\ n + k \in Nat
    BY <1>1, <1>4, <1>7
  <2>2. /\ a \in Nat /\ a + Block <= N(w) /\ N((k - 1) + 1) = a + Block /\ N(n + (k - 1)) = N(n) + a
    BY <1>1, <1>4, <2>1, Blocks, Zenon
  <2>3. (k - 1) * Block = a /\ k * Block = a + Block
    BY <2>1, <2>2 DEF N
  <2>4. N((n + k) - 1) = N(n) + a
    BY <2>1, <2>2
  <2> HIDE DEF a
  <2>5. a + Block \in Nat /\ a <= a + Block /\ a + Block <= l /\ (a + Block) - a = Block
    BY <1>2, <1>3, <1>4, <2>2
  <2>6. /\ SubSeq(data, a + 1, a + Block) \in Seq(V) /\ Len(SubSeq(data, a + 1, a + Block)) = (a + Block) - a
        /\ \A i \in 1 .. (a + Block) - a : SubSeq(data, a + 1, a + Block)[i] = data[a + i]
    <3>1. a + Block <= Len(data) /\ a \in Nat /\ a + Block \in Nat /\ a <= a + Block
      BY <1>5, <2>2, <2>5, Zenon
    <3> DEFINE e == a + Block
    <3>2. e <= Len(data) /\ a \in Nat /\ e \in Nat /\ a <= e /\ data \in Seq(V)
      BY <3>1, Zenon
    <3> HIDE DEF e
    <3>3. /\ SubSeq(data, a + 1, e) \in Seq(V) /\ Len(SubSeq(data, a + 1, e)) = e - a
          /\ \A i \in 1 .. e - a : SubSeq(data, a + 1, e)[i] = data[a + i]
      BY <3>2, PartOf, Zenon
    <3> QED
      BY <3>3 DEF e
  <2> DEFINE u == SubSeq(data, a + 1, a + Block)
  <2> HIDE DEF u
  <2>7. u \in [1 .. Block -> V] /\ \A i \in 1 .. Block : u[i] = data[a + i]
    <3>1. u \in Seq(V) /\ Len(u) = Block /\ \A i \in 1 .. Block : u[i] = data[a + i]
      BY <2>5, <2>6, Zenon DEF u
    <3> QED
      BY <3>1
  <2>8. \A i \in 1 .. Block : a + i \in 1 .. l /\ p + (a + i) = (N(n) + a) + i
    BY <1>2, <1>3, <1>p, <2>2, <2>5
  <2>9. ASSUME NEW i \in 1 .. Block PROVE u[i] = T[N((n + k) - 1) + i]
    <3>1. u[i] = data[a + i] /\ a + i \in 1 .. l /\ p + (a + i) = (N(n) + a) + i
      BY <2>7, <2>8, <2>9
    <3>2. data[a + i] = T[p + (a + i)]
      BY <1>5, <3>1, Zenon
    <3>3. p + (a + i) = N((n + k) - 1) + i
      BY <2>4, <3>1, Zenon
    <3> QED
      BY <3>1, <3>2, <3>3, Zenon
  <2>10. u = Slice(T, n + k)
    BY <2>7, <2>9 DEF Slice
  <2> QED
    BY <2>3, <2>10, Zenon DEF u
<1>8. /\ \A k \in 1 .. n + w : Slice(T, k) \in W
      /\ Slices(T, n + w) \in Seq(W) /\ Len(Slices(T, n + w)) = n + w
  BY <1>6, <1>p, SliceTyped, Zenon
<1>9. Slices(T, n) \in Seq(W) /\ Len(Slices(T, n)) = n
  BY <1>1, <1>p, SliceTyped, Zenon
<1>10. /\ \A k \in 1 .. n : Slices(T, n)[k] = Slice(T, k)
       /\ \A k \in 1 .. n + w : Slices(T, n + w)[k] = Slice(T, k)
  BY Zenon DEF Slices
<1> DEFINE f(k) == Slice(T, k)
<1> DEFINE a == Slices(T, n)
<1> DEFINE b == Slices(T, n + w)
<1> DEFINE ch == Chunks(data)
<1>11. /\ a \in Seq(W) /\ Len(a) = n /\ b \in Seq(W) /\ Len(b) = n + w
       /\ \A k \in 1 .. n + w : f(k) \in W
       /\ \A k \in 1 .. n : a[k] = f(k)
       /\ \A k \in 1 .. n + w : b[k] = f(k)
  BY <1>8, <1>9, <1>10, Zenon
<1>12. ch = [k \in 1 .. w |-> f(n + k)]
  BY <1>5, <1>7
<1> HIDE DEF W, f, a, b, ch
<1>13. ch \in Seq(W) /\ Len(ch) = w /\ \A k \in 1 .. w : ch[k] = f(n + k)
  <2>1. \A k \in 1 .. w : n + k \in 1 .. n + w
    BY <1>1, <1>4
  <2>2. ch \in [1 .. w -> W]
    BY <1>11, <1>12, <2>1
  <2>3. ch \in Seq(W) /\ Len(ch) = w
    BY <1>4, <2>2
  <2>4. \A k \in 1 .. w : ch[k] = f(n + k)
    BY <1>12, Zenon
  <2> QED
    BY <2>3, <2>4, Zenon
<1>14. a \o ch = b
  <2> DEFINE z == a \o ch
  <2>1. /\ z \in Seq(W) /\ Len(z) = n + w
        /\ \A k \in 1 .. n + w : z[k] = IF k <= n THEN a[k] ELSE ch[k - n]
    <3>1. /\ z \in Seq(W) /\ Len(z) = Len(a) + Len(ch)
          /\ \A k \in 1 .. Len(a) + Len(ch) : z[k] = IF k <= Len(a) THEN a[k] ELSE ch[k - Len(a)]
      <4>1. a \in Seq(W) /\ ch \in Seq(W)
        BY <1>11, <1>13, Zenon
      <4> QED
        BY <4>1, ConcatProperties DEF z
    <3> HIDE DEF z
    <3> QED
      BY <1>11, <1>13, <3>1, Zenon
  <2> HIDE DEF z
  <2>2. ASSUME NEW k \in 1 .. n + w PROVE z[k] = b[k]
    <3>1. CASE k <= n
      <4>1. k \in 1 .. n
        BY <1>1, <1>4, <2>2, <3>1
      <4> QED
        BY <1>11, <2>1, <2>2, <3>1, <4>1, Zenon
    <3>2. CASE ~ (k <= n)
      <4>1. k - n \in 1 .. w /\ n + (k - n) = k
        BY <1>1, <1>4, <2>2, <3>2
      <4> QED
        BY <1>11, <1>13, <2>1, <2>2, <3>2, <4>1, Zenon
    <3> QED
      BY <3>1, <3>2
  <2>3. Len(z) = Len(b) /\ \A k \in 1 .. Len(z) : z[k] = b[k]
    BY <1>11, <2>1, <2>2, Zenon
  <2>4. z = b
    BY <1>11, <2>1, <2>3, SameElements, Zenon
  <2> QED
    BY <2>4 DEF z
<1> QED
  BY <1>13, <1>14, Zenon DEF ch, a, b, w, l

\* The whole blocks of what follows are hashed.
LEMMA ChunksTook ==
    ASSUME NEW V, NEW T \in Seq(V), NEW h, NEW n, NEW u, Took(h, T, n, u, 0, V),
           NEW data \in Seq(V), Follows(data, T, N(n))
    PROVE  Took([h EXCEPT !.blocks = @ \o Chunks(data)], T, n + Len(data) \div Block, u, 0, V)
<1> DEFINE l == Len(data)
<1> DEFINE w == l \div Block
<1>1. Is(h, Slices(T, n), u, 0) /\ n \in Nat /\ u \in [1 .. Block -> V]
  BY Zenon DEF Took
<1>2. l \in Nat /\ Len(T) \in Nat
  OBVIOUS
<1>3. Slices(T, n) \o Chunks(data) = Slices(T, n + w)
  BY <1>1, ChunksFollow, Zenon
<1>4. N(n) + l <= Len(T)
  BY Zenon DEF Follows
<1> HIDE DEF l
<1>5. w \in Nat /\ N(w) <= l /\ N(w) \in Nat
  BY <1>2, WholeBlocks
<1> HIDE DEF w
<1>6. n + w \in Nat /\ N(n + w) = N(n) + N(w) /\ N(n) \in Nat /\ 0 \in 0 .. Block
  BY <1>1, <1>5, Blocks
<1>7. N(n + w) + 0 <= Len(T)
  BY <1>2, <1>4, <1>5, <1>6
<1>8. Is([h EXCEPT !.blocks = @ \o Chunks(data)], Slices(T, n + w), u, 0)
  <2>1. Is([h EXCEPT !.blocks = @ \o Chunks(data)], Slices(T, n) \o Chunks(data), u, 0)
    BY <1>1, HashMore, Zenon
  <2> QED
    BY <1>3, <2>1, Zenon
<1>9. \A i \in 1 .. 0 : u[i] = T[N(n + w) + i]
  OBVIOUS
<1>10. Took([h EXCEPT !.blocks = @ \o Chunks(data)], T, n + w, u, 0, V)
  BY <1>1, <1>6, <1>7, <1>8, <1>9, Zenon DEF Took
<1> QED
  BY <1>10, Zenon DEF w, l

\* a is the l bytes of T behind the first p.
IsPart(a, T, p, l, V) == a \in Seq(V) /\ Len(a) = l /\ Follows(a, T, p)

\* The two parts of what follows.
LEMMA FollowParts ==
    ASSUME NEW V, NEW T \in Seq(V), NEW data \in Seq(V), NEW p, Follows(data, T, p),
           NEW j \in Nat, j <= Len(data)
    PROVE  /\ IsPart(SubSeq(data, 1, j), T, p, j, V)
           /\ IsPart(SubSeq(data, j + 1, Len(data)), T, p + j, Len(data) - j, V)
<1> DEFINE a == SubSeq(data, 0 + 1, j)
<1> DEFINE l == Len(data)
<1> DEFINE b == SubSeq(data, j + 1, l)
<1> DEFINE t == Len(T)
<1>1. l \in Nat /\ j \in Nat /\ j <= l /\ 0 \in Nat /\ 0 <= j /\ l <= l /\ j - 0 = j
  OBVIOUS
<1>2. p \in Nat /\ p + l <= t /\ t \in Nat /\ \A i \in 1 .. l : data[i] = T[p + i]
  <2>1. t \in Nat
    OBVIOUS
  <2> QED
    BY <2>1, Zenon DEF Follows
<1>3. a \in Seq(V) /\ Len(a) = j - 0 /\ \A i \in 1 .. j - 0 : a[i] = data[0 + i]
  <2> DEFINE z == 0
  <2>1. z \in Nat /\ j \in Nat /\ z <= j /\ j <= Len(data)
    BY <1>1, Zenon
  <2> HIDE DEF z
  <2>2. SubSeq(data, z + 1, j) \in Seq(V) /\ Len(SubSeq(data, z + 1, j)) = j - z
        /\ \A i \in 1 .. j - z : SubSeq(data, z + 1, j)[i] = data[z + i]
    BY <2>1, PartOf, Zenon
  <2> QED
    BY <2>2, Zenon DEF z
<1>4. b \in Seq(V) /\ Len(b) = l - j /\ \A i \in 1 .. l - j : b[i] = data[j + i]
  <2>1. l <= Len(data) /\ l \in Nat /\ j \in Nat /\ j <= l
    BY <1>1, Zenon
  <2> HIDE DEF l
  <2> QED
    BY <2>1, PartOf, Zenon
<1>0. 0 + 1 = 1
  OBVIOUS
<1>00. SubSeq(data, 1, j) = a
  BY <1>0, Zenon
<1> HIDE DEF a, b, l, t
<1>5. \A i \in 1 .. j : i \in 1 .. l /\ 0 + i = i
  BY <1>1
<1>6. \A i \in 1 .. l - j : j + i \in 1 .. l /\ p + (j + i) = (p + j) + i
  BY <1>1, <1>2
<1>7. Len(a) = j /\ \A i \in 1 .. j : a[i] = T[p + i]
  <2>1. Len(a) = j
    BY <1>1, <1>3, Zenon
  <2>2. ASSUME NEW i \in 1 .. j PROVE a[i] = T[p + i]
    <3>1. a[i] = data[0 + i]
      BY <1>1, <1>3, <2>2, Zenon
    <3> QED
      BY <1>2, <1>5, <2>2, <3>1, Zenon
  <2> QED
    BY <2>1, <2>2
<1>8. \A i \in 1 .. l - j : b[i] = T[(p + j) + i]
  <2>2. ASSUME NEW i \in 1 .. l - j PROVE b[i] = T[(p + j) + i]
    <3>1. b[i] = data[j + i]
      BY <1>4, <2>2, Zenon
    <3>2. data[j + i] = T[p + (j + i)]
      BY <1>2, <1>6, <2>2, Zenon
    <3> QED
      BY <1>6, <2>2, <3>1, <3>2, Zenon
  <2> QED
    BY <2>2
<1>9. p + j <= t /\ p + j \in Nat /\ (p + j) + (l - j) <= t
  BY <1>1, <1>2
<1>10. Follows(a, T, p)
  BY <1>2, <1>7, <1>9, Zenon DEF Follows, t
<1>11. Follows(b, T, p + j)
  BY <1>4, <1>8, <1>9, Zenon DEF Follows, t
<1>12. SubSeq(data, 1, j) \in Seq(V) /\ Len(SubSeq(data, 1, j)) = j /\ Follows(SubSeq(data, 1, j), T, p)
  BY <1>00, <1>3, <1>7, <1>10, Zenon
<1> QED
  BY <1>4, <1>11, <1>12, Zenon DEF b, l, IsPart

\* The context h has taken the first p bytes of T, and its buffer is not full.
TookBytes(h, T, p, V) == \E m, x, e : Took(h, T, m, x, e, V) /\ e < Block /\ N(m) + e = p

\* The end of a write: whole blocks, and the rest.
Ending(g, rest) ==
    Fill([g EXCEPT !.blocks = @ \o Chunks(rest)], SubSeq(rest, Len(Chunks(rest)) * Block + 1, Len(rest)))

\* What is left of the data begins the next block.
LEMMA EndingTook ==
    ASSUME NEW V, NEW T \in Seq(V), NEW g, NEW n, NEW u, Took(g, T, n, u, 0, V),
           NEW rest \in Seq(V), Follows(rest, T, N(n))
    PROVE  TookBytes(Ending(g, rest), T, N(n) + Len(rest), V)
<1> DEFINE l == Len(rest)
<1> DEFINE w == l \div Block
<1> DEFINE k == [g EXCEPT !.blocks = @ \o Chunks(rest)]
<1> DEFINE d == SubSeq(rest, N(w) + 1, l)
<1> DEFINE e == l - N(w)
<1>1. l \in Nat /\ N(n) \in Nat
  BY DEF Follows
<1>2. w \in Nat /\ N(w) <= l /\ l < N(w) + Block /\ N(w) \in Nat /\ Block \in Nat
  BY <1>1, WholeBlocks, Blocks
<1>3. n \in Nat /\ u \in [1 .. Block -> V]
  BY Zenon DEF Took
<1>4. Took(k, T, n + w, u, 0, V)
  BY ChunksTook, Zenon
<1>5. Ending(g, rest) = Fill(k, d)
  <2>1. Len(Chunks(rest)) * Block = N(w)
    BY <1>3, ChunksFollow, Zenon DEF N
  <2> QED
    BY <2>1, Zenon DEF Ending
<1>6. d \in Seq(V) /\ Len(d) = l - N(w) /\ Follows(d, T, N(n) + N(w))
  <2>1. N(w) \in Nat /\ N(w) <= Len(rest)
    BY <1>1, <1>2
  <2> HIDE DEF w
  <2>2. IsPart(SubSeq(rest, N(w) + 1, Len(rest)), T, N(n) + N(w), Len(rest) - N(w), V)
    BY <2>1, FollowParts, Zenon
  <2> QED
    BY <2>2, Zenon DEF IsPart
<1> HIDE DEF l, w, k, d
<1>7. N(n + w) = N(n) + N(w) /\ n + w \in Nat
  BY <1>2, <1>3, Blocks
<1>8. 0 + e = e /\ e <= Block /\ e < Block /\ (N(n) + N(w)) + 0 = N(n) + N(w) /\ N(n + w) + e = N(n) + l
  BY <1>1, <1>2, <1>7
<1> HIDE DEF e
<1>9. Len(d) = e
  BY <1>6, Zenon DEF e
<1>10. 0 + Len(d) <= Block /\ Follows(d, T, N(n + w) + 0) /\ 0 + Len(d) = e
  BY <1>6, <1>7, <1>8, <1>9, Zenon
<1>11. Took(Fill(k, d), T, n + w, Filled(u, 0, d), 0 + Len(d), V)
  BY <1>4, <1>6, <1>10, FillTook, Zenon
<1>12. Took(Ending(g, rest), T, n + w, Filled(u, 0, d), e, V)
  BY <1>5, <1>10, <1>11, Zenon
<1> QED
  BY <1>8, <1>12, Zenon DEF l, TookBytes

\* Without data nothing more is taken.
LEMMA NoEnding ==
    ASSUME NEW V, NEW T \in Seq(V), NEW g, NEW n, NEW u, NEW c, Took(g, T, n, u, c, V),
           NEW rest \in Seq(V), Len(rest) = 0
    PROVE  \E x : Took(Ending(g, rest), T, n, x, c, V)
<1>1. /\ Is(g, Slices(T, n), u, c)
      /\ n \in Nat /\ c \in 0 .. Block /\ u \in [1 .. Block -> V] /\ N(n) + c <= Len(T)
      /\ \A i \in 1 .. c : u[i] = T[N(n) + i]
  BY Zenon DEF Took
<1>2. Block \in Nat /\ Block > 0 /\ N(n) \in Nat
  BY <1>1, Blocks, Zenon
<1>3. rest = <<>>
  OBVIOUS
<1>4. 0 \div Block = 0
  BY <1>2, Z3
<1>5. Chunks(rest) = <<>>
  BY <1>3, <1>4 DEF Chunks
<1>6. SubSeq(rest, Len(Chunks(rest)) * Block + 1, Len(rest)) = <<>>
  <2>1. Len(Chunks(rest)) = 0 /\ 0 * Block = 0
    BY <1>2, <1>5
  <2> QED
    BY <1>3, <2>1
<1> DEFINE k == [g EXCEPT !.blocks = @ \o Chunks(rest)]
<1>7. Is(k, Slices(T, n) \o Chunks(rest), u, c)
  BY <1>1, HashMore, Zenon
<1>8. Slices(T, n) \o Chunks(rest) = Slices(T, n)
  <2>1. N(n) <= Len(T)
    <3>1. Len(T) \in Nat
      OBVIOUS
    <3> QED
      BY <1>1, <1>2, <3>1
  <2>2. Slices(T, n) \in Seq([1 .. Block -> V])
    BY <1>1, <2>1, SliceTyped, Zenon
  <2> QED
    BY <1>5, <2>2
<1>9. Took(k, T, n, u, c, V)
  BY <1>1, <1>7, <1>8, Zenon DEF Took
<1> HIDE DEF k
<1> DEFINE d == SubSeq(rest, Len(Chunks(rest)) * Block + 1, Len(rest))
<1>10. d = <<>> /\ Ending(g, rest) = Fill(k, d)
  BY <1>6, Zenon DEF Ending, k
<1> HIDE DEF d
<1>11. d \in Seq(V) /\ c + Len(d) <= Block /\ Follows(d, T, N(n) + c) /\ c + Len(d) = c
  <2>1. Len(T) \in Nat
    OBVIOUS
  <2> QED
    BY <1>1, <1>2, <1>10, <2>1 DEF Follows
<1>12. Took(Fill(k, d), T, n, Filled(u, c, d), c + Len(d), V)
  BY <1>9, <1>11, FillTook, Zenon
<1> QED
  BY <1>10, <1>11, <1>12, Zenon

\* Whatever is written goes on where the last write ended.
LEMMA WriteTook ==
    ASSUME NEW V, NEW T \in Seq(V), NEW h, NEW n, NEW u, NEW c, Took(h, T, n, u, c, V), c < Block,
           NEW data \in Seq(V), Follows(data, T, N(n) + c)
    PROVE  TookBytes(Write(h, data), T, (N(n) + c) + Len(data), V)
<1> DEFINE begun == Flush(IF h.final THEN Reset ELSE h)
<1> DEFINE first == Room(begun, data)
<1> DEFINE a == SubSeq(data, 1, first)
<1> DEFINE full == Flush(Fill(begun, a))
<1> DEFINE l == Len(data)
<1> DEFINE rest == SubSeq(data, first + 1, l)
<1>1. Write(h, data) = Ending(full, rest)
  BY Zenon DEF Write, Ending
<1>2. /\ n \in Nat /\ c \in 0 .. Block /\ u \in [1 .. Block -> V] /\ Is(h, Slices(T, n), u, c)
  BY Zenon DEF Took
<1>3. Block \in Nat /\ Block > 0 /\ N(n) \in Nat /\ N(n + 1) = N(n) + Block /\ n + 1 \in Nat /\ c < Block
  BY <1>2, Blocks
<1>4. l \in Nat
  OBVIOUS
<1>5. Took(begun, T, n, u, c, V)
  <2>1. c # Block
    BY <1>2, <1>3
  <2>2. h.final = FALSE
    BY <1>2, IsFields, Zenon
  <2>3. begun = Flush(h)
    BY <2>2
  <2> QED
    BY <2>1, <2>3, NoFlush, Zenon
<1> HIDE DEF begun
<1>6. first = IF c > 0 THEN Least(Block - c, l) ELSE 0
  <2>1. Is(begun, Slices(T, n), u, c)
    BY <1>5, Zenon DEF Took
  <2>2. begun.count = c
    BY <2>1, IsFields, Zenon
  <2> QED
    BY <2>2, Zenon DEF Room
<1> HIDE DEF first, l
<1>7. /\ first \in Nat /\ first <= l /\ c + first <= Block
      /\ c + first = Block \/ (c = 0 /\ first = 0) \/ (first = l /\ c + first < Block)
  BY <1>2, <1>3, <1>4, <1>6 DEF Least
<1>8. /\ a \in Seq(V) /\ Len(a) = first /\ Follows(a, T, N(n) + c)
      /\ rest \in Seq(V) /\ Len(rest) = l - first /\ Follows(rest, T, (N(n) + c) + first)
  <2>1. /\ IsPart(SubSeq(data, 1, first), T, N(n) + c, first, V)
        /\ IsPart(SubSeq(data, first + 1, Len(data)), T, (N(n) + c) + first, Len(data) - first, V)
    BY <1>7, FollowParts, Zenon DEF l
  <2> QED
    BY <2>1, Zenon DEF IsPart, l
<1> DEFINE v == Filled(u, c, a)
<1>9. Took(Fill(begun, a), T, n, v, c + first, V)
  BY <1>5, <1>7, <1>8, FillTook, Zenon
<1> HIDE DEF a, v, rest
<1>10. CASE c + first = Block
  <2>1. Took(full, T, n + 1, v, 0, V)
    BY <1>9, <1>10, FlushTook, Zenon
  <2> HIDE DEF full
  <2>2. (N(n) + c) + first = N(n + 1) /\ N(n + 1) + (l - first) = (N(n) + c) + l
    <3>1. first \in Nat /\ c \in Nat
      BY <1>2, <1>7
    <3> DEFINE A == N(n)
    <3> DEFINE B == N(n + 1)
    <3>2. A \in Nat /\ B = A + Block /\ Block \in Nat
      BY <1>3
    <3> HIDE DEF A, B
    <3>3. (A + c) + first = B /\ B + (l - first) = (A + c) + l
      BY <1>4, <1>10, <3>1, <3>2
    <3> QED
      BY <3>3 DEF A, B
  <2>3. Follows(rest, T, N(n + 1))
    BY <1>8, <2>2, Zenon
  <2>4. TookBytes(Ending(full, rest), T, N(n + 1) + Len(rest), V)
    BY <1>8, <2>1, <2>3, EndingTook, Zenon
  <2> QED
    BY <1>1, <1>8, <2>2, <2>4, Zenon DEF l
<1>11. CASE c = 0 /\ first = 0
  <2>1. c + first = 0 /\ 0 # Block
    BY <1>3, <1>11
  <2>2. Took(full, T, n, v, 0, V)
    BY <1>9, <2>1, NoFlush, Zenon
  <2> HIDE DEF full
  <2>3. (N(n) + c) + first = N(n) /\ N(n) + (l - first) = (N(n) + c) + l
    BY <1>3, <1>4, <1>11
  <2>4. Follows(rest, T, N(n))
    BY <1>8, <2>3, Zenon
  <2>5. TookBytes(Ending(full, rest), T, N(n) + Len(rest), V)
    BY <1>8, <2>2, <2>4, EndingTook, Zenon
  <2> QED
    BY <1>1, <1>8, <2>3, <2>5, Zenon DEF l
<1>12. CASE first = l /\ c + first < Block
  <2> DEFINE e == c + first
  <2>1. e # Block /\ e < Block /\ N(n) + e = (N(n) + c) + l /\ l - first = 0
    BY <1>2, <1>3, <1>4, <1>12
  <2>2. Took(Fill(begun, a), T, n, v, e, V)
    BY <1>9, Zenon
  <2> HIDE DEF e
  <2>3. Took(full, T, n, v, e, V)
    BY <2>1, <2>2, NoFlush, Zenon
  <2>4. Len(rest) = 0
    BY <1>8, <2>1, Zenon
  <2>5. \E x : Took(Ending(full, rest), T, n, x, e, V)
    BY <1>8, <2>3, <2>4, NoEnding, Zenon
  <2> QED
    BY <1>1, <2>1, <2>5, Zenon DEF l, TookBytes
<1> QED
  BY <1>7, <1>10, <1>11, <1>12, Zenon

-----------------------------------------------------------------------------
(* The padded message.                                                     *)

\* The sequence z is s and then t.
IsConcat(z, s, t, V) ==
    /\ z \in Seq(V) /\ Len(z) = Len(s) + Len(t)
    /\ \A i \in 1 .. Len(s) : z[i] = s[i]
    /\ \A i \in 1 .. Len(t) : z[Len(s) + i] = t[i]

\* Two sequences, one behind the other.
LEMMA ConcatParts ==
    ASSUME NEW V, NEW s \in Seq(V), NEW t \in Seq(V)
    PROVE  IsConcat(s \o t, s, t, V)
<1> DEFINE z == s \o t
<1> DEFINE a == Len(s)
<1> DEFINE b == Len(t)
<1>1. /\ z \in Seq(V) /\ Len(z) = a + b
      /\ \A i \in 1 .. a + b : z[i] = IF i <= a THEN s[i] ELSE t[i - a]
  BY ConcatProperties
<1>2. a \in Nat /\ b \in Nat
  OBVIOUS
<1> HIDE DEF z, a, b
<1>3. \A i \in 1 .. a : i \in 1 .. a + b /\ i <= a
  BY <1>2
<1>4. \A i \in 1 .. b : a + i \in 1 .. a + b /\ ~ (a + i <= a) /\ (a + i) - a = i
  BY <1>2
<1>5. \A i \in 1 .. a : z[i] = s[i]
  BY <1>1, <1>3, Zenon
<1>6. \A i \in 1 .. b : z[a + i] = t[i]
  BY <1>1, <1>4, Zenon
<1> QED
  BY <1>1, <1>5, <1>6, Zenon DEF z, a, b, IsConcat

\* The zeros in the padding of l bytes.
PadZeros(l) == (2 * Block - LenBytes - 1 - (l % Block)) % Block

\* The zeros fill the block, or it and the next.
LEMMA PadZerosIs ==
    ASSUME NEW n \in Nat, NEW c \in Nat, c < Block
    PROVE  /\ c < Block - LenBytes => PadZeros(N(n) + c) = Block - LenBytes - 1 - c
           /\ ~ (c < Block - LenBytes) => PadZeros(N(n) + c) = 2 * Block - LenBytes - 1 - c
           /\ PadZeros(N(n) + c) \in Nat
<1>1. Block \in Nat /\ LenBytes \in Nat /\ LenBytes > 0 /\ LenBytes < Block
  BY Sha1Assumption
<1>2. c \in 0 .. Block - 1
  BY <1>1
<1>3. (N(n) + c) % Block = c
  BY <1>2, LeftOver, Zenon
<1> DEFINE a == Block - LenBytes - 1 - c
<1> DEFINE b == 2 * Block - LenBytes - 1 - c
<1>4. PadZeros(N(n) + c) = b % Block
  BY <1>3, Zenon DEF PadZeros
<1>5. b = Block + a
  BY <1>1
<1>6. N(0) = 0 /\ N(1) = Block
  BY <1>1 DEF N
<1>7. CASE c < Block - LenBytes
  <2>1. a \in 0 .. Block - 1
    BY <1>1, <1>7
  <2> HIDE DEF a, b
  <2>2. (N(1) + a) % Block = a
    BY <2>1, LeftOver
  <2>3. PadZeros(N(n) + c) = a /\ a \in Nat
    BY <1>4, <1>5, <1>6, <2>1, <2>2
  <2> QED
    BY <1>7, <2>3 DEF a
<1>8. CASE ~ (c < Block - LenBytes)
  <2>1. b \in 0 .. Block - 1
    BY <1>1, <1>8
  <2> HIDE DEF a, b
  <2>2. (N(0) + b) % Block = b
    BY <2>1, LeftOver
  <2>3. PadZeros(N(n) + c) = b /\ b \in Nat
    BY <1>4, <1>6, <2>1, <2>2
  <2> QED
    BY <1>8, <2>3 DEF b
<1> QED
  BY <1>7, <1>8

\* V has the bytes of the message M and of its padding.
Bytes(V, M) == M \in Seq(V) /\ 0 \in V /\ 128 \in V /\ BigEndian(8 * Len(M)) \in Seq(V)

\* T is the message M, a one bit, z bytes of zeros behind its byte, and the length.
IsPadded(T, M, z, V) ==
    /\ T \in Seq(V) /\ Len(T) = Len(M) + 1 + z + LenBytes
    /\ \A i \in 1 .. Len(M) : T[i] = M[i]
    /\ \A i \in 1 .. 1 + z : T[Len(M) + i] = IF i = 1 THEN 128 ELSE 0
    /\ \A i \in 1 .. LenBytes : T[Len(M) + 1 + z + i] = BigEndian(8 * Len(M))[i]

\* The bytes of the padded message, part by part.
LEMMA PaddedIs ==
    ASSUME NEW V, NEW M, Bytes(V, M), PadZeros(Len(M)) \in Nat
    PROVE  IsPadded(Padded(M), M, PadZeros(Len(M)), V)
<1> DEFINE T == Padded(M)
<1> DEFINE l == Len(M)
<1> DEFINE z == PadZeros(l)
<1> DEFINE be == BigEndian(8 * l)
<1> DEFINE one == <<128>>
<1> DEFINE zs == [i \in 1 .. z |-> 0]
<1> DEFINE t1 == M \o one
<1> DEFINE t2 == t1 \o zs
<1>1. M \in Seq(V) /\ 0 \in V /\ 128 \in V /\ be \in Seq(V)
  BY Zenon DEF Bytes
<1>2. z \in Nat /\ LenBytes \in Nat
  BY Sha1Assumption
<1>3. l \in Nat
  BY <1>1
<1>4. Len(be) = LenBytes
  BY <1>2 DEF BigEndian
<1>5. T = t2 \o be
  BY Zenon DEF Padded, PadZeros
<1>6. one \in Seq(V) /\ Len(one) = 1 /\ one[1] = 128
  BY <1>1
<1>7. zs \in Seq(V) /\ Len(zs) = z /\ \A i \in 1 .. z : zs[i] = 0
  <2> HIDE DEF z
  <2> QED
    BY <1>1, <1>2
<1> HIDE DEF be, zs, one, T, z, t1, t2
<1>8. /\ t1 \in Seq(V) /\ Len(t1) = l + Len(one)
      /\ \A i \in 1 .. l : t1[i] = M[i]
      /\ \A i \in 1 .. Len(one) : t1[l + i] = one[i]
  <2>1. IsConcat(t1, M, one, V)
    BY <1>1, <1>6, ConcatParts, Zenon DEF t1
  <2> QED
    BY <2>1, Zenon DEF IsConcat, l
<1>9. /\ t2 \in Seq(V) /\ Len(t2) = Len(t1) + Len(zs)
      /\ \A i \in 1 .. Len(t1) : t2[i] = t1[i]
      /\ \A i \in 1 .. Len(zs) : t2[Len(t1) + i] = zs[i]
  <2>1. IsConcat(t2, t1, zs, V)
    BY <1>7, <1>8, ConcatParts, Zenon DEF t2
  <2> QED
    BY <2>1, Zenon DEF IsConcat
<1>10. /\ T \in Seq(V) /\ Len(T) = Len(t2) + Len(be)
       /\ \A i \in 1 .. Len(t2) : T[i] = t2[i]
       /\ \A i \in 1 .. Len(be) : T[Len(t2) + i] = be[i]
  <2>1. IsConcat(T, t2, be, V)
    BY <1>1, <1>5, <1>9, ConcatParts, Zenon
  <2> QED
    BY <2>1, Zenon DEF IsConcat
<1> HIDE DEF l
<1>11. Len(t1) = l + 1 /\ Len(t2) = l + 1 + z /\ Len(T) = l + 1 + z + LenBytes
  <2>1. Len(t1) = l + 1 /\ Len(t2) = Len(t1) + z /\ Len(T) = Len(t2) + LenBytes
    BY <1>4, <1>6, <1>7, <1>8, <1>9, <1>10, Zenon
  <2> QED
    BY <2>1
<1>12. \A i \in 1 .. l : T[i] = M[i]
  <2> SUFFICES ASSUME NEW i \in 1 .. l PROVE T[i] = M[i]
    OBVIOUS
  <2>1. i \in 1 .. l + 1 /\ i \in 1 .. l + 1 + z
    BY <1>2, <1>3
  <2>2. T[i] = t2[i] /\ t2[i] = t1[i] /\ t1[i] = M[i]
    BY <1>8, <1>9, <1>10, <1>11, <2>1, Zenon
  <2> QED
    BY <2>2, Zenon
<1>13. \A i \in 1 .. 1 + z : T[l + i] = IF i = 1 THEN 128 ELSE 0
  <2> SUFFICES ASSUME NEW i \in 1 .. 1 + z PROVE T[l + i] = IF i = 1 THEN 128 ELSE 0
    OBVIOUS
  <2>1. l + i \in 1 .. l + 1 + z
    BY <1>2, <1>3
  <2>2. T[l + i] = t2[l + i]
    BY <1>10, <1>11, <2>1, Zenon
  <2>3. CASE i = 1
    <3>1. l + 1 \in 1 .. l + 1 /\ 1 \in 1 .. 1
      BY <1>3
    <3>2. t2[l + 1] = t1[l + 1] /\ t1[l + 1] = one[1]
      BY <1>6, <1>8, <1>9, <1>11, <3>1, Zenon
    <3> QED
      BY <1>6, <2>2, <2>3, <3>2, Zenon
  <2>4. CASE i # 1
    <3>1. i - 1 \in 1 .. z /\ (l + 1) + (i - 1) = l + i
      BY <1>2, <1>3, <2>4
    <3>2. t2[(l + 1) + (i - 1)] = zs[i - 1] /\ zs[i - 1] = 0
      BY <1>7, <1>9, <1>11, <3>1, Zenon
    <3> QED
      BY <2>2, <2>4, <3>1, <3>2, Zenon
  <2> QED
    BY <2>3, <2>4, Zenon
<1>14. \A i \in 1 .. LenBytes : T[l + 1 + z + i] = be[i]
  BY <1>4, <1>10, <1>11, Zenon
<1> QED
  BY <1>10, <1>11, <1>12, <1>13, <1>14, Zenon DEF T, l, z, be, IsPadded

-----------------------------------------------------------------------------
(* The end of a message.                                                   *)

\* The bytes that Pad puts behind c others, up to m.
PadBytes(c, m) == [i \in 1 .. m - c |-> IF i = 1 THEN 128 ELSE 0]

\* Padding goes on with the padded message.
LEMMA PadTook ==
    ASSUME NEW V, NEW M, Bytes(V, M), NEW T, NEW z \in Nat, IsPadded(T, M, z, V),
           NEW h, NEW n, NEW u, NEW c, Took(h, T, n, u, c, V), N(n) + c = Len(M),
           NEW m \in Nat, c <= m, m <= Block, m - c <= 1 + z
    PROVE  Took(Pad(h, m), T, n, Filled(u, c, PadBytes(c, m)), m, V)
<1> DEFINE d == PadBytes(c, m)
<1> DEFINE l == Len(M)
<1>1. Is(h, Slices(T, n), u, c) /\ c \in 0 .. Block /\ n \in Nat
  BY Zenon DEF Took
<1>2. Pad(h, m) = Fill(h, d)
  <2>1. h.count = c
    BY <1>1, IsFields, Zenon
  <2> QED
    BY <2>1, Zenon DEF Pad, PadBytes
<1>3. 0 \in V /\ 128 \in V /\ l \in Nat
  <2>1. M \in Seq(V) /\ 0 \in V /\ 128 \in V
    BY Zenon DEF Bytes
  <2> QED
    BY <2>1
<1>4. m - c \in Nat /\ c + (m - c) = m /\ LenBytes \in Nat /\ N(n) \in Nat /\ c \in Nat
  BY <1>1, Blocks, Sha1Assumption
<1>5. d \in Seq(V) /\ Len(d) = m - c /\ \A i \in 1 .. m - c : d[i] = IF i = 1 THEN 128 ELSE 0
  <2> DEFINE e == m - c
  <2>1. e \in Nat /\ d = [i \in 1 .. e |-> IF i = 1 THEN 128 ELSE 0]
    BY <1>4 DEF PadBytes
  <2> HIDE DEF e, d
  <2>2. d \in [1 .. e -> V] /\ DOMAIN d = 1 .. e
    BY <1>3, <2>1
  <2>3. d \in Seq(V) /\ Len(d) = e
    BY <2>1, <2>2
  <2>4. \A i \in 1 .. e : d[i] = IF i = 1 THEN 128 ELSE 0
    BY <2>1, Zenon
  <2> QED
    BY <2>3, <2>4, Zenon DEF e
<1>6. /\ T \in Seq(V) /\ Len(T) = l + 1 + z + LenBytes
      /\ \A i \in 1 .. 1 + z : T[l + i] = IF i = 1 THEN 128 ELSE 0
  BY Zenon DEF IsPadded
<1> HIDE DEF d, l
<1>7. N(n) + c = l
  BY Zenon DEF l
<1>8. Follows(d, T, l)
  <2>1. l + (m - c) <= l + 1 + z + LenBytes
    BY <1>3, <1>4
  <2>2. \A i \in 1 .. m - c : i \in 1 .. 1 + z
    BY <1>4
  <2>3. ASSUME NEW i \in 1 .. m - c PROVE d[i] = T[l + i]
    <3> DEFINE x == IF i = 1 THEN 128 ELSE 0
    <3>1. d[i] = x
      BY <1>5, <2>3, Zenon
    <3>2. T[l + i] = x
      BY <1>6, <2>2, <2>3, Zenon
    <3> QED
      BY <3>1, <3>2, Zenon
  <2> QED
    BY <1>3, <1>5, <1>6, <2>1, <2>3, Zenon DEF Follows
<1>9. c + Len(d) = m /\ c + Len(d) <= Block /\ Follows(d, T, N(n) + c)
  BY <1>4, <1>5, <1>7, <1>8, Zenon
<1>10. Took(Fill(h, d), T, n, Filled(u, c, d), c + Len(d), V)
  BY <1>5, <1>6, <1>9, FillTook, Zenon
<1> QED
  BY <1>2, <1>9, <1>10, Zenon DEF d

\* The context h has taken all of T, and its buffer is full.
TookAll(h, T, n, V) == (\E u : Took(h, T, n, u, Block, V)) /\ N(n) + Block = Len(T)

\* Then the length fills the last block.
LEMMA LengthTook ==
    ASSUME NEW V, NEW M, Bytes(V, M), NEW T, NEW z \in Nat, IsPadded(T, M, z, V),
           NEW h, NEW n, NEW u, NEW r, r = Block - LenBytes, Took(h, T, n, u, r, V), N(n) + r = Len(M) + 1 + z
    PROVE  TookAll(Fill(h, BigEndian(8 * Len(M))), T, n, V)
<1> DEFINE l == Len(M)
<1> DEFINE d == BigEndian(8 * l)
<1>1. d \in Seq(V) /\ M \in Seq(V)
  BY Zenon DEF Bytes
<1>2. /\ T \in Seq(V) /\ Len(T) = l + 1 + z + LenBytes
      /\ \A i \in 1 .. LenBytes : T[l + 1 + z + i] = d[i]
  BY Zenon DEF IsPadded
<1>3. LenBytes \in Nat /\ Block \in Nat /\ l \in Nat /\ n \in Nat
  <2>1. n \in Nat
    BY Zenon DEF Took
  <2> QED
    BY <1>1, <2>1, Sha1Assumption
<1>4. Len(d) = LenBytes
  BY <1>3 DEF BigEndian
<1>5. N(n) \in Nat
  BY <1>3, Blocks, Zenon
<1>6. N(n) + r = l + 1 + z /\ Took(h, T, n, u, r, V)
  BY Zenon
<1> HIDE DEF d, l
<1>7. r + LenBytes = Block /\ N(n) + Block = Len(T) /\ r \in Int
  <2>1. r = Block - LenBytes
    OBVIOUS
  <2> QED
    BY <1>2, <1>3, <1>5, <1>6, <2>1
<1>8. (l + 1 + z) + LenBytes <= Len(T) /\ l + 1 + z \in Nat
  BY <1>2, <1>3
<1>9. Follows(d, T, N(n) + r)
  BY <1>2, <1>4, <1>6, <1>8, Zenon DEF Follows
<1>10. r + Len(d) = Block /\ r + Len(d) <= Block
  BY <1>3, <1>4, <1>7
<1>11. Took(Fill(h, d), T, n, Filled(u, r, d), r + Len(d), V)
  BY <1>1, <1>2, <1>6, <1>9, <1>10, FillTook, Zenon
<1> QED
  BY <1>7, <1>10, <1>11, Zenon DEF d, l, TookAll

\* A context that has been read: the slices of T are hashed, the value is at the start
\* of the last of them.
Ended(T, q, digest) ==
    [blocks |-> Slices(T, q), buf |-> Filled(Slice(T, q), 0, digest), count |-> Block - LenBytes, final |-> TRUE]

IsRead(g, b, u, x, y) == g = [blocks |-> b, buf |-> u, count |-> x, final |-> y]

IsEnded(g, T, q, digest) == g = Ended(T, q, digest)

\* The context that hash1_final leaves.
LEMMA SetEnd ==
    ASSUME NEW h, NEW b, NEW u, NEW c, Is(h, b, u, c), NEW x, NEW y, NEW g,
           g = [h EXCEPT !.count = x, !.final = y]
    PROVE  IsRead(g, b, u, x, y)
  BY DEF Is, IsRead

\* The end of hash1_final.
Close(h, digest) ==
    [Fill([Transform(h, h.buf) EXCEPT !.count = 0], digest) EXCEPT !.count = Block - LenBytes, !.final = TRUE]

\* The last block and the value of the hash function.
LEMMA EndIs ==
    ASSUME NEW V, NEW T \in Seq(V), NEW h, NEW n, NEW u, Took(h, T, n, u, Block, V), NEW digest
    PROVE  IsEnded(Close(h, digest), T, n + 1, digest)
<1> DEFINE t == Transform(h, u)
<1> DEFINE z == 0
<1> DEFINE g == [t EXCEPT !.count = z]
<1> DEFINE f == Fill(g, digest)
<1> DEFINE r == Block - LenBytes
<1> DEFINE e == [f EXCEPT !.count = r, !.final = TRUE]
<1>1. Is(h, Slices(T, n), u, Block) /\ n \in Nat /\ N(n) + Block <= Len(T)
  BY Zenon DEF Took
<1>2. h.buf = u
  BY <1>1, IsFields, Zenon
<1>3. u = Slice(T, n + 1)
  BY FullIsSlice, Zenon
<1>4. Append(Slices(T, n), u) = Slices(T, n + 1)
  <2>1. N(n + 1) <= Len(T)
    <3>1. N(n + 1) = N(n) + Block
      BY <1>1, Blocks, Zenon
    <3> QED
      BY <1>1, <3>1, Zenon
  <2> QED
    BY <1>1, <1>3, <2>1, NextSlice, Zenon
<1>5. Is(t, Append(Slices(T, n), u), u, Block)
  BY <1>1, TransformIs, Zenon
<1>6. Is(t, Slices(T, n + 1), u, Block)
  BY <1>4, <1>5, Zenon
<1> HIDE DEF t, z
<1>7. Is(g, Slices(T, n + 1), u, z)
  BY <1>6, SetCount, Zenon
<1> HIDE DEF g
<1>8. Is(f, Slices(T, n + 1), Filled(u, z, digest), z + Len(digest))
  BY <1>7, FillIs, Zenon
<1> HIDE DEF f, r
<1>9. e = [blocks |-> Slices(T, n + 1), buf |-> Filled(u, z, digest), count |-> r, final |-> TRUE]
  <2> DEFINE x == e
  <2> DEFINE y == TRUE
  <2>1. x = [f EXCEPT !.count = r, !.final = y]
    OBVIOUS
  <2> HIDE DEF x, y
  <2>2. IsRead(x, Slices(T, n + 1), Filled(u, z, digest), r, y)
    BY <1>8, <2>1, SetEnd, Zenon
  <2> QED
    BY <2>2, Zenon DEF x, y, IsRead
<1>10. e = Ended(T, n + 1, digest)
  BY <1>3, <1>9, Zenon DEF Ended, r, z
<1> QED
  BY <1>2, <1>10, Zenon DEF f, g, t, z, r, Close, IsEnded

\* A buffer with zeros up to the length.
Cleared(x) == [i \in 1 .. Block |-> IF i <= Block - LenBytes THEN 0 ELSE x[i]]

\* The block in which there was no room for the length: the next begins with zeros.
LEMMA FreshTook ==
    ASSUME NEW V, NEW M, Bytes(V, M), NEW T, NEW z \in Nat, IsPadded(T, M, z, V),
           NEW h, NEW n, NEW u, NEW c, Took(h, T, n, u, c, V), N(n) + c = Len(M), c < Block,
           z = 2 * Block - LenBytes - 1 - c
    PROVE  \E x : Took([Flush(Pad(h, Block)) EXCEPT
                            !.buf = [i \in 1 .. Block |-> IF i <= Block - LenBytes THEN 0 ELSE @[i]],
                            !.count = Block - LenBytes],
                       T, n + 1, x, Block - LenBytes, V)
<1> DEFINE p == Flush(Pad(h, Block))
<1> DEFINE r == Block - LenBytes
<1> DEFINE y == Filled(u, c, PadBytes(c, Block))
<1> DEFINE x == Cleared(y)
<1> DEFINE g == [p EXCEPT !.buf = [i \in 1 .. Block |-> IF i <= Block - LenBytes THEN 0 ELSE @[i]],
                          !.count = Block - LenBytes]
<1> DEFINE l == Len(M)
<1>1. n \in Nat /\ c \in 0 .. Block
  BY Zenon DEF Took
<1>2. /\ Block \in Nat /\ LenBytes \in Nat /\ LenBytes > 0 /\ LenBytes < Block
      /\ N(n) \in Nat /\ N(n + 1) = N(n) + Block /\ n + 1 \in Nat
  BY <1>1, Blocks, Sha1Assumption
<1>3. M \in Seq(V) /\ 0 \in V
  BY Zenon DEF Bytes
<1>4. /\ T \in Seq(V) /\ Len(T) = l + 1 + z + LenBytes
      /\ \A i \in 1 .. 1 + z : T[l + i] = IF i = 1 THEN 128 ELSE 0
  BY Zenon DEF IsPadded
<1>5. Took(Pad(h, Block), T, n, y, Block, V)
  <2>1. c <= Block /\ Block <= Block /\ Block - c <= 1 + z /\ Block \in Nat
    BY <1>1, <1>2
  <2> HIDE DEF y
  <2> QED
    BY <2>1, PadTook, Zenon DEF y
<1> HIDE DEF y
<1>6. Took(p, T, n + 1, y, 0, V)
  BY <1>4, <1>5, FlushTook, Zenon
<1> HIDE DEF p
<1>7. Is(p, Slices(T, n + 1), y, 0) /\ y \in [1 .. Block -> V]
  BY <1>6, Zenon DEF Took
<1>8. g = [p EXCEPT !.buf = x, !.count = r]
  <2>1. p.buf = y
    BY <1>7, IsFields, Zenon
  <2> QED
    BY <2>1 DEF Cleared
<1> HIDE DEF g, x, r
<1>9. Is(g, Slices(T, n + 1), x, r)
  BY <1>7, <1>8, SetTwo, Zenon
<1>10. x \in [1 .. Block -> V]
  BY <1>3, <1>7 DEF x, Cleared
<1>11. r \in 0 .. Block /\ r < Block /\ r \in Nat
  BY <1>2 DEF r
<1>12. l \in Nat /\ N(n) + c = l
  BY <1>3
<1> HIDE DEF l
<1>13. N(n + 1) + r <= Len(T)
  <2>1. Len(T) = l + 1 + z + LenBytes
    BY <1>4, Zenon
  <2>2. 1 + z = 2 * Block - LenBytes - c
    BY <1>1, <1>2
  <2> DEFINE lt == Len(T)
  <2>3. lt = l + 1 + z + LenBytes
    BY <2>1
  <2> HIDE DEF lt
  <2> DEFINE a == N(n)
  <2>4. a \in Nat /\ N(n + 1) = a + Block /\ c \in Nat
    BY <1>1, <1>2
  <2>5. l = a + c
    BY <1>12
  <2> HIDE DEF a
  <2>6. lt = a + Block + r + LenBytes
    BY <1>2, <2>2, <2>3, <2>4, <2>5 DEF r
  <2>7. lt = N(n + 1) + r + LenBytes
    BY <2>4, <2>6, Zenon
  <2> QED
    BY <1>2, <1>11, <2>7 DEF lt
<1>14. ASSUME NEW i \in 1 .. r PROVE x[i] = T[N(n + 1) + i]
  <2>1. x[i] = 0
    BY <1>2, <1>14 DEF x, Cleared, r
  <2> DEFINE j == Block - c + i
  <2>2. N(n + 1) + i = l + j /\ j \in 1 .. 1 + z /\ j # 1
    BY <1>1, <1>2, <1>12, <1>14 DEF r
  <2> HIDE DEF j
  <2>3. T[l + j] = 0
    BY <1>4, <2>2, Zenon
  <2> QED
    BY <2>1, <2>2, <2>3, Zenon
<1>15. Took(g, T, n + 1, x, r, V)
  BY <1>2, <1>9, <1>10, <1>11, <1>13, <1>14, Zenon DEF Took
<1> QED
  BY <1>15, Zenon DEF g, r, p

\* Whatever was written before, the end hashes the padded message.
LEMMA FinalIs ==
    ASSUME NEW V, NEW M, Bytes(V, M), NEW h, TookBytes(h, Padded(M), Len(M), V), NEW digest
    PROVE  /\ Final(h, digest) = Ended(Padded(M), Len(Padded(M)) \div Block, digest)
           /\ Padded(M) \in Seq(V) /\ N(Len(Padded(M)) \div Block) = Len(Padded(M))
           /\ Len(Padded(M)) \div Block \in Nat \ {0}
<1> DEFINE T == Padded(M)
<1> DEFINE l == Len(M)
<1> DEFINE z == PadZeros(l)
<1> DEFINE room == Block - LenBytes
<1> DEFINE ready == Flush(IF h.final THEN Reset ELSE h)
<1>1. PICK n, u, c : Took(h, T, n, u, c, V) /\ c < Block /\ N(n) + c = l
  BY Zenon DEF TookBytes
<1>2. n \in Nat /\ c \in 0 .. Block /\ Is(h, Slices(T, n), u, c) /\ N(n) + c <= Len(T)
  BY <1>1, Zenon DEF Took
<1>3. /\ Block \in Nat /\ LenBytes \in Nat /\ LenBytes > 0 /\ LenBytes < Block
      /\ N(n) \in Nat /\ N(n + 1) = N(n) + Block /\ n + 1 \in Nat /\ c \in Nat
  BY <1>2, Blocks, Sha1Assumption
<1>4. M \in Seq(V)
  BY Zenon DEF Bytes
<1>5. l \in Nat
  BY <1>4
<1>6. /\ c < Block - LenBytes => z = Block - LenBytes - 1 - c
      /\ ~ (c < Block - LenBytes) => z = 2 * Block - LenBytes - 1 - c
      /\ z \in Nat
  <2>1. /\ c < Block - LenBytes => PadZeros(N(n) + c) = Block - LenBytes - 1 - c
        /\ ~ (c < Block - LenBytes) => PadZeros(N(n) + c) = 2 * Block - LenBytes - 1 - c
        /\ PadZeros(N(n) + c) \in Nat
    BY <1>1, <1>2, <1>3, PadZerosIs, Zenon
  <2>2. z = PadZeros(N(n) + c)
    BY <1>1, Zenon
  <2> HIDE DEF z
  <2> QED
    BY <2>1, <2>2, Zenon
<1>7. IsPadded(T, M, z, V)
  BY <1>6, PaddedIs, Zenon
<1>8. T \in Seq(V) /\ Len(T) = l + 1 + z + LenBytes
  BY <1>7, Zenon DEF IsPadded
<1>9. Took(ready, T, n, u, c, V)
  <2>1. c # Block
    BY <1>1, <1>3
  <2>2. h.final = FALSE
    BY <1>2, IsFields, Zenon
  <2>3. ready = Flush(h)
    BY <2>2
  <2> QED
    BY <1>1, <2>1, <2>3, NoFlush, Zenon
<1> DEFINE bits == 8 * (Block * Len(ready.blocks) + ready.count)
<1> DEFINE fresh == [Flush(Pad(ready, Block)) EXCEPT !.buf = [i \in 1 .. Block |-> IF i <= room THEN 0 ELSE @[i]],
                                                     !.count = room]
<1> DEFINE last == IF Enough(ready) THEN Pad(ready, room) ELSE fresh
<1> DEFINE done == Fill(last, BigEndian(bits))
<1>10. Final(h, digest) = Close(done, digest)
  BY Zenon DEF Final, Close
<1> HIDE DEF ready, T, z
<1>11. ready.blocks = Slices(T, n) /\ ready.count = c
  <2>1. Is(ready, Slices(T, n), u, c)
    BY <1>9, Zenon DEF Took
  <2> QED
    BY <2>1, IsFields, Zenon
<1>12. bits = 8 * l
  <2>1. N(n) <= Len(T)
    <3>1. Len(T) \in Nat
      BY <1>8
    <3> QED
      BY <1>2, <1>3, <3>1
  <2>2. Len(Slices(T, n)) = n
    BY <1>2, <1>8, <2>1, SliceTyped, Zenon
  <2>3. Block * n = N(n)
    BY <1>2, <1>3, Z3 DEF N
  <2>4. Len(ready.blocks) = n
    BY <1>11, <2>2, Zenon
  <2>5. Block * Len(ready.blocks) + ready.count = l
    BY <1>1, <1>11, <2>3, <2>4, Zenon
  <2> QED
    BY <2>5, Zenon
<1>13. Enough(ready) <=> c < Block - LenBytes
  BY <1>11, Zenon DEF Enough
<1>14. \E m, x : Took(last, T, m, x, room, V) /\ N(m) + room = l + 1 + z /\ m \in Nat
  <2>1. CASE c < Block - LenBytes
    <3>1. last = Pad(ready, room)
      BY <1>13, <2>1, Zenon
    <3>2. z = Block - LenBytes - 1 - c
      BY <1>6, <2>1, Zenon
    <3>3. /\ room \in Nat /\ c <= room /\ room <= Block /\ room - c <= 1 + z
          /\ N(n) + room = l + 1 + z
      BY <1>1, <1>3, <2>1, <3>2
    <3> HIDE DEF last, room
    <3>4. Took(Pad(ready, room), T, n, Filled(u, c, PadBytes(c, room)), room, V)
      BY <1>1, <1>6, <1>7, <1>9, <3>3, PadTook, Zenon
    <3> QED
      BY <1>2, <3>1, <3>3, <3>4, Zenon
  <2>2. CASE ~ (c < Block - LenBytes)
    <3>1. last = fresh
      BY <1>13, <2>2, Zenon
    <3>2. z = 2 * Block - LenBytes - 1 - c
      BY <1>6, <2>2, Zenon
    <3>3. N(n + 1) + room = l + 1 + z
      BY <1>1, <1>3, <3>2
    <3>4. \E x : Took(fresh, T, n + 1, x, room, V)
      BY <1>1, <1>6, <1>7, <1>9, <3>2, FreshTook, Zenon
    <3> HIDE DEF last, fresh
    <3> QED
      BY <1>3, <3>1, <3>3, <3>4, Zenon
  <2> QED
    BY <2>1, <2>2
<1> HIDE DEF last, bits
<1>15. PICK m, x : Took(last, T, m, x, room, V) /\ N(m) + room = l + 1 + z /\ m \in Nat
  BY <1>14, Zenon
<1>16. TookAll(done, T, m, V)
  <2>1. z \in Nat
    BY <1>6, Zenon
  <2>2. Took(last, T, m, x, room, V) /\ N(m) + room = Len(M) + 1 + z /\ room = Block - LenBytes
    BY <1>15, Zenon
  <2> HIDE DEF room
  <2>3. TookAll(Fill(last, BigEndian(8 * Len(M))), T, m, V)
    BY <1>7, <2>1, <2>2, LengthTook, Zenon
  <2> QED
    BY <1>12, <2>3, Zenon
<1> HIDE DEF done
<1>17. N(m) + Block = Len(T) /\ \E y : Took(done, T, m, y, Block, V)
  BY <1>16, Zenon DEF TookAll
<1>e. Final(h, digest) = Ended(T, m + 1, digest)
  <2>1. PICK y : Took(done, T, m, y, Block, V)
    BY <1>17, Zenon
  <2>2. T \in Seq(V)
    BY <1>8, Zenon
  <2>3. IsEnded(Close(done, digest), T, m + 1, digest)
    BY <2>1, <2>2, EndIs, Zenon
  <2> HIDE DEF room
  <2> QED
    BY <1>10, <2>3, Zenon DEF IsEnded
<1>18. m + 1 = Len(T) \div Block /\ N(m + 1) = Len(T) /\ m + 1 \in Nat \ {0}
  <2>1. m + 1 \in Nat /\ 0 \in 0 .. Block - 1 /\ N(m + 1) = Len(T) /\ m + 1 # 0 /\ Len(T) \in Nat
    BY <1>3, <1>8, <1>15, <1>17, Blocks
  <2>2. (N(m + 1) + 0) \div Block = m + 1
    BY <2>1, LeftOver
  <2>3. N(m + 1) + 0 = N(m + 1)
    BY <2>1
  <2> QED
    BY <2>1, <2>2, <2>3, Zenon
<1> QED
  BY <1>8, <1>e, <1>18, Zenon DEF T

-----------------------------------------------------------------------------
(* Whole messages.                                                         *)

\* A reset context has taken nothing of any text.
LEMMA ResetTook ==
    ASSUME NEW V, 0 \in V, NEW T \in Seq(V)
    PROVE  Took(Reset, T, 0, [i \in 1 .. Block |-> 0], 0, V)
<1>1. N(0) = 0 /\ Block \in Nat /\ Len(T) \in Nat
  BY Blocks
<1>2. Slices(T, 0) = <<>>
  BY DEF Slices
<1>3. Is(Reset, Slices(T, 0), [i \in 1 .. Block |-> 0], 0)
  BY <1>2, ResetIs, Zenon
<1>4. [i \in 1 .. Block |-> 0] \in [1 .. Block -> V] /\ N(0) + 0 <= Len(T) /\ 0 \in 0 .. Block /\ 0 \in Nat
  BY <1>1
<1>5. \A i \in 1 .. 0 : [j \in 1 .. Block |-> 0][i] = T[N(0) + i]
  OBVIOUS
<1> QED
  BY <1>3, <1>4, <1>5, Zenon DEF Took

\* The message is the start of what it is padded to.
LEMMA MessageFollows ==
    ASSUME NEW V, NEW M, Bytes(V, M)
    PROVE  Padded(M) \in Seq(V) /\ M \in Seq(V) /\ Follows(M, Padded(M), 0)
<1> DEFINE T == Padded(M)
<1> DEFINE l == Len(M)
<1> DEFINE q == l \div Block
<1> DEFINE c == l - N(q)
<1>1. M \in Seq(V)
  BY Zenon DEF Bytes
<1>2. l \in Nat
  BY <1>1
<1> HIDE DEF l
<1>3. q \in Nat /\ N(q) <= l /\ l < N(q) + Block /\ N(q) \in Nat
  BY <1>2, WholeBlocks
<1> HIDE DEF q
<1>4. c \in Nat /\ c < Block /\ N(q) + c = l
  <2>1. Block \in Nat
    BY Sha1Assumption
  <2> QED
    BY <1>2, <1>3, <2>1
<1> HIDE DEF c
<1>5. PadZeros(l) \in Nat
  BY <1>3, <1>4, PadZerosIs, Zenon
<1>6. IsPadded(T, M, PadZeros(l), V)
  BY <1>5, PaddedIs, Zenon DEF l
<1> HIDE DEF T
<1>7. T \in Seq(V) /\ Len(T) = l + 1 + PadZeros(l) + LenBytes /\ \A i \in 1 .. l : T[i] = M[i]
  BY <1>6, Zenon DEF IsPadded, l
<1>8. LenBytes \in Nat
  BY Sha1Assumption
<1>9. 0 \in Nat /\ 0 + l <= Len(T)
  BY <1>2, <1>5, <1>7, <1>8
<1>10. ASSUME NEW i \in 1 .. l PROVE M[i] = T[0 + i]
  <2>1. 0 + i = i
    BY <1>2
  <2> QED
    BY <1>7, <1>10, <2>1, Zenon
<1>11. Follows(M, T, 0)
  BY <1>9, <1>10, Zenon DEF Follows, l
<1> QED
  BY <1>1, <1>7, <1>11, Zenon DEF T

\* The first bytes of a message.
LEMMA FirstWrite ==
    ASSUME NEW V, 0 \in V, NEW T \in Seq(V), NEW data \in Seq(V), Follows(data, T, 0)
    PROVE  TookBytes(Write(Reset, data), T, Len(data), V)
<1> DEFINE u == [i \in 1 .. Block |-> 0]
<1> DEFINE z == 0
<1>1. Took(Reset, T, z, u, z, V)
  BY ResetTook, Zenon
<1>2. z < Block /\ N(z) + z = 0 /\ (N(z) + z) + Len(data) = Len(data)
  <2>1. N(0) = 0 /\ Block > 0 /\ Len(data) \in Nat
    BY Blocks
  <2> QED
    BY <2>1
<1> HIDE DEF u, z
<1>3. Follows(data, T, N(z) + z)
  BY <1>2, Zenon
<1>4. TookBytes(Write(Reset, data), T, (N(z) + z) + Len(data), V)
  BY <1>1, <1>2, <1>3, WriteTook, Zenon
<1> QED
  BY <1>2, <1>4, Zenon

\* More bytes of it.
LEMMA NextWrite ==
    ASSUME NEW V, NEW T \in Seq(V), NEW h, NEW p, TookBytes(h, T, p, V),
           NEW data \in Seq(V), Follows(data, T, p)
    PROVE  TookBytes(Write(h, data), T, p + Len(data), V)
<1>1. PICK m, x, e : Took(h, T, m, x, e, V) /\ e < Block /\ N(m) + e = p
  BY Zenon DEF TookBytes
<1>2. Follows(data, T, N(m) + e)
  BY <1>1, Zenon
<1>3. TookBytes(Write(h, data), T, (N(m) + e) + Len(data), V)
  BY <1>1, <1>2, WriteTook, Zenon
<1> QED
  BY <1>1, <1>3, Zenon

\* In one piece or two, all of the message is taken.
LEMMA MessageTook ==
    ASSUME NEW V, NEW M, Bytes(V, M)
    PROVE  /\ TookBytes(Write(Reset, M), Padded(M), Len(M), V)
           /\ \A cut \in 0 .. Len(M) :
                TookBytes(Write(Write(Reset, SubSeq(M, 1, cut)), SubSeq(M, cut + 1, Len(M))), Padded(M), Len(M), V)
<1> DEFINE T == Padded(M)
<1>1. T \in Seq(V) /\ M \in Seq(V) /\ Follows(M, T, 0) /\ 0 \in V
  BY MessageFollows, Zenon DEF Bytes
<1>2. TookBytes(Write(Reset, M), T, Len(M), V)
  BY <1>1, FirstWrite, Zenon
<1> HIDE DEF T
<1>3. ASSUME NEW cut \in 0 .. Len(M)
      PROVE  TookBytes(Write(Write(Reset, SubSeq(M, 1, cut)), SubSeq(M, cut + 1, Len(M))), T, Len(M), V)
  <2>1. Len(M) \in Nat
    BY <1>1
  <2>2. cut \in Nat /\ cut <= Len(M) /\ 0 + cut = cut /\ cut + (Len(M) - cut) = Len(M)
    BY <1>3, <2>1
  <2> DEFINE one == SubSeq(M, 1, cut)
  <2> DEFINE two == SubSeq(M, cut + 1, Len(M))
  <2> DEFINE z == 0
  <2>3. IsPart(one, T, z, cut, V) /\ IsPart(two, T, z + cut, Len(M) - cut, V)
    <3>1. Follows(M, T, z)
      BY <1>1, Zenon
    <3> HIDE DEF z
    <3> QED
      BY <1>1, <2>2, <3>1, FollowParts, Zenon
  <2>4. IsPart(one, T, 0, cut, V) /\ IsPart(two, T, cut, Len(M) - cut, V)
    BY <2>2, <2>3, Zenon
  <2> HIDE DEF one, two
  <2>5. TookBytes(Write(Reset, one), T, cut, V)
    <3>1. one \in Seq(V) /\ Len(one) = cut /\ Follows(one, T, 0)
      BY <2>4, Zenon DEF IsPart
    <3>2. TookBytes(Write(Reset, one), T, Len(one), V)
      BY <1>1, <3>1, FirstWrite, Zenon
    <3> QED
      BY <3>1, <3>2, Zenon
  <2>6. two \in Seq(V) /\ Len(two) = Len(M) - cut /\ Follows(two, T, cut)
    BY <2>4, Zenon DEF IsPart
  <2>7. TookBytes(Write(Write(Reset, one), two), T, cut + Len(two), V)
    BY <1>1, <2>5, <2>6, NextWrite, Zenon
  <2> QED
    BY <2>2, <2>6, <2>7, Zenon DEF one, two
<1> QED
  BY <1>2, <1>3, Zenon DEF T

\* The blocks of the whole text are its slices.
LEMMA ChunksAreSlices ==
    ASSUME NEW V, NEW T \in Seq(V)
    PROVE  Chunks(T) = Slices(T, Len(T) \div Block)
<1> DEFINE w == Len(T) \div Block
<1> DEFINE z == 0
<1>1. Len(T) \in Nat /\ N(0) = 0 /\ 0 + Len(T) <= Len(T)
  BY Blocks
<1>2. w \in Nat /\ 0 + w = w
  BY <1>1, WholeBlocks
<1>3. z \in Nat /\ N(z) = z /\ Follows(T, T, z)
  <2>1. \A i \in 1 .. Len(T) : 0 + i = i
    BY <1>1
  <2> QED
    BY <1>1, <2>1 DEF Follows
<1>4. Slices(T, 0) = <<>>
  BY DEF Slices
<1>5. Slices(T, z) \o Chunks(T) = Slices(T, z + Len(T) \div Block)
  <2>1. Follows(T, T, N(z))
    BY <1>3, Zenon
  <2> HIDE DEF z
  <2> QED
    BY <1>3, <2>1, ChunksFollow, Zenon
<1> HIDE DEF w
<1>6. z + w = w /\ w = Len(T) \div Block
  BY <1>2 DEF w
<1>7. <<>> \o Chunks(T) = Chunks(T)
  <2> DEFINE x == Chunks(T)
  <2>1. x = [k \in 1 .. w |-> SubSeq(T, (k - 1) * Block + 1, k * Block)]
    BY DEF Chunks, w
  <2> DEFINE f(k) == SubSeq(T, (k - 1) * Block + 1, k * Block)
  <2> DEFINE W == {f(k) : k \in 1 .. w}
  <2> HIDE DEF f, x
  <2>2. x = [k \in 1 .. w |-> f(k)]
    BY <2>1, Zenon DEF f
  <2>3. x \in [1 .. w -> W]
    BY <2>2
  <2> HIDE DEF W
  <2>4. x \in Seq(W)
    BY <1>2, <2>3
  <2> QED
    BY <2>4 DEF x
<1> QED
  BY <1>4, <1>5, <1>6, <1>7, Zenon

\* The value is at the start of the buffer.
LEMMA DigestKept ==
    ASSUME NEW u, NEW digest \in Seq(0 .. 255), Len(digest) = DigestLen
    PROVE  SubSeq(Filled(u, 0, digest), 1, DigestLen) = digest
<1>1. DigestLen \in Nat /\ Block \in Nat /\ DigestLen < Block
  BY Sha1Assumption
<1> DEFINE f == Filled(u, 0, digest)
<1>2. ASSUME NEW i \in 1 .. DigestLen PROVE f[i] = digest[i]
  BY <1>1, <1>2 DEF Filled
<1>3. \A i \in 1 .. DigestLen : digest[i] \in 0 .. 255
  <2> DEFINE W == 0 .. 255
  <2>1. digest \in Seq(W)
    OBVIOUS
  <2> HIDE DEF W
  <2>2. \A i \in 1 .. Len(digest) : digest[i] \in W
    BY <2>1
  <2> QED
    BY <2>2, Zenon DEF W
<1>4. /\ SubSeq(f, 1, DigestLen) \in Seq(0 .. 255)
      /\ Len(SubSeq(f, 1, DigestLen)) = IF 1 <= DigestLen THEN DigestLen - 1 + 1 ELSE 0
      /\ \A i \in 1 .. DigestLen - 1 + 1 : SubSeq(f, 1, DigestLen)[i] = f[1 + i - 1]
  <2>1. \A i \in 1 .. DigestLen : f[i] \in 0 .. 255
    BY <1>2, <1>3, Zenon
  <2>2. 1 \in Nat
    OBVIOUS
  <2> HIDE DEF f
  <2> QED
    BY <1>1, <2>1, <2>2, SubSeqProperties
<1> DEFINE s == SubSeq(f, 1, DigestLen)
<1> HIDE DEF s, f
<1>5. /\ s \in Seq(0 .. 255) /\ Len(s) = IF 1 <= DigestLen THEN DigestLen - 1 + 1 ELSE 0
      /\ \A i \in 1 .. DigestLen - 1 + 1 : s[i] = f[1 + i - 1]
  BY <1>4, Zenon DEF s
<1>6. Len(s) = DigestLen
  BY <1>1, <1>5
<1>7. \A i \in 1 .. DigestLen : i \in 1 .. DigestLen - 1 + 1 /\ 1 + i - 1 = i
  BY <1>1
<1>8. \A i \in 1 .. DigestLen : s[i] = digest[i]
  BY <1>2, <1>5, <1>7, Zenon
<1>9. s = digest
  <2>1. digest \in Seq(0 .. 255) /\ Len(s) = Len(digest) /\ \A i \in 1 .. Len(s) : s[i] = digest[i]
    BY <1>6, <1>8, Zenon
  <2> QED
    BY <1>5, <2>1, SameElements, Zenon
<1> QED
  BY <1>9, Zenon DEF s, f

-----------------------------------------------------------------------------
(* base64.                                                                 *)

\* The bits of three bytes, and of the letters made of them.
BitOf(x, w) == (x \div w) % 2

\* The number of six bits.
SixOf(b1, b2, b3, b4, b5, b6) == 32 * b1 + 16 * b2 + 8 * b3 + 4 * b4 + 2 * b5 + b6

\* The four numbers in s have the bits of a, b and c, one after the other.
SextetsOf(s, a, b, c) ==
    /\ s[1] = SixOf(BitOf(a, 128), BitOf(a, 64), BitOf(a, 32), BitOf(a, 16), BitOf(a, 8), BitOf(a, 4))
    /\ s[2] = SixOf(BitOf(a, 2), BitOf(a, 1), BitOf(b, 128), BitOf(b, 64), BitOf(b, 32), BitOf(b, 16))
    /\ s[3] = SixOf(BitOf(b, 8), BitOf(b, 4), BitOf(b, 2), BitOf(b, 1), BitOf(c, 128), BitOf(c, 64))
    /\ s[4] = SixOf(BitOf(c, 32), BitOf(c, 16), BitOf(c, 8), BitOf(c, 4), BitOf(c, 2), BitOf(c, 1))
    /\ \A i \in 1 .. 4 : s[i] \in 0 .. 63

\* The shifts and masks of base64_encode only move bits.
LEMMA SextetBits ==
    ASSUME NEW a \in Octet, NEW b \in Octet, NEW c \in Octet
    PROVE  SextetsOf(Sextets(a, b, c), a, b, c)
<1>0. \A x \in Octet : /\ BitOf(x, 128) \in Int /\ BitOf(x, 64) \in Int /\ BitOf(x, 32) \in Int
                       /\ BitOf(x, 16) \in Int /\ BitOf(x, 8) \in Int /\ BitOf(x, 4) \in Int
                       /\ BitOf(x, 2) \in Int /\ BitOf(x, 1) \in Int
  BY DEF Octet, BitOf
<1>1. \A x \in Octet : 32 * BitOf(x, 128) + 16 * BitOf(x, 64) + 8 * BitOf(x, 32)
                       + 4 * BitOf(x, 16) + 2 * BitOf(x, 8) + BitOf(x, 4) = x \div 4
  <2> SUFFICES ASSUME NEW x \in Octet
               PROVE  32 * BitOf(x, 128) + 16 * BitOf(x, 64) + 8 * BitOf(x, 32)
                      + 4 * BitOf(x, 16) + 2 * BitOf(x, 8) + BitOf(x, 4) = x \div 4
    OBVIOUS
  <2> DEFINE y == x \div 32
  <2>1. 4 * BitOf(x, 128) + 2 * BitOf(x, 64) + BitOf(x, 32) = y
    BY DEF Octet, BitOf
  <2>2. 4 * BitOf(x, 16) + 2 * BitOf(x, 8) + BitOf(x, 4) = x \div 4 - 8 * y
    BY DEF Octet, BitOf
  <2>3. y \in Int /\ x \div 4 \in Int
    BY DEF Octet
  <2> DEFINE z == x \div 4
  <2> HIDE DEF y, z
  <2> QED
    BY <1>0, <2>1, <2>2, <2>3 DEF z
<1>2. \A x \in Octet : 32 * BitOf(x, 2) + 16 * BitOf(x, 1) = (x % 4) * 16
  BY DEF Octet, BitOf
<1>3. \A x \in Octet : 8 * BitOf(x, 128) + 4 * BitOf(x, 64) + 2 * BitOf(x, 32) + BitOf(x, 16) = x \div 16
  BY DEF Octet, BitOf
<1>4. \A x \in Octet : 32 * BitOf(x, 8) + 16 * BitOf(x, 4) + 8 * BitOf(x, 2) + 4 * BitOf(x, 1) = (x % 16) * 4
  <2>1. \A x \in Octet : 8 * BitOf(x, 8) + 4 * BitOf(x, 4) + 2 * BitOf(x, 2) + BitOf(x, 1) = x % 16
    BY DEF Octet, BitOf
  <2> QED
    BY <1>0, <2>1
<1>5. \A x \in Octet : 2 * BitOf(x, 128) + BitOf(x, 64) = x \div 64
  BY DEF Octet, BitOf
<1>6. \A x \in Octet : 32 * BitOf(x, 32) + 16 * BitOf(x, 16) + 8 * BitOf(x, 8)
                       + 4 * BitOf(x, 4) + 2 * BitOf(x, 2) + BitOf(x, 1) = x % 64
  <2> SUFFICES ASSUME NEW x \in Octet
               PROVE  32 * BitOf(x, 32) + 16 * BitOf(x, 16) + 8 * BitOf(x, 8)
                      + 4 * BitOf(x, 4) + 2 * BitOf(x, 2) + BitOf(x, 1) = x % 64
    OBVIOUS
  <2> DEFINE y == x \div 8
  <2> DEFINE z == x % 64
  <2>1. 32 * BitOf(x, 32) + 16 * BitOf(x, 16) + 8 * BitOf(x, 8) = z - (x - 8 * y)
    BY DEF Octet, BitOf
  <2>2. 4 * BitOf(x, 4) + 2 * BitOf(x, 2) + BitOf(x, 1) = x - 8 * y
    BY DEF Octet, BitOf
  <2>3. x \in Int /\ y \in Int /\ z \in Int
    BY DEF Octet
  <2> HIDE DEF y, z
  <2>4. 32 * BitOf(x, 32) + 16 * BitOf(x, 16) + 8 * BitOf(x, 8)
        + 4 * BitOf(x, 4) + 2 * BitOf(x, 2) + BitOf(x, 1) = z
    BY <1>0, <2>1, <2>2, <2>3
  <2> QED
    BY <2>4, Zenon DEF z
<1>7. /\ BitOf(a, 2) \in Int /\ BitOf(a, 1) \in Int /\ BitOf(b, 128) \in Int /\ BitOf(b, 64) \in Int
      /\ BitOf(b, 32) \in Int /\ BitOf(b, 16) \in Int /\ BitOf(b, 8) \in Int /\ BitOf(b, 4) \in Int
      /\ BitOf(b, 2) \in Int /\ BitOf(b, 1) \in Int /\ BitOf(c, 128) \in Int /\ BitOf(c, 64) \in Int
  BY <1>0
<1> DEFINE s == Sextets(a, b, c)
<1>8. /\ s[1] = a \div 4 /\ s[2] = (a % 4) * 16 + b \div 16
      /\ s[3] = (b % 16) * 4 + c \div 64 /\ s[4] = c % 64
  BY DEF Sextets
<1> HIDE DEF s
<1>9. \A i \in 1 .. 4 : s[i] \in 0 .. 63
  <2>1. s[1] \in 0 .. 63
    BY <1>8 DEF Octet
  <2>2. s[2] \in 0 .. 63
    BY <1>8 DEF Octet
  <2>3. s[3] \in 0 .. 63
    BY <1>8 DEF Octet
  <2>4. s[4] \in 0 .. 63
    BY <1>8 DEF Octet
  <2>5. \A i \in 1 .. 4 : i = 1 \/ i = 2 \/ i = 3 \/ i = 4
    OBVIOUS
  <2> QED
    BY <2>1, <2>2, <2>3, <2>4, <2>5, Zenon
<1>10. s[1] = SixOf(BitOf(a, 128), BitOf(a, 64), BitOf(a, 32), BitOf(a, 16), BitOf(a, 8), BitOf(a, 4))
  BY <1>1, <1>8, Zenon DEF SixOf
<1>11. s[2] = SixOf(BitOf(a, 2), BitOf(a, 1), BitOf(b, 128), BitOf(b, 64), BitOf(b, 32), BitOf(b, 16))
  <2> DEFINE x == (a % 4) * 16
  <2> DEFINE y == b \div 16
  <2>1. /\ 32 * BitOf(a, 2) + 16 * BitOf(a, 1) = x
        /\ 8 * BitOf(b, 128) + 4 * BitOf(b, 64) + 2 * BitOf(b, 32) + BitOf(b, 16) = y
        /\ s[2] = x + y
    BY <1>2, <1>3, <1>8, Zenon
  <2> HIDE DEF x, y
  <2> QED
    BY <1>7, <2>1 DEF SixOf
<1>12. s[3] = SixOf(BitOf(b, 8), BitOf(b, 4), BitOf(b, 2), BitOf(b, 1), BitOf(c, 128), BitOf(c, 64))
  <2> DEFINE x == (b % 16) * 4
  <2> DEFINE y == c \div 64
  <2>1. /\ 32 * BitOf(b, 8) + 16 * BitOf(b, 4) + 8 * BitOf(b, 2) + 4 * BitOf(b, 1) = x
        /\ 2 * BitOf(c, 128) + BitOf(c, 64) = y
        /\ s[3] = x + y
    BY <1>4, <1>5, <1>8, Zenon
  <2> HIDE DEF x, y
  <2> QED
    BY <1>7, <2>1 DEF SixOf
<1>13. s[4] = SixOf(BitOf(c, 32), BitOf(c, 16), BitOf(c, 8), BitOf(c, 4), BitOf(c, 2), BitOf(c, 1))
  BY <1>6, <1>8, Zenon DEF SixOf
<1> QED
  BY <1>9, <1>10, <1>11, <1>12, <1>13, Zenon DEF s, SextetsOf

\* The byte behind the first m, or zero.
ByteAt(d, m) == IF m + 1 <= Len(d) THEN d[m + 1] ELSE 0

\* A byte of the text, or the zero behind it.
LEMMA ByteIs ==
    ASSUME NEW d \in Seq(Octet), NEW m \in Nat
    PROVE  ByteAt(d, m) \in Octet
<1> DEFINE l == Len(d)
<1>1. l \in Nat
  OBVIOUS
<1>2. m + 1 <= l => d[m + 1] \in Octet
  <2> HIDE DEF l
  <2>1. m + 1 <= l => m + 1 \in 1 .. l
    BY <1>1
  <2>2. \A i \in 1 .. l : d[i] \in Octet
    BY DEF l
  <2> QED
    BY <2>1, <2>2, Zenon
<1>3. 0 \in Octet
  BY DEF Octet
<1> QED
  BY <1>2, <1>3, Zenon DEF ByteAt

\* The bits of a sequence of bytes, eight to each; the i-th has the weight w.
LEMMA OneBit ==
    ASSUME NEW d \in Seq(Octet), NEW m \in Nat, NEW i \in 1 .. 8, NEW w \in Nat, w > 0, 2 ^ (8 - i) = w
    PROVE  Bit(d, 8 * m + i) = BitOf(ByteAt(d, m), w)
<1> DEFINE l == Len(d)
<1> DEFINE j == 8 * m + i
<1> DEFINE e == 8 - i
<1>1. l \in Nat
  OBVIOUS
<1> HIDE DEF l
<1>2. (j - 1) \div 8 + 1 = m + 1 /\ 7 - ((j - 1) % 8) = e
  OBVIOUS
<1>3. j > 8 * l <=> ~ (m + 1 <= l)
  BY <1>1
<1>4. 2 ^ e = w
  OBVIOUS
<1> HIDE DEF j, e
<1>5. Bit(d, j) = IF j > 8 * l THEN 0 ELSE (d[m + 1] \div w) % 2
  BY <1>2, <1>4, Zenon DEF Bit, l
<1>6. CASE m + 1 <= l
  BY <1>3, <1>5, <1>6, Zenon DEF BitOf, ByteAt, j, l
<1>7. CASE ~ (m + 1 <= l)
  <2>1. ByteAt(d, m) = 0
    BY <1>7, Zenon DEF ByteAt, l
  <2>2. (0 \div w) % 2 = 0
    BY Z3
  <2>3. Bit(d, j) = 0
    BY <1>3, <1>5, <1>7, Zenon
  <2> QED
    BY <2>1, <2>2, <2>3, Zenon DEF BitOf, j
<1> QED
  BY <1>6, <1>7, Zenon

\* The bits behind the first m bytes are those of x.
EightBits(d, m, x) ==
    /\ Bit(d, 8 * m + 1) = BitOf(x, 128) /\ Bit(d, 8 * m + 2) = BitOf(x, 64)
    /\ Bit(d, 8 * m + 3) = BitOf(x, 32) /\ Bit(d, 8 * m + 4) = BitOf(x, 16)
    /\ Bit(d, 8 * m + 5) = BitOf(x, 8) /\ Bit(d, 8 * m + 6) = BitOf(x, 4)
    /\ Bit(d, 8 * m + 7) = BitOf(x, 2) /\ Bit(d, 8 * m + 8) = BitOf(x, 1)

\* The bits of a byte.
LEMMA BitIs ==
    ASSUME NEW d \in Seq(Octet), NEW m \in Nat
    PROVE  EightBits(d, m, ByteAt(d, m))
<1>1. Bit(d, 8 * m + 1) = BitOf(ByteAt(d, m), 128)
  <2>1. 1 \in 1 .. 8 /\ 128 \in Nat /\ 128 > 0 /\ 2 ^ (8 - 1) = 128
    OBVIOUS
  <2> QED
    BY <2>1, OneBit
<1>2. Bit(d, 8 * m + 2) = BitOf(ByteAt(d, m), 64)
  <2>1. 2 \in 1 .. 8 /\ 64 \in Nat /\ 64 > 0 /\ 2 ^ (8 - 2) = 64
    OBVIOUS
  <2> QED
    BY <2>1, OneBit
<1>3. Bit(d, 8 * m + 3) = BitOf(ByteAt(d, m), 32)
  <2>1. 3 \in 1 .. 8 /\ 32 \in Nat /\ 32 > 0 /\ 2 ^ (8 - 3) = 32
    OBVIOUS
  <2> QED
    BY <2>1, OneBit
<1>4. Bit(d, 8 * m + 4) = BitOf(ByteAt(d, m), 16)
  <2>1. 4 \in 1 .. 8 /\ 16 \in Nat /\ 16 > 0 /\ 2 ^ (8 - 4) = 16
    OBVIOUS
  <2> QED
    BY <2>1, OneBit
<1>5. Bit(d, 8 * m + 5) = BitOf(ByteAt(d, m), 8)
  <2>1. 5 \in 1 .. 8 /\ 8 \in Nat /\ 8 > 0 /\ 2 ^ (8 - 5) = 8
    OBVIOUS
  <2> QED
    BY <2>1, OneBit
<1>6. Bit(d, 8 * m + 6) = BitOf(ByteAt(d, m), 4)
  <2>1. 6 \in 1 .. 8 /\ 4 \in Nat /\ 4 > 0 /\ 2 ^ (8 - 6) = 4
    OBVIOUS
  <2> QED
    BY <2>1, OneBit
<1>7. Bit(d, 8 * m + 7) = BitOf(ByteAt(d, m), 2)
  <2>1. 7 \in 1 .. 8 /\ 2 \in Nat /\ 2 > 0 /\ 2 ^ (8 - 7) = 2
    OBVIOUS
  <2> QED
    BY <2>1, OneBit
<1>8. Bit(d, 8 * m + 8) = BitOf(ByteAt(d, m), 1)
  <2>1. 8 \in 1 .. 8 /\ 1 \in Nat /\ 1 > 0 /\ 2 ^ (8 - 8) = 1
    OBVIOUS
  <2> QED
    BY <2>1, OneBit
<1> QED
  BY <1>1, <1>2, <1>3, <1>4, <1>5, <1>6, <1>7, <1>8, Zenon DEF EightBits

\* The letter that RFC 4648 has at place j.
SixBits(d, j) ==
    SixOf(Bit(d, 6 * (j - 1) + 1), Bit(d, 6 * (j - 1) + 2), Bit(d, 6 * (j - 1) + 3),
          Bit(d, 6 * (j - 1) + 4), Bit(d, 6 * (j - 1) + 5), Bit(d, 6 * (j - 1) + 6))

\* A group is three bytes, filled up with zeros.
LEMMA GroupIs ==
    ASSUME NEW d \in Seq(Octet), NEW k \in Nat
    PROVE  Group(d, k) = Sextets(ByteAt(d, 3 * k), ByteAt(d, 3 * k + 1), ByteAt(d, 3 * k + 2))
<1>1. (3 * k + 1) + 1 = 3 * k + 2 /\ (3 * k + 2) + 1 = 3 * k + 3
  OBVIOUS
<1> QED
  BY <1>1, Zenon DEF Group, ByteAt

\* Each letter of a group is six bits.
LEMMA GroupBits ==
    ASSUME NEW d \in Seq(Octet), NEW k \in Nat, NEW i \in 1 .. 4
    PROVE  Group(d, k)[i] = SixBits(d, 4 * k + i) /\ Group(d, k)[i] \in 0 .. 63
<1> DEFINE x == ByteAt(d, 3 * k)
<1> DEFINE y == ByteAt(d, 3 * k + 1)
<1> DEFINE z == ByteAt(d, 3 * k + 2)
<1> DEFINE g == Group(d, k)
<1> DEFINE j == 4 * k + i
<1>0. 3 * k \in Nat /\ 3 * k + 1 \in Nat /\ 3 * k + 2 \in Nat
  OBVIOUS
<1>1. x \in Octet /\ y \in Octet /\ z \in Octet
  BY <1>0, ByteIs, Zenon
<1>2. SextetsOf(g, x, y, z)
  BY <1>1, GroupIs, SextetBits, Zenon
<1>3. EightBits(d, 3 * k, x) /\ EightBits(d, 3 * k + 1, y) /\ EightBits(d, 3 * k + 2, z)
  BY <1>0, BitIs, Zenon
<1> HIDE DEF x, y, z, g
<1>4. CASE i = 1
  <2>1. /\ 6 * (j - 1) + 1 = 8 * (3 * k) + 1 /\ 6 * (j - 1) + 2 = 8 * (3 * k) + 2
        /\ 6 * (j - 1) + 3 = 8 * (3 * k) + 3 /\ 6 * (j - 1) + 4 = 8 * (3 * k) + 4
        /\ 6 * (j - 1) + 5 = 8 * (3 * k) + 5 /\ 6 * (j - 1) + 6 = 8 * (3 * k) + 6
    BY <1>4
  <2>2. /\ Bit(d, 8 * (3 * k) + 1) = BitOf(x, 128) /\ Bit(d, 8 * (3 * k) + 2) = BitOf(x, 64)
        /\ Bit(d, 8 * (3 * k) + 3) = BitOf(x, 32) /\ Bit(d, 8 * (3 * k) + 4) = BitOf(x, 16)
        /\ Bit(d, 8 * (3 * k) + 5) = BitOf(x, 8) /\ Bit(d, 8 * (3 * k) + 6) = BitOf(x, 4)
    BY <1>3 DEF EightBits
  <2>3. /\ Bit(d, 6 * (j - 1) + 1) = BitOf(x, 128) /\ Bit(d, 6 * (j - 1) + 2) = BitOf(x, 64)
        /\ Bit(d, 6 * (j - 1) + 3) = BitOf(x, 32) /\ Bit(d, 6 * (j - 1) + 4) = BitOf(x, 16)
        /\ Bit(d, 6 * (j - 1) + 5) = BitOf(x, 8) /\ Bit(d, 6 * (j - 1) + 6) = BitOf(x, 4)
    BY <2>1, <2>2
  <2>4. SixBits(d, j) = SixOf(BitOf(x, 128), BitOf(x, 64), BitOf(x, 32), BitOf(x, 16), BitOf(x, 8), BitOf(x, 4))
    BY <2>3, Zenon DEF SixBits
  <2>5. g[1] = SixOf(BitOf(x, 128), BitOf(x, 64), BitOf(x, 32), BitOf(x, 16), BitOf(x, 8), BitOf(x, 4)) /\ g[1] \in 0 .. 63
    <3>1. 1 \in 1 .. 4
      OBVIOUS
    <3> QED
      BY <1>2, <3>1, Zenon DEF SextetsOf
  <2> QED
    BY <1>4, <2>4, <2>5, Zenon DEF g
<1>5. CASE i = 2
  <2>1. /\ 6 * (j - 1) + 1 = 8 * (3 * k) + 7 /\ 6 * (j - 1) + 2 = 8 * (3 * k) + 8
        /\ 6 * (j - 1) + 3 = 8 * (3 * k + 1) + 1 /\ 6 * (j - 1) + 4 = 8 * (3 * k + 1) + 2
        /\ 6 * (j - 1) + 5 = 8 * (3 * k + 1) + 3 /\ 6 * (j - 1) + 6 = 8 * (3 * k + 1) + 4
    BY <1>5
  <2>2. /\ Bit(d, 8 * (3 * k) + 7) = BitOf(x, 2) /\ Bit(d, 8 * (3 * k) + 8) = BitOf(x, 1)
        /\ Bit(d, 8 * (3 * k + 1) + 1) = BitOf(y, 128) /\ Bit(d, 8 * (3 * k + 1) + 2) = BitOf(y, 64)
        /\ Bit(d, 8 * (3 * k + 1) + 3) = BitOf(y, 32) /\ Bit(d, 8 * (3 * k + 1) + 4) = BitOf(y, 16)
    BY <1>3 DEF EightBits
  <2>3. /\ Bit(d, 6 * (j - 1) + 1) = BitOf(x, 2) /\ Bit(d, 6 * (j - 1) + 2) = BitOf(x, 1)
        /\ Bit(d, 6 * (j - 1) + 3) = BitOf(y, 128) /\ Bit(d, 6 * (j - 1) + 4) = BitOf(y, 64)
        /\ Bit(d, 6 * (j - 1) + 5) = BitOf(y, 32) /\ Bit(d, 6 * (j - 1) + 6) = BitOf(y, 16)
    BY <2>1, <2>2
  <2>4. SixBits(d, j) = SixOf(BitOf(x, 2), BitOf(x, 1), BitOf(y, 128), BitOf(y, 64), BitOf(y, 32), BitOf(y, 16))
    BY <2>3, Zenon DEF SixBits
  <2>5. g[2] = SixOf(BitOf(x, 2), BitOf(x, 1), BitOf(y, 128), BitOf(y, 64), BitOf(y, 32), BitOf(y, 16)) /\ g[2] \in 0 .. 63
    <3>1. 2 \in 1 .. 4
      OBVIOUS
    <3> QED
      BY <1>2, <3>1, Zenon DEF SextetsOf
  <2> QED
    BY <1>5, <2>4, <2>5, Zenon DEF g
<1>6. CASE i = 3
  <2>1. /\ 6 * (j - 1) + 1 = 8 * (3 * k + 1) + 5 /\ 6 * (j - 1) + 2 = 8 * (3 * k + 1) + 6
        /\ 6 * (j - 1) + 3 = 8 * (3 * k + 1) + 7 /\ 6 * (j - 1) + 4 = 8 * (3 * k + 1) + 8
        /\ 6 * (j - 1) + 5 = 8 * (3 * k + 2) + 1 /\ 6 * (j - 1) + 6 = 8 * (3 * k + 2) + 2
    BY <1>6
  <2>2. /\ Bit(d, 8 * (3 * k + 1) + 5) = BitOf(y, 8) /\ Bit(d, 8 * (3 * k + 1) + 6) = BitOf(y, 4)
        /\ Bit(d, 8 * (3 * k + 1) + 7) = BitOf(y, 2) /\ Bit(d, 8 * (3 * k + 1) + 8) = BitOf(y, 1)
        /\ Bit(d, 8 * (3 * k + 2) + 1) = BitOf(z, 128) /\ Bit(d, 8 * (3 * k + 2) + 2) = BitOf(z, 64)
    BY <1>3 DEF EightBits
  <2>3. /\ Bit(d, 6 * (j - 1) + 1) = BitOf(y, 8) /\ Bit(d, 6 * (j - 1) + 2) = BitOf(y, 4)
        /\ Bit(d, 6 * (j - 1) + 3) = BitOf(y, 2) /\ Bit(d, 6 * (j - 1) + 4) = BitOf(y, 1)
        /\ Bit(d, 6 * (j - 1) + 5) = BitOf(z, 128) /\ Bit(d, 6 * (j - 1) + 6) = BitOf(z, 64)
    BY <2>1, <2>2
  <2>4. SixBits(d, j) = SixOf(BitOf(y, 8), BitOf(y, 4), BitOf(y, 2), BitOf(y, 1), BitOf(z, 128), BitOf(z, 64))
    BY <2>3, Zenon DEF SixBits
  <2>5. g[3] = SixOf(BitOf(y, 8), BitOf(y, 4), BitOf(y, 2), BitOf(y, 1), BitOf(z, 128), BitOf(z, 64)) /\ g[3] \in 0 .. 63
    <3>1. 3 \in 1 .. 4
      OBVIOUS
    <3> QED
      BY <1>2, <3>1, Zenon DEF SextetsOf
  <2> QED
    BY <1>6, <2>4, <2>5, Zenon DEF g
<1>7. CASE i = 4
  <2>1. /\ 6 * (j - 1) + 1 = 8 * (3 * k + 2) + 3 /\ 6 * (j - 1) + 2 = 8 * (3 * k + 2) + 4
        /\ 6 * (j - 1) + 3 = 8 * (3 * k + 2) + 5 /\ 6 * (j - 1) + 4 = 8 * (3 * k + 2) + 6
        /\ 6 * (j - 1) + 5 = 8 * (3 * k + 2) + 7 /\ 6 * (j - 1) + 6 = 8 * (3 * k + 2) + 8
    BY <1>7
  <2>2. /\ Bit(d, 8 * (3 * k + 2) + 3) = BitOf(z, 32) /\ Bit(d, 8 * (3 * k + 2) + 4) = BitOf(z, 16)
        /\ Bit(d, 8 * (3 * k + 2) + 5) = BitOf(z, 8) /\ Bit(d, 8 * (3 * k + 2) + 6) = BitOf(z, 4)
        /\ Bit(d, 8 * (3 * k + 2) + 7) = BitOf(z, 2) /\ Bit(d, 8 * (3 * k + 2) + 8) = BitOf(z, 1)
    BY <1>3 DEF EightBits
  <2>3. /\ Bit(d, 6 * (j - 1) + 1) = BitOf(z, 32) /\ Bit(d, 6 * (j - 1) + 2) = BitOf(z, 16)
        /\ Bit(d, 6 * (j - 1) + 3) = BitOf(z, 8) /\ Bit(d, 6 * (j - 1) + 4) = BitOf(z, 4)
        /\ Bit(d, 6 * (j - 1) + 5) = BitOf(z, 2) /\ Bit(d, 6 * (j - 1) + 6) = BitOf(z, 1)
    BY <2>1, <2>2
  <2>4. SixBits(d, j) = SixOf(BitOf(z, 32), BitOf(z, 16), BitOf(z, 8), BitOf(z, 4), BitOf(z, 2), BitOf(z, 1))
    BY <2>3, Zenon DEF SixBits
  <2>5. g[4] = SixOf(BitOf(z, 32), BitOf(z, 16), BitOf(z, 8), BitOf(z, 4), BitOf(z, 2), BitOf(z, 1)) /\ g[4] \in 0 .. 63
    <3>1. 4 \in 1 .. 4
      OBVIOUS
    <3> QED
      BY <1>2, <3>1, Zenon DEF SextetsOf
  <2> QED
    BY <1>7, <2>4, <2>5, Zenon DEF g
<1>8. i = 1 \/ i = 2 \/ i = 3 \/ i = 4
  OBVIOUS
<1> QED
  BY <1>4, <1>5, <1>6, <1>7, <1>8, Zenon

\* The text that base64_encode puts together.
Text(d) == [j \in 1 .. TextLen(d) |-> Encoded(d, j)]

\* Each byte of the text is the letter of six bits, or the mark.
LEMMA EncodedIs ==
    ASSUME NEW d \in Seq(Octet), NEW j \in 1 .. TextLen(d)
    PROVE  Encoded(d, j) = Base64(d)[j] /\ Encoded(d, j) \in 1 .. 65
<1> DEFINE l == Len(d)
<1> DEFINE k == (j - 1) \div 4
<1> DEFINE i == ((j - 1) % 4) + 1
<1> DEFINE e == Letters(d, k)
<1>1. l \in Nat /\ TextLen(d) = 4 * ((l + 2) \div 3)
  BY DEF TextLen
<1>2. Encoded(d, j) = IF i <= e THEN Letter(Group(d, k)[i]) ELSE EndMark
  BY Zenon DEF Encoded
<1>3. Base64(d)[j] = IF 6 * (j - 1) >= 8 * l THEN EndMark ELSE Letter(SixBits(d, j))
  BY Zenon DEF Base64, SixBits, SixOf
<1>4. e = Least(l - 3 * k, 3) + 1
  BY Zenon DEF Letters
<1> HIDE DEF l
<1>5. j \in Nat /\ j >= 1 /\ j <= 4 * ((l + 2) \div 3)
  BY <1>1
<1>6. k \in Nat /\ i \in 1 .. 4 /\ j = 4 * k + i
  BY <1>5
<1> HIDE DEF k, i, e
<1>7. 3 * k + 1 <= l
  BY <1>1, <1>5, <1>6
<1>8. 6 * (j - 1) >= 8 * l <=> ~ (i <= e)
  BY <1>1, <1>4, <1>6, <1>7 DEF Least
<1>9. Group(d, k)[i] = SixBits(d, j) /\ Group(d, k)[i] \in 0 .. 63
  BY <1>6, GroupBits, Zenon
<1>10. Encoded(d, j) = Base64(d)[j]
  <2> DEFINE past == 6 * (j - 1) >= 8 * l
  <2>1. Base64(d)[j] = IF past THEN EndMark ELSE Letter(SixBits(d, j))
    BY <1>3, Zenon
  <2>2. past <=> ~ (i <= e)
    BY <1>8, Zenon
  <2> HIDE DEF past
  <2>3. CASE i <= e
    <3>1. Encoded(d, j) = Letter(Group(d, k)[i]) /\ Base64(d)[j] = Letter(SixBits(d, j))
      BY <1>2, <2>1, <2>2, <2>3, Zenon
    <3>2. Group(d, k)[i] = SixBits(d, j)
      BY <1>9, Zenon
    <3> QED
      BY <3>1, <3>2, Zenon
  <2>4. CASE ~ (i <= e)
    BY <1>2, <2>1, <2>2, <2>4, Zenon
  <2> QED
    BY <2>3, <2>4
<1>11. Encoded(d, j) \in 1 .. 65
  <2>1. \A x \in 0 .. 63 : x + 1 \in 1 .. 65
    OBVIOUS
  <2>2. 65 \in 1 .. 65
    OBVIOUS
  <2> QED
    BY <1>2, <1>9, <2>1, <2>2, Zenon DEF Letter, EndMark
<1> QED
  BY <1>10, <1>11

\* Whatever bytes it is given, base64_encode writes what RFC 4648 says, with as many
\* marks behind it (encode.cpp:29-69).
THEOREM EncodesBase64 ==
    ASSUME NEW d \in Seq(Octet)
    PROVE  Text(d) = Base64(d)
<1>1. \A j \in 1 .. TextLen(d) : Encoded(d, j) = Base64(d)[j]
  BY EncodedIs, Zenon
<1>2. Base64(d) = [j \in 1 .. TextLen(d) |-> Base64(d)[j]]
  <2> DEFINE f(j) == LET b(i) == Bit(d, 6 * (j - 1) + i) IN
                     IF 6 * (j - 1) >= 8 * Len(d) THEN EndMark
                     ELSE Letter(32 * b(1) + 16 * b(2) + 8 * b(3) + 4 * b(4) + 2 * b(5) + b(6))
  <2>1. Base64(d) = [j \in 1 .. TextLen(d) |-> f(j)]
    BY Zenon DEF Base64
  <2> HIDE DEF f
  <2> QED
    BY <2>1
<1> DEFINE t == Base64(d)
<1> HIDE DEF t
<1>3. Text(d) = [j \in 1 .. TextLen(d) |-> t[j]]
  BY <1>1 DEF Text, t
<1> QED
  BY <1>2, <1>3, Zenon DEF t

-----------------------------------------------------------------------------
(* What is hashed for a key.                                               *)

\* What a length is written with are bytes.
LEMMA OctetsAreBytes ==
    ASSUME NEW M \in Seq(Octet)
    PROVE  Bytes(Octet, M)
<1> DEFINE m == 8 * Len(M)
<1>1. m \in Nat
  OBVIOUS
<1> DEFINE f == BigEndian(m)
<1> HIDE DEF m
<1>2. f \in Seq(Octet)
  <2>1. LenBytes \in Nat
    BY Sha1Assumption
  <2> DEFINE at(i) == (m \div 256 ^ (LenBytes - i)) % 256
  <2>2. ASSUME NEW i \in 1 .. LenBytes PROVE at(i) \in Octet
    <3> DEFINE p == 256 ^ (LenBytes - i)
    <3>1. p \in Int
      <4> DEFINE e == LenBytes - i
      <4>1. e \in Nat
        BY <2>1
      <4> HIDE DEF e
      <4>2. 256 ^ e \in Int
        BY <4>1
      <4> QED
        BY <4>2 DEF e
    <3> HIDE DEF p
    <3>2. (m \div p) % 256 \in 0 .. 255
      BY <1>1, <3>1
    <3> QED
      BY <3>2, Zenon DEF p, Octet
  <2>3. f = [i \in 1 .. LenBytes |-> at(i)]
    BY Zenon DEF BigEndian
  <2> HIDE DEF at, f
  <2>4. f \in [1 .. LenBytes -> Octet]
    BY <2>2, <2>3
  <2> QED
    BY <2>1, <2>4
<1>3. 0 \in Octet /\ 128 \in Octet
  BY DEF Octet
<1> HIDE DEF f
<1> QED
  BY <1>2, <1>3, Zenon DEF Bytes, f, m

\* Whatever is written, whole or in two parts, is hashed as FIPS 180 pads it: the blocks of
\* the padded message, each once and in order; and the context that is left does not tell
\* where it was cut (sha1.cpp:185-280).
THEOREM PaddedHashed ==
    ASSUME NEW M \in Seq(Octet), NEW digest \in Seq(0 .. 255), Len(digest) = DigestLen
    PROVE  LET h == Final(Write(Reset, M), digest) IN
           /\ h.blocks = Chunks(Padded(M))
           /\ \A cut \in 0 .. Len(M) :
                 LET one == SubSeq(M, 1, cut)
                     two == SubSeq(M, cut + 1, Len(M))
                 IN  Final(Write(Write(Reset, one), two), SubSeq(h.buf, 1, DigestLen)) = h
<1> DEFINE V == Octet
<1> DEFINE T == Padded(M)
<1> DEFINE q == Len(T) \div Block
<1> DEFINE l == Len(M)
<1> DEFINE h == Final(Write(Reset, M), digest)
<1>1. Bytes(V, M)
  BY OctetsAreBytes, Zenon
<1> HIDE DEF V
<1>2. /\ TookBytes(Write(Reset, M), T, l, V)
      /\ \A cut \in 0 .. l :
            TookBytes(Write(Write(Reset, SubSeq(M, 1, cut)), SubSeq(M, cut + 1, l)), T, l, V)
  BY <1>1, MessageTook, Zenon
<1>3. ASSUME NEW g, TookBytes(g, T, l, V), NEW d
      PROVE  IsEnded(Final(g, d), T, q, d) /\ T \in Seq(V)
  <2>1. Final(g, d) = Ended(Padded(M), Len(Padded(M)) \div Block, d) /\ Padded(M) \in Seq(V)
    BY <1>1, <1>3, FinalIs, Zenon
  <2> QED
    BY <2>1, Zenon DEF IsEnded
<1> HIDE DEF T, q, l
<1>4. h = Ended(T, q, digest) /\ T \in Seq(V)
  BY <1>2, <1>3, Zenon DEF IsEnded
<1> HIDE DEF h
<1>5. h.blocks = Slices(T, q) /\ h.buf = Filled(Slice(T, q), 0, digest)
  BY <1>4 DEF Ended
<1>6. h.blocks = Chunks(T)
  BY <1>4, <1>5, ChunksAreSlices, Zenon DEF q
<1>7. SubSeq(h.buf, 1, DigestLen) = digest
  BY <1>5, DigestKept, Zenon
<1>8. ASSUME NEW cut \in 0 .. l
       PROVE  Final(Write(Write(Reset, SubSeq(M, 1, cut)), SubSeq(M, cut + 1, l)), SubSeq(h.buf, 1, DigestLen)) = h
  <2> DEFINE g == Write(Write(Reset, SubSeq(M, 1, cut)), SubSeq(M, cut + 1, l))
  <2>1. TookBytes(g, T, l, V)
    BY <1>2, <1>8, Zenon
  <2> HIDE DEF g
  <2>2. Final(g, digest) = Ended(T, q, digest)
    BY <1>3, <2>1, Zenon DEF IsEnded
  <2>3. Final(g, SubSeq(h.buf, 1, DigestLen)) = h
    BY <1>4, <1>7, <2>2, Zenon
  <2> QED
    BY <2>3, Zenon DEF g
<1> QED
  BY <1>6, <1>8, Zenon DEF T, l, h

\* The message is bytes.
LEMMA MessageTyped ==
    ASSUME NEW k \in Nat
    PROVE  Bytes(Octet, Message(k)) /\ Len(Message(k)) = k + SuffixLen /\ Message(k) \in Seq(Octet)
<1> DEFINE M == Message(k)
<1> DEFINE l == k + SuffixLen
<1>1. l \in Nat
  BY HandshakeAssumption
<1> HIDE DEF l
<1>2. M = [i \in 1 .. l |-> ((i - 1) % 255) + 1]
  BY DEF Message, l
<1>3. M \in Seq(Octet) /\ Len(M) = l
  <2>1. ASSUME NEW i \in 1 .. l PROVE ((i - 1) % 255) + 1 \in Octet
    BY <1>1, <2>1 DEF Octet
  <2> HIDE DEF M
  <2>2. M \in [1 .. l -> Octet]
    BY <1>2, <2>1
  <2> QED
    BY <1>1, <2>2
<1> HIDE DEF M
<1>4. Bytes(Octet, M)
  BY <1>3, OctetsAreBytes, Zenon
<1> QED
  BY <1>3, <1>4, Zenon DEF M, l

\* The context of a request that was hashed.
Hashed(h, k) == \E digest \in Digests : h = Final(Write(Reset, Message(k)), digest)

\* It has the blocks of the padded message, however that was cut.
LEMMA HashedMessage ==
    ASSUME NEW k \in Nat, NEW h, Hashed(h, k)
    PROVE  /\ h.blocks = Chunks(Padded(Message(k)))
           /\ \A cut \in 0 .. k + SuffixLen :
                 LET one == SubSeq(Message(k), 1, cut)
                     two == SubSeq(Message(k), cut + 1, k + SuffixLen)
                 IN  Final(Write(Write(Reset, one), two), SubSeq(h.buf, 1, DigestLen)) = h
<1> DEFINE M == Message(k)
<1>1. M \in Seq(Octet) /\ Len(M) = k + SuffixLen
  BY MessageTyped, Zenon
<1>2. PICK digest \in Digests : h = Final(Write(Reset, M), digest)
  BY Zenon DEF Hashed
<1>3. digest \in Seq(0 .. 255) /\ Len(digest) = DigestLen
  BY <1>2, HandshakeAssumption, Zenon
<1> HIDE DEF M
<1>4. /\ h.blocks = Chunks(Padded(M))
      /\ \A cut \in 0 .. Len(M) :
            Final(Write(Write(Reset, SubSeq(M, 1, cut)), SubSeq(M, cut + 1, Len(M))), SubSeq(h.buf, 1, DigestLen)) = h
  BY <1>1, <1>2, <1>3, PaddedHashed, Zenon
<1> QED
  BY <1>1, <1>4, Zenon DEF M

-----------------------------------------------------------------------------
(* C strings.                                                              *)

ZerosOf(s) == {i \in DOMAIN s : s[i] = 0}

\* The first zero of a sequence that has one.
LEMMA FirstZero ==
    ASSUME NEW V, NEW s \in Seq(V), ZerosOf(s) # {}
    PROVE  LET first == CHOOSE i \in ZerosOf(s) : \A j \in ZerosOf(s) : i <= j IN
           first \in ZerosOf(s) /\ \A j \in ZerosOf(s) : first <= j
<1> DEFINE Z == ZerosOf(s)
<1>1. Z \subseteq Nat
  BY DEF ZerosOf
<1> HIDE DEF Z
<1>2. Z # {}
  BY DEF Z
<1> DEFINE R == {ss \in Nat \X Nat : ss[1] < ss[2]}
<1>3. IsWellFoundedOn(R, Nat)
  BY NatLessThanWellFounded, Zenon DEF OpToRel
<1> HIDE DEF R
<1>4. PICK x \in Z : \A y \in Z : ~ (<<y, x>> \in R)
  BY <1>1, <1>2, <1>3, WFMin, Zenon
<1>5. ASSUME NEW y \in Z PROVE x <= y
  <2>1. x \in Nat /\ y \in Nat
    BY <1>1, <1>4, <1>5
  <2>2. ~ (y < x)
    BY <1>4, <1>5, <2>1 DEF R
  <2> QED
    BY <2>1, <2>2
<1> QED
  BY <1>4, <1>5, Zenon DEF Z

\* A C string with n bytes before its first zero, or without a zero.
LEMMA CStringOf ==
    ASSUME NEW V, NEW s \in Seq(V), NEW n \in Nat, n <= Len(s), \A i \in 1 .. n : s[i] # 0,
           n < Len(s) => s[n + 1] = 0
    PROVE  CString(s) = SubSeq(s, 1, n)
<1> DEFINE Z == ZerosOf(s)
<1> DEFINE l == Len(s)
<1> DEFINE first == CHOOSE i \in Z : \A j \in Z : i <= j
<1>1. CString(s) = IF Z = {} THEN s ELSE SubSeq(s, 1, first - 1)
  BY Zenon DEF CString, ZerosOf
<1>2. l \in Nat /\ DOMAIN s = 1 .. l
  OBVIOUS
<1>3. Z = {i \in 1 .. l : s[i] = 0}
  BY <1>2, Zenon DEF ZerosOf
<1>4. n <= l /\ (n < l => s[n + 1] = 0)
  BY Zenon
<1>5. CASE n < l
  <2>1. n + 1 \in Z
    BY <1>2, <1>3, <1>4, <1>5
  <2>2. Z # {}
    BY <2>1
  <2>3. first \in Z /\ \A j \in Z : first <= j
    BY <2>2, FirstZero, Zenon
  <2> HIDE DEF first
  <2>4. first \in 1 .. l /\ s[first] = 0 /\ first <= n + 1
    BY <1>3, <2>1, <2>3, Zenon
  <2> HIDE DEF Z, l
  <2>5. first = n + 1
    <3>1. ~ (first \in 1 .. n)
      BY <2>4, Zenon
    <3> QED
      BY <1>2, <2>4, <3>1
  <2>6. first - 1 = n
    BY <2>5
  <2> QED
    BY <1>1, <2>2, <2>6, Zenon
<1>6. CASE ~ (n < l)
  <2> HIDE DEF l
  <2>1. n = l
    BY <1>2, <1>4, <1>6
  <2>2. Z = {}
    BY <1>3, <2>1
  <2>3. SubSeq(s, 1, l) = s
    BY DEF l
  <2> QED
    BY <1>1, <2>1, <2>2, <2>3, Zenon
<1> QED
  BY <1>5, <1>6

\* Whatever it is made of, it is a start of it.
LEMMA CStringTyped ==
    ASSUME NEW V, NEW s \in Seq(V)
    PROVE  CString(s) \in Seq(V) /\ Len(CString(s)) <= Len(s)
<1> DEFINE Z == ZerosOf(s)
<1> DEFINE l == Len(s)
<1> DEFINE first == CHOOSE i \in Z : \A j \in Z : i <= j
<1>1. CString(s) = IF Z = {} THEN s ELSE SubSeq(s, 1, first - 1)
  BY Zenon DEF CString, ZerosOf
<1>2. l \in Nat /\ Z \subseteq 1 .. l
  BY DEF ZerosOf
<1>3. CASE Z = {}
  <2>1. CString(s) = s
    BY <1>1, <1>3, Zenon
  <2> QED
    BY <1>2, <2>1
<1>4. CASE Z # {}
  <2>1. first \in 1 .. l
    BY <1>2, <1>4, FirstZero, Zenon
  <2> HIDE DEF first
  <2> DEFINE z == 0
  <2> DEFINE m == first - 1
  <2>2. z \in Nat /\ m \in Nat /\ z <= m /\ m <= l /\ z + 1 = 1 /\ m - z = m
    BY <1>2, <2>1
  <2> HIDE DEF z, m
  <2>3. SubSeq(s, z + 1, m) \in Seq(V) /\ Len(SubSeq(s, z + 1, m)) = m - z
    BY <2>2, PartOf, Zenon DEF l
  <2> QED
    BY <1>1, <1>4, <2>2, <2>3, Zenon DEF m
<1> QED
  BY <1>3, <1>4

-----------------------------------------------------------------------------
(* What is left in the buffer.                                             *)

\* The context h is what the end of the hash leaves for the text T of q blocks.
Leaves(h, T, q, digest) ==
    /\ h = Ended(T, q, digest) /\ T \in Seq(Octet) /\ q \in Nat \ {0} /\ N(q) = Len(T)
    /\ digest \in Digests

\* A context that was hashed.
LEMMA HashedLeaves ==
    ASSUME NEW k \in Nat, NEW h, Hashed(h, k)
    PROVE  \E digest, q : Leaves(h, Padded(Message(k)), q, digest)
<1> DEFINE M == Message(k)
<1> DEFINE V == Octet
<1>1. Bytes(V, M)
  BY MessageTyped, Zenon
<1>2. PICK digest \in Digests : h = Final(Write(Reset, M), digest)
  BY Zenon DEF Hashed
<1>3. TookBytes(Write(Reset, M), Padded(M), Len(M), V)
  BY <1>1, MessageTook, Zenon
<1> HIDE DEF M
<1>4. /\ Final(Write(Reset, M), digest) = Ended(Padded(M), Len(Padded(M)) \div Block, digest)
      /\ Padded(M) \in Seq(V) /\ N(Len(Padded(M)) \div Block) = Len(Padded(M))
      /\ Len(Padded(M)) \div Block \in Nat \ {0}
  BY <1>1, <1>3, FinalIs, Zenon
<1> QED
  BY <1>2, <1>4, Zenon DEF Leaves, M

\* The context stays one.
LEMMA HashedTypes ==
    ASSUME NEW k \in Nat, NEW h, Hashed(h, k)
    PROVE  /\ h.blocks \in Seq([1 .. Block -> Octet]) /\ h.buf \in [1 .. Block -> Octet]
           /\ h.count \in 0 .. Block /\ h.final \in BOOLEAN
<1> DEFINE T == Padded(Message(k))
<1>1. PICK digest, q : Leaves(h, T, q, digest)
  BY HashedLeaves, Zenon
<1> HIDE DEF T
<1>2. T \in Seq(Octet) /\ q \in Nat /\ q \in 1 .. q /\ N(q) <= Len(T)
  <2>1. T \in Seq(Octet) /\ q \in Nat \ {0} /\ N(q) = Len(T)
    BY <1>1, Zenon DEF Leaves
  <2>2. N(q) \in Nat
    BY <2>1, Blocks
  <2> QED
    BY <2>1, <2>2
<1>3. Slices(T, q) \in Seq([1 .. Block -> Octet]) /\ Slice(T, q) \in [1 .. Block -> Octet]
  BY <1>2, SliceTyped, Zenon
<1>4. /\ h.blocks = Slices(T, q) /\ h.buf = Filled(Slice(T, q), 0, digest)
      /\ h.count = Block - LenBytes /\ h.final = TRUE
  BY <1>1 DEF Leaves, Ended
<1>5. digest \in Seq(Octet) /\ Len(digest) = DigestLen
  BY <1>1, HandshakeAssumption, Zenon DEF Leaves, Octet
<1> DEFINE u == Slice(T, q)
<1> HIDE DEF u
<1>6. u \in [1 .. Block -> Octet] /\ h.buf = Filled(u, 0, digest)
  BY <1>3, <1>4, Zenon DEF u
<1>7. Filled(u, 0, digest) \in [1 .. Block -> Octet]
  BY <1>5, <1>6 DEF Filled
<1>8. Block - LenBytes \in 0 .. Block
  BY Sha1Assumption
<1> QED
  BY <1>3, <1>4, <1>6, <1>7, <1>8, Zenon

\* The byte behind the digest is one of the zeros of the padding.
LEMMA BehindIsZero ==
    ASSUME NEW k \in Nat, NEW h, Hashed(h, k),
           LET left == (k + SuffixLen) % Block IN left < DigestLen \/ left >= Block - LenBytes
    PROVE  h.buf[DigestLen + 1] = 0
<1> DEFINE M == Message(k)
<1> DEFINE T == Padded(M)
<1> DEFINE l == k + SuffixLen
<1> DEFINE z == PadZeros(l)
<1> DEFINE m == l \div Block
<1> DEFINE c == l - N(m)
<1>1. Bytes(Octet, M) /\ Len(M) = l
  BY MessageTyped, Zenon
<1>2. PICK digest, q : Leaves(h, T, q, digest)
  BY HashedLeaves, Zenon
<1> HIDE DEF M
<1>3. l \in Nat /\ Block \in Nat /\ LenBytes \in Nat /\ DigestLen \in Nat
      /\ LenBytes + DigestLen < Block /\ LenBytes > 0
  BY Sha1Assumption, HandshakeAssumption
<1>4. l % Block < DigestLen \/ l % Block >= Block - LenBytes
  OBVIOUS
<1> HIDE DEF l
<1>5. m \in Nat /\ N(m) <= l /\ l < N(m) + Block /\ N(m) \in Nat
  BY <1>3, WholeBlocks
<1> HIDE DEF m
<1>6. c \in Nat /\ c < Block /\ N(m) + c = l /\ c \in 0 .. Block - 1
  BY <1>3, <1>5
<1> HIDE DEF c
<1>7. l % Block = c
  BY <1>5, <1>6, LeftOver
<1>8. /\ c < Block - LenBytes => z = Block - LenBytes - 1 - c
      /\ ~ (c < Block - LenBytes) => z = 2 * Block - LenBytes - 1 - c
      /\ z \in Nat
  BY <1>5, <1>6, PadZerosIs, Zenon
<1>9. IsPadded(T, M, z, Octet)
  BY <1>1, <1>8, PaddedIs, Zenon
<1> HIDE DEF z, T
<1>10. /\ Len(T) = l + 1 + z + LenBytes
       /\ \A i \in 1 .. 1 + z : T[l + i] = IF i = 1 THEN 128 ELSE 0
  BY <1>1, <1>9, Zenon DEF IsPadded
<1>11. /\ q \in Nat \ {0} /\ N(q) = Len(T) /\ h.buf = Filled(Slice(T, q), 0, digest)
       /\ Len(digest) = DigestLen
  <2>1. h = Ended(T, q, digest) /\ q \in Nat \ {0} /\ N(q) = Len(T) /\ digest \in Digests
    BY <1>2, Zenon DEF Leaves
  <2> QED
    BY <2>1, HandshakeAssumption DEF Ended
<1> DEFINE i == 2 + z + LenBytes - Block + DigestLen
<1>12. i \in 1 .. 1 + z /\ i # 1
  <2>1. c < DigestLen \/ c >= Block - LenBytes
    BY <1>4, <1>7
  <2> QED
    BY <1>3, <1>6, <1>8, <2>1
<1>13. N(q - 1) + (DigestLen + 1) = l + i
  <2>1. q - 1 \in Nat /\ (q - 1) + 1 = q
    BY <1>11
  <2>2. N(q) = N(q - 1) + Block /\ N(q - 1) \in Nat
    BY <2>1, Blocks
  <2>3. N(q) = l + 1 + z + LenBytes
    BY <1>10, <1>11, Zenon
  <2> QED
    BY <1>3, <1>8, <2>2, <2>3
<1> HIDE DEF i
<1>14. T[l + i] = 0
  BY <1>10, <1>12, Zenon
<1>15. Slice(T, q)[DigestLen + 1] = 0
  <2>1. DigestLen + 1 \in 1 .. Block
    BY <1>3
  <2>2. Slice(T, q)[DigestLen + 1] = T[N(q - 1) + (DigestLen + 1)]
    BY <2>1, Zenon DEF Slice
  <2> QED
    BY <1>13, <1>14, <2>2, Zenon
<1> DEFINE u == Slice(T, q)
<1> HIDE DEF u
<1>16. Filled(u, 0, digest)[DigestLen + 1] = u[DigestLen + 1]
  BY <1>3, <1>11 DEF Filled
<1> QED
  BY <1>11, <1>15, <1>16, Zenon DEF u

\* What strlen takes the digest to be is the digest, when it has no zero byte.
LEMMA ProperDigest ==
    ASSUME NEW k \in Nat, NEW h, Hashed(h, k),
           LET left == (k + SuffixLen) % Block IN left < DigestLen \/ left >= Block - LenBytes,
           0 \notin {h.buf[i] : i \in 1 .. DigestLen}
    PROVE  CString(h.buf) = SubSeq(h.buf, 1, DigestLen)
<1> DEFINE s == h.buf
<1> DEFINE n == DigestLen
<1>1. s[n + 1] = 0
  BY BehindIsZero, Zenon
<1>2. s \in [1 .. Block -> Octet]
  BY HashedTypes, Zenon
<1>3. \A i \in 1 .. n : s[i] # 0
  BY Zenon
<1>4. Block \in Nat /\ n \in Nat /\ n <= Block
  BY Sha1Assumption
<1> HIDE DEF s, n
<1>5. s \in Seq(Octet) /\ Len(s) = Block
  BY <1>2, <1>4
<1>6. n <= Len(s)
  BY <1>4, <1>5
<1>7. CString(s) = SubSeq(s, 1, n)
  BY <1>1, <1>3, <1>4, <1>5, <1>6, CStringOf, Zenon
<1> QED
  BY <1>7, Zenon DEF s, n

-----------------------------------------------------------------------------
(* The inductive invariant.                                                *)

\* The buffer has the first bytes of the text, and the call under way has the next.
TextBegun ==
    /\ dirty = FALSE /\ size <= TextLen(Digest)
    /\ \A i \in 1 .. size : Content[i] = Encoded(Digest, i)
    /\ call # string!NoCall => size < TextLen(Digest) /\ call = Put(Encoded(Digest, size + 1))

PhaseInv ==
    /\ phase \in {"reads", "encodes", "answered", "closed", "overflowed", "other"}
    /\ phase \in {"reads", "closed", "overflowed", "other"} => key = 0 /\ hd = Reset
    /\ phase \in {"encodes", "answered"} => key \in KeyLens /\ FitsAkey(key) /\ Hashed(hd, key)
    /\ phase # "answered" => answer = <<>>

TextInv ==
    /\ phase = "reads" => size = 0 /\ stage = "none"
    /\ phase = "encodes" => TextBegun
    /\ phase = "answered" => answer \in Seq(Byte) /\ (answer = Text(Digest) \/ Len(Digest) = 0)

HsIInv == BufIInv /\ PhaseInv /\ TextInv

\* Nothing has been read.
LEMMA HandshakeInit == ASSUME HsInit PROVE HsIInv
<1>1. BufIInv
  BY BlockInit DEF HsInit
<1> QED
  BY <1>1 DEF HsInit, BufInit, HsIInv, PhaseInv, TextInv

\* What is encoded is bytes, no more than a block of them.
LEMMA DigestTyped ==
    ASSUME NEW k \in Nat, NEW h, Hashed(h, k)
    PROVE  CString(h.buf) \in Seq(Octet) /\ Len(CString(h.buf)) \in Nat /\ 3 * Len(CString(h.buf)) < Word
<1> DEFINE s == h.buf
<1>1. s \in [1 .. Block -> Octet]
  BY HashedTypes, Zenon
<1>2. Block \in Nat /\ 3 * Block < Word /\ Word \in Nat
  BY Sha1Assumption, HandshakeAssumption, MembufAssumption
<1> HIDE DEF s
<1>3. s \in Seq(Octet) /\ Len(s) = Block
  BY <1>1, <1>2
<1>4. CString(s) \in Seq(Octet) /\ Len(CString(s)) <= Len(s)
  BY <1>3, CStringTyped, Zenon
<1> DEFINE l == Len(CString(s))
<1>5. l \in Nat
  BY <1>4
<1>6. l <= Block
  BY <1>3, <1>4, Zenon
<1> HIDE DEF l
<1>7. 3 * l < Word
  BY <1>2, <1>5, <1>6
<1> QED
  BY <1>4, <1>5, <1>7, Zenon DEF l, s

\* A request: the buffer for the text is fresh.
LEMMA RequestHolds ==
    ASSUME HsIInv, NEW k \in KeyLens, NEW n \in 1 .. 4, ReadRequest(k, n)
    PROVE  HsIInv'
<1>1. k \in Nat
  BY HandshakeAssumption
<1>2. phase = "reads" /\ stage = "none" /\ answer' = answer /\ answer = <<>>
  BY Zenon DEF ReadRequest, HsIInv, PhaseInv
<1>3. CASE KeysIn(SubSeq(Request(k), 1, n)) = {}
  <2>1. phase' = "closed" /\ UNCHANGED <<bufVars, key, hd>>
    BY <1>3, Zenon DEF ReadRequest
  <2>2. BufIInv'
    BY <2>1, BufInductive, Zenon DEF HsIInv
  <2>3. PhaseInv' /\ TextInv'
    BY <1>2, <2>1 DEF HsIInv, PhaseInv, TextInv
  <2> QED
    BY <2>2, <2>3, Zenon DEF HsIInv
<1>5. CASE KeysIn(SubSeq(Request(k), 1, n)) # {} /\ ~ FitsAkey(k)
  <2>1. phase' = "overflowed" /\ UNCHANGED <<bufVars, key, hd>>
    BY <1>5, Zenon DEF ReadRequest
  <2>2. BufIInv'
    BY <2>1, BufInductive, Zenon DEF HsIInv
  <2>3. PhaseInv' /\ TextInv'
    BY <1>2, <2>1 DEF HsIInv, PhaseInv, TextInv
  <2> QED
    BY <2>2, <2>3, Zenon DEF HsIInv
<1>4. CASE KeysIn(SubSeq(Request(k), 1, n)) # {} /\ FitsAkey(k)
  <2>1. PICK digest \in Digests :
            /\ phase' = "encodes" /\ key' = k
            /\ hd' = Final(Write(Reset, Message(k)), digest)
            /\ cap' = 3 * Len(CString(hd'.buf)) /\ mem' = Zeros(cap')
            /\ size' = 0 /\ dirty' = FALSE
            /\ UNCHANGED <<call, stage, grown>>
    BY <1>4, Zenon DEF ReadRequest
  <2>2. Hashed(hd', k)
    BY <2>1, Zenon DEF Hashed
  <2> DEFINE l == Len(CString(hd'.buf))
  <2>3. CString(hd'.buf) \in Seq(Octet) /\ l \in Nat /\ 3 * l < Word
    BY <1>1, <2>2, DigestTyped, Zenon
  <2> DEFINE c == 3 * l
  <2>4. cap' = c /\ mem' = Zeros(c)
    BY <2>1, Zenon
  <2>5. TextLen(Digest') \in Nat
    <3>1. Digest' = CString(hd'.buf)
      BY Zenon DEF Digest
    <3>2. TextLen(Digest') = 4 * ((l + 2) \div 3)
      BY <3>1, Zenon DEF TextLen
    <3> HIDE DEF l
    <3> QED
      BY <2>3, <3>2
  <2> HIDE DEF l
  <2>6. c \in Nat /\ c \in 0 .. Word - 1 /\ 0 \in 0 .. MaxSize /\ 0 <= c
    BY <2>3, CallsAre
  <2> HIDE DEF c
  <2>7. mem' \in Seq(Byte) /\ Len(mem') = c /\ \A i \in 1 .. c : mem'[i] = 0
    <3>1. Zeros(c) \in Seq(Byte) /\ Len(Zeros(c)) = c /\ \A i \in 1 .. c : Zeros(c)[i] = 0
      BY <2>6, ZerosAre
    <3> QED
      BY <2>4, <3>1, Zenon
  <2>8. BlockTypes'
    <3>1. size' \in 0 .. MaxSize /\ cap' \in 0 .. Word - 1 /\ cap' = Len(mem') /\ size' <= cap' /\ dirty' \in BOOLEAN
      BY <2>1, <2>4, <2>6, <2>7
    <3> QED
      BY <2>7, <3>1, Zenon DEF BlockTypes
  <2>9. call = string!NoCall
    BY <1>2, Zenon DEF HsIInv, BufIInv, CallTypes
  <2>10. CallTypes' /\ Fits'
    BY <1>2, <2>1, Zenon DEF HsIInv, BufIInv, CallTypes, Fits
  <2>11. TailZero'
    <3>1. \A i \in size' + 1 .. Len(mem') : i \in 1 .. c
      BY <2>1, <2>6, <2>7
    <3> QED
      BY <2>7, <3>1, Zenon DEF TailZero
  <2>12. PhaseInv'
    <3>1. FitsAkey(key')
      BY <1>4, <2>1, Zenon
    <3> QED
      BY <1>2, <2>1, <2>2, <3>1, Zenon DEF PhaseInv, FitsAkey
  <2>13. TextBegun'
    <3>1. size' = 0 /\ call' = string!NoCall /\ dirty' = FALSE
      BY <2>1, <2>9, Zenon
    <3>2. 0 <= TextLen(Digest')
      BY <2>5
    <3>3. \A i \in 1 .. 0 : Content'[i] = Encoded(Digest', i)
      OBVIOUS
    <3> QED
      BY <3>1, <3>2, <3>3, Zenon DEF TextBegun
  <2>14. TextInv'
    BY <2>1, <2>13, Zenon DEF TextInv
  <2> QED
    BY <2>8, <2>10, <2>11, <2>12, <2>14, Zenon DEF HsIInv, BufIInv
<1> QED
  BY <1>3, <1>4, <1>5

-----------------------------------------------------------------------------
(* The text.                                                               *)

\* The digest and the letters of its text, of the state.
LEMMA StateDigest ==
    ASSUME HsIInv, phase \in {"encodes", "answered"}
    PROVE  /\ Digest \in Seq(Octet) /\ TextLen(Digest) \in Nat
           /\ \A j \in 1 .. TextLen(Digest) : Encoded(Digest, j) \in 1 .. 65
<1>1. key \in Nat /\ Hashed(hd, key)
  <2>1. key \in KeyLens /\ Hashed(hd, key)
    BY Zenon DEF HsIInv, PhaseInv
  <2> QED
    BY <2>1, HandshakeAssumption
<1>2. Digest \in Seq(Octet) /\ Len(Digest) \in Nat
  BY <1>1, DigestTyped, Zenon DEF Digest
<1> DEFINE l == Len(Digest)
<1>3. TextLen(Digest) = 4 * ((l + 2) \div 3) /\ l \in Nat
  BY <1>2, Zenon DEF TextLen
<1> HIDE DEF l
<1>4. TextLen(Digest) \in Nat
  BY <1>3
<1> QED
  BY <1>2, <1>4, EncodedIs, Zenon

\* The call of the next letter.
LEMMA EncodeHolds == ASSUME HsIInv, Encode PROVE HsIInv'
<1> DEFINE x == Encoded(Digest, size + 1)
<1>1. /\ phase = "encodes" /\ size < TextLen(Digest) /\ Begin(Put(x)) /\ UNCHANGED hsVars
  BY Zenon DEF Encode
<1>2. size \in Nat
  BY DEF HsIInv, BufIInv, BlockTypes
<1>3. /\ Digest \in Seq(Octet) /\ TextLen(Digest) \in Nat
      /\ \A j \in 1 .. TextLen(Digest) : Encoded(Digest, j) \in 1 .. 65
  BY <1>1, StateDigest, Zenon
<1>4. x \in 1 .. 65
  <2>1. size + 1 \in 1 .. TextLen(Digest)
    BY <1>1, <1>2, <1>3
  <2> QED
    BY <1>3, <2>1, Zenon
<1>5. Put(x) \in Calls
  BY <1>4, HandshakeAssumption, Zenon
<1>6. BufIInv' /\ call = string!NoCall
  BY <1>1, <1>5, BeginHolds, Zenon DEF HsIInv
<1>7. call' = Put(x) /\ UNCHANGED <<mem, size, cap, dirty>>
  BY <1>1, Zenon DEF Begin
<1>8. phase' = phase /\ key' = key /\ hd' = hd /\ answer' = answer
  BY <1>1, Zenon DEF hsVars
<1>9. Content' = Content /\ Digest' = Digest
  BY <1>7, <1>8, Zenon DEF Content, Digest
<1> HIDE DEF x
<1>10. TextBegun
  BY <1>1, Zenon DEF HsIInv, TextInv
<1>11. TextBegun'
  BY <1>1, <1>7, <1>9, <1>10, Zenon DEF TextBegun, x
<1>12. PhaseInv'
  BY <1>8, Zenon DEF HsIInv, PhaseInv
<1>13. TextInv'
  BY <1>1, <1>8, <1>11, Zenon DEF TextInv
<1> QED
  BY <1>6, <1>12, <1>13, Zenon DEF HsIInv

\* Appending the letter of the call: the text is one longer.
LEMMA AppendHolds ==
    ASSUME HsIInv, phase = "encodes", Apply, UNCHANGED hsVars
    PROVE  TextBegun'
<1> DEFINE x == Encoded(Digest, size + 1)
<1>1. stage = "apply" /\ call' = string!NoCall
  BY Zenon DEF Apply, Return
<1>2. TextBegun /\ call # string!NoCall
  BY <1>1 DEF HsIInv, TextInv, BufIInv, CallTypes
<1>3. size < TextLen(Digest) /\ call = Put(x) /\ dirty = FALSE
  BY <1>2, Zenon DEF TextBegun
<1>4. call.op = "append" /\ call.data = <<x>>
  BY <1>3 DEF Put, string!NoCall
<1>5. Append_
  BY <1>4 DEF Apply, Insert, Format, Remove, Clear, Trunc, Reinit
<1>6. size' = size + 1 /\ dirty' = FALSE
  <2>1. Len(call.data) = 1
    BY <1>4
  <2> QED
    BY <1>3, <1>5, <2>1, Zenon DEF Append_
<1>7. Content' = string!Result(call) /\ BlockTypes /\ BlockTypes'
  BY <1>4, ApplyDone DEF HsIInv, BufIInv, Done, Unmoved, Overlapped
<1>8. Content' = Content \o <<x>>
  <2>1. string!Result(call) = Content \o call.data
    BY <1>4 DEF string!Result
  <2> QED
    BY <1>4, <1>7, <2>1
<1>9. size \in Nat /\ Content \in Seq(Byte) /\ Len(Content) = size
  BY <1>7, ContentIs DEF BlockTypes
<1>10. TextLen(Digest) \in Nat
  BY StateDigest, Zenon
<1>11. \A i \in 1 .. size : Content[i] = Encoded(Digest, i)
  BY <1>2, Zenon DEF TextBegun
<1>12. Digest' = Digest
  BY Zenon DEF Digest, hsVars
<1>13. \A i \in 1 .. size + 1 : Content'[i] = Encoded(Digest, i)
  <2> DEFINE c == Content
  <2>1. \A i \in 1 .. size : Content'[i] = c[i]
    <3>1. c \in Seq(Byte) /\ Len(c) = size
      BY <1>9, Zenon
    <3> HIDE DEF c, x
    <3>2. \A i \in 1 .. size : (c \o <<x>>)[i] = c[i]
      BY <1>9, <3>1
    <3>3. Content' = c \o <<x>>
      BY <1>8, Zenon DEF c
    <3> QED
      BY <3>2, <3>3, Zenon
  <2>2. Content'[size + 1] = x
    <3>1. c \in Seq(Byte) /\ Len(c) = size
      BY <1>9, Zenon
    <3> HIDE DEF c, x
    <3>2. (c \o <<x>>)[size + 1] = x
      BY <1>9, <3>1
    <3>3. Content' = c \o <<x>>
      BY <1>8, Zenon DEF c
    <3> QED
      BY <3>2, <3>3, Zenon
  <2>3. \A i \in 1 .. size + 1 : i \in 1 .. size \/ i = size + 1
    BY <1>9
  <2> QED
    BY <1>11, <2>1, <2>2, <2>3, Zenon
<1>14. size + 1 <= TextLen(Digest)
  BY <1>3, <1>9, <1>10
<1> QED
  BY <1>1, <1>6, <1>12, <1>13, <1>14, Zenon DEF TextBegun

\* The text stays as it is while reserve is at work.
LEMMA InsideHolds == ASSUME HsIInv, Inside, UNCHANGED hsVars PROVE HsIInv'
<1>1. phase' = phase /\ key' = key /\ hd' = hd /\ answer' = answer
  BY Zenon DEF hsVars
<1>2. BufIInv'
  BY BufInductive, Zenon DEF HsIInv, BufNext
<1>3. PhaseInv'
  BY <1>1, Zenon DEF HsIInv, PhaseInv
<1>4. Digest' = Digest
  BY <1>1, Zenon DEF Digest
<1>5. ASSUME phase = "encodes" PROVE TextBegun'
  <2>1. TextBegun
    BY <1>5, Zenon DEF HsIInv, TextInv
  <2>2. CASE Double \/ Realloc
    <3>1. Content' = Content
      BY <2>2, DoubleHolds, ReallocHolds, Zenon DEF HsIInv
    <3>2. size' = size /\ call' = call
      BY <2>2, Zenon DEF Double, Realloc
    <3>3. dirty' = FALSE
      BY <2>1, <2>2, Zenon DEF Double, Realloc, TextBegun
    <3> QED
      BY <1>4, <2>1, <3>1, <3>2, <3>3, Zenon DEF TextBegun
  <2>3. CASE Apply
    BY <1>5, <2>3, AppendHolds, Zenon
  <2> QED
    BY <2>2, <2>3, Zenon DEF Inside
<1>6. phase # "reads"
  BY DEF Inside, Double, Realloc, Apply, HsIInv, TextInv
<1>7. TextInv'
  BY <1>1, <1>4, <1>5, <1>6, Zenon DEF HsIInv, TextInv
<1> QED
  BY <1>2, <1>3, <1>7, Zenon DEF HsIInv

-----------------------------------------------------------------------------
(* The answer.                                                             *)

\* The text that is printed is the one that was put together.
LEMMA AnswerHolds == ASSUME HsIInv, Answer PROVE HsIInv'
<1>1. /\ phase = "encodes" /\ stage = "none" /\ size = TextLen(Digest)
      /\ answer' = IF mem = <<>> THEN NullText ELSE CString(mem)
      /\ phase' = "answered" /\ UNCHANGED <<bufVars, key, hd>>
  BY Zenon DEF Answer
<1>2. TextBegun /\ BlockTypes /\ TailZero
  BY <1>1, Zenon DEF HsIInv, TextInv, BufIInv
<1>3. mem \in Seq(Byte) /\ size \in Nat /\ size <= Len(mem) /\ Len(mem) \in Nat
  BY <1>2 DEF BlockTypes
<1>4. /\ Content \in Seq(Byte) /\ Len(Content) = size
      /\ \A i \in 1 .. size : Content[i] = mem[i]
  BY <1>2, ContentIs
<1>5. \A i \in 1 .. size : Content[i] = Encoded(Digest, i) /\ mem[i] # 0
  <2>1. ASSUME NEW i \in 1 .. size PROVE Content[i] = Encoded(Digest, i) /\ mem[i] # 0
    <3>1. Content[i] = Encoded(Digest, i)
      BY <1>2, <2>1, Zenon DEF TextBegun
    <3>2. Encoded(Digest, i) \in 1 .. 65
      BY <1>1, <2>1, StateDigest, Zenon
    <3>3. mem[i] \in 1 .. 65
      BY <1>4, <2>1, <3>1, <3>2, Zenon
    <3> QED
      BY <3>1, <3>3
  <2> QED
    BY <2>1, Zenon
<1>6. size < Len(mem) => mem[size + 1] = 0
  <2>1. ASSUME size < Len(mem) PROVE mem[size + 1] = 0
    <3>1. size + 1 \in size + 1 .. Len(mem)
      BY <1>3, <2>1
    <3>2. dirty = FALSE
      BY <1>2, Zenon DEF TextBegun
    <3> QED
      BY <1>2, <3>1, <3>2, Zenon DEF TailZero
  <2> QED
    BY <2>1
<1>7. mem # <<>> => answer' = Content
  <2>1. CString(mem) = SubSeq(mem, 1, size)
    <3>1. \A i \in 1 .. size : mem[i] # 0
      BY <1>5, Zenon
    <3> QED
      BY <1>3, <1>6, <3>1, CStringOf, Zenon
  <2> QED
    BY <1>1, <2>1, Zenon DEF Content
<1>8. Content = Text(Digest)
  <2> DEFINE c == Content
  <2> HIDE DEF c
  <2>1. c = [i \in 1 .. size |-> c[i]]
    BY <1>4 DEF c
  <2>2. \A i \in 1 .. size : c[i] = Encoded(Digest, i)
    BY <1>5, Zenon DEF c
  <2>3. c = [i \in 1 .. size |-> Encoded(Digest, i)]
    BY <2>1, <2>2
  <2> QED
    BY <1>1, <2>3, Zenon DEF c, Text
<1>9. Digest' = Digest
  BY <1>1, Zenon DEF Digest
<1>10. TextInv'
  <2>1. CASE mem # <<>>
    BY <1>1, <1>4, <1>7, <1>8, <1>9, <2>1 DEF TextInv
  <2>2. CASE mem = <<>>
    <3>1. size = 0
      BY <1>3, <2>2
    <3>2. Len(Digest) = 0
      <4> DEFINE l == Len(Digest)
      <4>1. l \in Nat
        BY <1>1, StateDigest
      <4>2. 4 * ((l + 2) \div 3) = 0
        BY <1>1, <3>1, Zenon DEF TextLen
      <4> HIDE DEF l
      <4>3. l = 0
        BY <4>1, <4>2, Z3
      <4> QED
        BY <4>3 DEF l
    <3>3. answer' = NullText
      BY <1>1, <2>2, Zenon
    <3>4. Put(EndMark) \in Calls
      BY HandshakeAssumption DEF EndMark
    <3>5. EndMark \in Byte
      <4>1. Put(EndMark).data \in Seq(Byte)
        BY <3>4, MembufAssumption, Zenon
      <4>2. Put(EndMark).data = <<EndMark>>
        BY DEF Put, string!NoCall
      <4>3. <<EndMark>> \in Seq(Byte)
        BY <4>1, <4>2, Zenon
      <4> HIDE DEF EndMark
      <4>4. 1 \in 1 .. Len(<<EndMark>>) /\ <<EndMark>>[1] = EndMark
        OBVIOUS
      <4> QED
        BY <4>3, <4>4
    <3>6. NullText \in Seq(Byte)
      BY <3>5 DEF NullText
    <3> QED
      BY <1>1, <1>9, <3>2, <3>3, <3>6 DEF TextInv
  <2> QED
    BY <2>1, <2>2
<1>11. BufIInv'
  BY <1>1, BufInductive, Zenon DEF HsIInv
<1>12. PhaseInv'
  <2>1. key' = key /\ hd' = hd
    BY <1>1, Zenon
  <2>2. key \in KeyLens /\ FitsAkey(key) /\ Hashed(hd, key)
    BY <1>1, Zenon DEF HsIInv, PhaseInv
  <2>3. FitsAkey(key') /\ Hashed(hd', key')
    BY <2>1, <2>2, Zenon
  <2> QED
    BY <1>1, <2>1, <2>2, <2>3 DEF PhaseInv
<1> QED
  BY <1>10, <1>11, <1>12, Zenon DEF HsIInv

\* What other code does with the membuf is no part of a handshake.
LEMMA OtherHolds == ASSUME HsIInv, Other PROVE HsIInv'
<1>1. phase = "other" /\ UNCHANGED hsVars
  BY Zenon DEF Other
<1>2. PICK c \in OtherCalls : Begin(c)
  BY Zenon DEF Other
<1>3. c \in Calls
  BY HandshakeAssumption
<1>4. BufIInv'
  BY <1>2, <1>3, BeginHolds, Zenon DEF HsIInv
<1>5. PhaseInv' /\ TextInv'
  BY <1>1 DEF HsIInv, PhaseInv, TextInv, hsVars
<1> QED
  BY <1>4, <1>5, Zenon DEF HsIInv

\* The text in the buffer is at every step the start of the text of the digest, which
\* is that of a message that was hashed: what on_read and base64_encode maintain
\* between one append and the next (encode.cpp:40-68).
THEOREM HandshakeInvariance == HsSpec => []HsIInv
<1>1. HsInit => HsIInv
  BY HandshakeInit
<1>2. HsIInv /\ [HsNext]_hsAll => HsIInv'
  <2> SUFFICES ASSUME HsIInv, [HsNext]_hsAll PROVE HsIInv'
    OBVIOUS
  <2>1. CASE UNCHANGED hsAll
    <3>1. UNCHANGED bufVars /\ phase' = phase /\ key' = key /\ hd' = hd /\ answer' = answer
      BY <2>1, Zenon DEF hsAll, hsVars
    <3>2. BufIInv'
      BY <3>1, BufInductive, Zenon DEF HsIInv
    <3>3. PhaseInv'
      BY <3>1, Zenon DEF HsIInv, PhaseInv
    <3>4. TextInv'
      BY <3>1, Zenon DEF HsIInv, TextInv, TextBegun, Digest, Content, bufVars
    <3> QED
      BY <3>2, <3>3, <3>4, Zenon DEF HsIInv
  <2> QED
    BY <2>1, RequestHolds, EncodeHolds, AnswerHolds, OtherHolds, InsideHolds, Zenon DEF HsNext
<1> QED
  BY <1>1, <1>2, PTL DEF HsSpec

\* The hash function is given the padded message, block by block, for every key that akey
\* has room for, and however a caller cuts what it writes: hash1_write and hash1_final lose
\* and repeat no byte (wsutil.cpp:66-69, sha1.cpp:185-280).
THEOREM RequestHashed == HsSpec => []HashesMessage
<1>1. HsIInv => HashesMessage
  <2> SUFFICES ASSUME HsIInv, phase = "encodes" PROVE HashesMessage
    BY Zenon DEF HashesMessage
  <2>1. key \in Nat /\ FitsAkey(key) /\ Hashed(hd, key)
    BY HandshakeAssumption DEF HsIInv, PhaseInv
  <2> QED
    BY <2>1, HashedMessage, Zenon DEF HashesMessage, FitsAkey
<1> QED
  BY <1>1, HandshakeInvariance, PTL

\* Every variable of the server's answer stays within its type; the buffer of the hash
\* is never filled beyond a block (sha1.cpp:41-62, wsutil.cpp:20-28).
THEOREM HandshakeTypes == HsSpec => []HsTypeOK
<1>1. HsIInv => HsTypeOK
  <2> SUFFICES ASSUME HsIInv PROVE HsTypeOK
    OBVIOUS
  <2>1. BufTypeOK
    BY Zenon DEF HsIInv, BufIInv, BlockTypes, CallTypes, BufTypeOK
  <2>2. /\ phase \in {"reads", "encodes", "answered", "closed", "overflowed", "other"}
        /\ key \in KeyLens \cup {0}
    BY DEF HsIInv, PhaseInv
  <2>3. answer \in Seq(Byte)
    <3>1. answer = <<>> \/ answer \in Seq(Byte)
      BY Zenon DEF HsIInv, PhaseInv, TextInv
    <3>2. <<>> \in Seq(Byte)
      OBVIOUS
    <3> QED
      BY <3>1, <3>2, Zenon
  <2>4. /\ hd.blocks \in Seq([1 .. Block -> 0 .. 255]) /\ hd.buf \in [1 .. Block -> 0 .. 255]
        /\ hd.count \in 0 .. Block /\ hd.final \in BOOLEAN
    <3>1. CASE phase \in {"encodes", "answered"}
      <4>1. key \in KeyLens /\ Hashed(hd, key)
        BY <3>1, Zenon DEF HsIInv, PhaseInv
      <4>2. key \in Nat
        BY <4>1, HandshakeAssumption
      <4> QED
        BY <4>1, <4>2, HashedTypes, Zenon DEF Octet
    <3>2. CASE phase \in {"reads", "closed", "overflowed", "other"}
      <4>1. hd = Reset
        BY <3>2, Zenon DEF HsIInv, PhaseInv
      <4>2. /\ hd.blocks = <<>> /\ hd.buf = [i \in 1 .. Block |-> 0]
            /\ hd.count = 0 /\ hd.final = FALSE
        BY <4>1 DEF Reset
      <4>3. <<>> \in Seq([1 .. Block -> 0 .. 255])
        OBVIOUS
      <4>4. [i \in 1 .. Block |-> 0] \in [1 .. Block -> 0 .. 255] /\ 0 \in 0 .. Block /\ FALSE \in BOOLEAN
        BY Sha1Assumption
      <4>5. hd.blocks \in Seq([1 .. Block -> 0 .. 255])
        BY <4>2, <4>3, Zenon
      <4>6. hd.buf \in [1 .. Block -> 0 .. 255]
        BY <4>2, <4>4, Zenon
      <4>7. hd.count \in 0 .. Block /\ hd.final \in BOOLEAN
        BY <4>2, <4>4, Zenon
      <4> QED
        BY <4>5, <4>6, <4>7, Zenon
    <3> QED
      BY <2>2, <3>1, <3>2
  <2> QED
    BY <2>1, <2>2, <2>3, <2>4, Zenon DEF HsTypeOK
<1> QED
  BY <1>1, HandshakeInvariance, PTL

\* The answer has the base64 of the digest, to its last letter and no further, for a
\* digest without a zero byte and a key whose length leaves a zero behind the digest
\* (wsutil.cpp:20-28, encode.cpp:29-69).
THEOREM AnswersExactly == HsSpec => []AcceptExact
<1>1. HsIInv => AcceptExact
  <2> SUFFICES ASSUME HsIInv, phase = "answered", ZeroBehind,
                      0 \notin {hd.buf[i] : i \in 1 .. DigestLen}
               PROVE  answer = Base64(SubSeq(hd.buf, 1, DigestLen))
    BY Zenon DEF AcceptExact
  <2>1. /\ key \in KeyLens /\ Hashed(hd, key)
        /\ answer = Text(Digest) \/ Len(Digest) = 0
    BY Zenon DEF HsIInv, PhaseInv, TextInv
  <2>2. key \in Nat
    BY <2>1, HandshakeAssumption
  <2>3. Digest = SubSeq(hd.buf, 1, DigestLen)
    BY <2>1, <2>2, ProperDigest, Zenon DEF ZeroBehind, Digest
  <2>4. Digest \in Seq(Octet)
    BY StateDigest, Zenon
  <2>6. Len(Digest) # 0
    <3> DEFINE b == hd.buf
    <3>1. b \in [1 .. Block -> Octet]
      BY <2>1, <2>2, HashedTypes, Zenon
    <3> HIDE DEF b
    <3>2. b \in Seq(Octet) /\ Len(b) = Block /\ DigestLen \in Nat /\ DigestLen <= Block
      BY <3>1, Sha1Assumption
    <3>3. Len(SubSeq(b, 1, DigestLen)) = DigestLen
      BY <3>2
    <3>4. Digest = SubSeq(b, 1, DigestLen)
      BY <2>3, Zenon DEF b
    <3>5. DigestLen > 0
      BY HandshakeAssumption, Zenon
    <3> QED
      BY <3>2, <3>3, <3>4, <3>5
  <2>5. Text(Digest) = Base64(Digest)
    BY <2>4, EncodesBase64, Zenon
  <2> QED
    BY <2>1, <2>3, <2>5, <2>6, Zenon
<1> QED
  BY <1>1, HandshakeInvariance, PTL

\* The buffer that base64_encode initialises, and grows by doubling, holds what is put into
\* it, in 32 bits too: three bytes for each of the digest are room enough to begin with,
\* and reserve makes the rest (encode.cpp:29-69, membuf.cpp:73-90).
THEOREM TextFits == HsSpec => []CapacityHeld
<1>1. HsIInv => CapacityHeld
  <2> SUFFICES ASSUME HsIInv PROVE CapacityHeld
    OBVIOUS
  <2>1. stage = "apply" => size + Extra(call) <= cap
    BY DEF HsIInv, BufIInv, Fits
  <2>2. ASSUME stage = "apply", call.op = "remove", call.at < size
        PROVE  Left(call) < cap \/ (call.n = 0 /\ size = cap)
    <3>1. call \in Calls
      BY <2>2 DEF HsIInv, BufIInv, CallTypes
    <3>2. call.n \in Nat /\ call.at \in Nat /\ size \in Nat /\ cap \in Nat /\ size <= cap
      BY <3>1, CallsAre DEF HsIInv, BufIInv, BlockTypes
    <3> QED
      BY <2>2, <3>2 DEF Left
  <2> QED
    BY <2>1, <2>2, Zenon DEF HsIInv, BufIInv, BlockTypes, CapacityHeld
<1> QED
  BY <1>1, HandshakeInvariance, PTL

\* That buffer, initialised a second time for a request, is the sequence of bytes that
\* membuf.h documents, but for a formatted text, which is not appended, and an insertion
\* that overlaps what it moves (membuf.cpp:21-181, encode.cpp:29-69).
THEOREM TextIsString == HsSpec => ImplementsString
<1>1. HsInit => string!Init
  BY StringInit DEF HsInit
<1>2. ASSUME HsIInv, [HsNext]_hsAll PROVE [string!Next \/ NotAppended \/ Garbled]_<<Content, call>>
  <2>1. CASE [BufNext]_bufVars
    BY <1>2, <2>1, BufMaps, Zenon DEF HsIInv
  <2>2. ASSUME NEW k \in KeyLens, NEW n \in 1 .. 4, ReadRequest(k, n)
        PROVE  [string!Next \/ NotAppended \/ Garbled]_<<Content, call>>
    <3>1. phase = "reads" /\ call' = call
      BY <2>2, Zenon DEF ReadRequest, bufVars
    <3>2. CASE UNCHANGED bufVars
      BY <3>2, <2>1, Zenon
    <3>3. CASE ~ UNCHANGED bufVars
      <4>1. size = 0
        BY <1>2, <3>1, Zenon DEF HsIInv, TextInv
      <4>2. size' = 0
        BY <2>2, <3>3, Zenon DEF ReadRequest
      <4>3. Content = <<>> /\ Content' = <<>>
        BY <4>1, <4>2, SubSeqEmpty DEF Content
      <4> QED
        BY <3>1, <4>3
    <3> QED
      BY <3>2, <3>3
  <2>3. CASE Encode
    <3>1. PICK c : c \in Calls /\ Begin(c)
      <4>1. phase = "encodes" /\ size < TextLen(Digest)
        BY <2>3, Zenon DEF Encode
      <4>2. size \in Nat /\ TextLen(Digest) \in Nat
        BY <1>2, <4>1, StateDigest DEF HsIInv, BufIInv, BlockTypes
      <4>3. size + 1 \in 1 .. TextLen(Digest)
        BY <4>1, <4>2
      <4>4. Encoded(Digest, size + 1) \in 1 .. 65
        BY <1>2, <4>1, <4>3, StateDigest, Zenon
      <4> QED
        BY <2>3, <4>4, HandshakeAssumption, Zenon DEF Encode
    <3> QED
      BY <2>1, <3>1, Zenon DEF BufNext
  <2>4. CASE Other
    <3>1. PICK c \in OtherCalls : Begin(c)
      BY <2>4, Zenon DEF Other
    <3>2. c \in Calls
      BY HandshakeAssumption
    <3> QED
      BY <2>1, <3>1, <3>2, Zenon DEF BufNext
  <2>5. CASE Answer \/ UNCHANGED hsAll
    <3>1. UNCHANGED bufVars
      BY <2>5, Zenon DEF Answer, hsAll
    <3> QED
      BY <2>1, <3>1, Zenon
  <2>6. CASE Inside /\ UNCHANGED hsVars
    BY <2>1, <2>6, Zenon DEF BufNext
  <2> QED
    BY <1>2, <2>2, <2>3, <2>4, <2>5, <2>6, Zenon DEF HsNext
<1>3. HsIInv /\ [HsNext]_hsAll => [string!Next \/ NotAppended \/ Garbled]_<<Content, call>>
  BY <1>2
<1> QED
  BY <1>1, <1>3, HandshakeInvariance, PTL DEF HsSpec, ImplementsString
=============================================================================
