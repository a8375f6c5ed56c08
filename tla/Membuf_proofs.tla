---------------------------- MODULE Membuf_proofs ----------------------------
(***************************************************************************)
(* Proofs about Membuf: for every width of the sizes and every content of  *)
(* up to half their range, what is written fits into the block, what lies  *)
(* behind the content is zero, and the buffer is the sequence of bytes of  *)
(* ByteString, except in the two calls named in ImplementsString.          *)
(***************************************************************************)
EXTENDS Membuf, SequenceTheorems, TLAPS

-----------------------------------------------------------------------------
(* Sequences of bytes.                                                     *)

LEMMA ZerosAre ==
    ASSUME NEW n \in Nat
    PROVE  Zeros(n) \in Seq(Byte) /\ Len(Zeros(n)) = n /\ \A i \in 1 .. n : Zeros(n)[i] = 0
  BY MembufAssumption DEF Zeros

LEMMA OverwrittenIs ==
    ASSUME NEW block \in Seq(Byte), NEW from \in Nat, NEW data \in Seq(Byte)
    PROVE  /\ Overwritten(block, from, data) \in Seq(Byte)
           /\ Len(Overwritten(block, from, data)) = Len(block)
           /\ \A i \in 1 .. Len(block) :
                Overwritten(block, from, data)[i] =
                    IF i > from /\ i <= from + Len(data) THEN data[i - from] ELSE block[i]
<1> DEFINE f(i) == IF i > from /\ i <= from + Len(data) THEN data[i - from] ELSE block[i]
<1>1. \A i \in 1 .. Len(block) : f(i) \in Byte
  <2> SUFFICES ASSUME NEW i \in 1 .. Len(block) PROVE f(i) \in Byte
    OBVIOUS
  <2>1. CASE i > from /\ i <= from + Len(data)
    <3>1. i - from \in 1 .. Len(data)
      BY <2>1
    <3> QED
      BY <2>1, <3>1, ElementOfSeq
  <2>2. CASE ~ (i > from /\ i <= from + Len(data))
    BY <2>2, ElementOfSeq
  <2> QED
    BY <2>1, <2>2
<1>2. Overwritten(block, from, data) = [i \in 1 .. Len(block) |-> f(i)]
  BY DEF Overwritten
<1> HIDE DEF f
<1>3. [i \in 1 .. Len(block) |-> f(i)] \in Seq(Byte)
  BY <1>1
<1>4. \A i \in 1 .. Len(block) : Overwritten(block, from, data)[i] = f(i)
  BY <1>2
<1>5. Len(Overwritten(block, from, data)) = Len(block)
  BY <1>2
<1> QED
  BY <1>2, <1>3, <1>4, <1>5 DEF f

\* A part of a sequence of bytes.
LEMMA PartIs ==
    ASSUME NEW s \in Seq(Byte), NEW m \in Nat, NEW n \in 0 .. Len(s), m >= 1
    PROVE  /\ SubSeq(s, m, n) \in Seq(Byte)
           /\ Len(SubSeq(s, m, n)) = IF m <= n THEN n - m + 1 ELSE 0
           /\ \A i \in 1 .. n - m + 1 : SubSeq(s, m, n)[i] = s[m + i - 1]
<1>1. \A i \in m .. n : s[i] \in Byte
  BY ElementOfSeq
<1> QED
  BY <1>1, SubSeqProperties

\* What is behind its first k elements.
LEMMA RestIs ==
    ASSUME NEW s \in Seq(Byte), NEW n \in 0 .. Len(s), NEW k \in Nat, k <= n
    PROVE  /\ SubSeq(s, k + 1, n) \in Seq(Byte) /\ Len(SubSeq(s, k + 1, n)) = n - k
           /\ \A i \in 1 .. n - k : SubSeq(s, k + 1, n)[i] = s[k + i]
<1> DEFINE t == SubSeq(s, k + 1, n)
<1>1. /\ t \in Seq(Byte)
      /\ Len(t) = IF k + 1 <= n THEN n - (k + 1) + 1 ELSE 0
      /\ \A i \in 1 .. n - (k + 1) + 1 : t[i] = s[k + 1 + i - 1]
  BY PartIs
<1> HIDE DEF t
<1>2. n - (k + 1) + 1 = n - k /\ \A i \in 1 .. n - k : k + 1 + i - 1 = k + i
  OBVIOUS
<1>3. Len(t) = n - k
  BY <1>1
<1> QED
  BY <1>1, <1>2, <1>3 DEF t

\* What memcpy leaves of bytes it moves has their number.
LEMMA MovedIs ==
    ASSUME NEW rest \in Seq(Byte), NEW n \in Nat, n > 0, NEW moved \in Moved(rest, n)
    PROVE  moved \in Seq(Byte) /\ Len(moved) = Len(rest)
<1>1. ASSUME NEW i \in 1 .. Len(rest) PROVE ((i - 1) % n) + 1 \in 1 .. Len(rest)
  <2>1. i - 1 \in Nat
    OBVIOUS
  <2>2. (i - 1) % n \in Nat /\ (i - 1) % n <= i - 1
    BY <2>1
  <2> QED
    BY <2>2
<1> DEFINE r == Repeated(rest, n)
<1>2. \A i \in 1 .. Len(rest) : rest[((i - 1) % n) + 1] \in Byte
  BY <1>1, ElementOfSeq
<1>3. r \in Seq(Byte) /\ Len(r) = Len(rest)
  BY <1>2 DEF Repeated
<1>4. moved = rest \/ moved = r
  BY Zenon DEF Moved
<1> HIDE DEF r
<1> QED
  BY <1>3, <1>4

\* Bytes that do not overlap the place they go to are moved as they are.
LEMMA RepeatedIs ==
    ASSUME NEW rest \in Seq(Byte), NEW n \in Nat, n > 0, Len(rest) <= n
    PROVE  Repeated(rest, n) = rest
<1>1. ASSUME NEW i \in 1 .. Len(rest) PROVE ((i - 1) % n) + 1 = i
  <2>1. i - 1 \in Nat /\ i - 1 < n
    OBVIOUS
  <2>2. (i - 1) % n = i - 1
    BY <2>1
  <2> QED
    BY <2>2
<1>2. Repeated(rest, n) = [i \in 1 .. Len(rest) |-> rest[i]]
  BY <1>1 DEF Repeated
<1> QED
  BY <1>2

\* Three sequences, one behind the other.
LEMMA JoinedIs ==
    ASSUME NEW a \in Seq(Byte), NEW b \in Seq(Byte), NEW c \in Seq(Byte)
    PROVE  /\ a \o b \o c \in Seq(Byte)
           /\ Len(a \o b \o c) = Len(a) + Len(b) + Len(c)
           /\ \A i \in 1 .. Len(a) + Len(b) + Len(c) :
                (a \o b \o c)[i] = IF i <= Len(a) THEN a[i]
                                   ELSE IF i <= Len(a) + Len(b) THEN b[i - Len(a)]
                                   ELSE c[i - (Len(a) + Len(b))]
<1> DEFINE two == a \o b
<1>1. /\ two \in Seq(Byte) /\ Len(two) = Len(a) + Len(b)
      /\ \A i \in 1 .. Len(a) + Len(b) : two[i] = IF i <= Len(a) THEN a[i] ELSE b[i - Len(a)]
  BY ConcatProperties
<1> HIDE DEF two
<1>2. /\ two \o c \in Seq(Byte) /\ Len(two \o c) = Len(two) + Len(c)
      /\ \A i \in 1 .. Len(two) + Len(c) :
            (two \o c)[i] = IF i <= Len(two) THEN two[i] ELSE c[i - Len(two)]
  <2>1. two \in Seq(Byte)
    BY <1>1
  <2> QED
    BY <2>1, ConcatProperties
<1>3. Len(a) \in Nat /\ Len(b) \in Nat /\ Len(c) \in Nat
  OBVIOUS
<1>4. \A i \in 1 .. Len(a) + Len(b) + Len(c) :
        (two \o c)[i] = IF i <= Len(a) THEN a[i]
                        ELSE IF i <= Len(a) + Len(b) THEN b[i - Len(a)]
                        ELSE c[i - (Len(a) + Len(b))]
  BY <1>1, <1>2, <1>3
<1> QED
  BY <1>1, <1>2, <1>4 DEF two

\* Two sequences with the same elements.
LEMMA SameBytes ==
    ASSUME NEW s \in Seq(Byte), NEW t \in Seq(Byte), NEW n, Len(s) = n, Len(t) = n,
           \A i \in 1 .. n : s[i] = t[i]
    PROVE  s = t
  BY SeqEqual

-----------------------------------------------------------------------------
(* The inductive invariant.                                                *)

Texts == {"append", "insert", "format"}

\* What the calls of membuf.cpp are, and that no call is not one of them.
LEMMA CallsAre ==
    /\ \A c \in Calls :
        /\ c.op \in Texts \cup {"remove", "clear", "init", "trunc"}
        /\ c.data \in Seq(Byte) /\ c.at \in Nat /\ c.n \in Nat
        /\ c.op \in {"init", "clear"} => c.n < Word
        /\ c.op = "insert" => c.data # <<>>
        /\ c # string!NoCall
    /\ Word \in Nat /\ MaxSize \in Nat /\ 2 * MaxSize <= Word /\ MaxSize + 4 < Word
  BY MembufAssumption DEF Texts, string!NoCall

LEMMA ExtraIs ==
    ASSUME NEW c \in Calls
    PROVE  /\ Extra(c) \in Nat
           /\ c.op \in {"append", "insert"} => Extra(c) = Len(c.data)
           /\ c.op = "format" => Extra(c) = Len(c.data) + 1
           /\ c.op \notin Texts => Extra(c) = 0
<1>1. Len(c.data) \in Nat /\ c.op \in Texts \cup {"remove", "clear", "init", "trunc"}
  BY CallsAre
<1>2. CASE c.op \in {"append", "insert"}
  BY <1>1, <1>2 DEF Extra, Texts
<1>3. CASE c.op = "format"
  BY <1>1, <1>3 DEF Extra, Texts
<1>4. CASE c.op \in {"remove", "clear", "init", "trunc"}
  BY <1>1, <1>4 DEF Extra, Texts
<1> QED
  BY <1>1, <1>2, <1>3, <1>4 DEF Texts

\* The block, and the calls under way: the room for what one writes was seen to
\* be within bounds when it began.
BlockTypes ==
    /\ mem \in Seq(Byte) /\ size \in 0 .. MaxSize
    /\ cap \in 0 .. Word - 1 /\ cap = Len(mem) /\ size <= cap
    /\ dirty \in BOOLEAN

CallTypes ==
    /\ grown \in 0 .. Word - 1
    /\ call \in Calls \cup {string!NoCall}
    /\ stage \in {"none", "grow", "apply"}
    /\ stage = "none" <=> call = string!NoCall

Fits ==
    stage # "none" =>
        /\ call.op \in Texts => size + Extra(call) <= MaxSize
        /\ call.op = "insert" => call.at < size
        /\ stage = "apply" => size + Extra(call) <= cap
        /\ stage = "grow" => call.op \in Texts

BufIInv == BlockTypes /\ CallTypes /\ Fits /\ TailZero

LEMMA ContentIs ==
    ASSUME BlockTypes
    PROVE  /\ Content \in Seq(Byte) /\ Len(Content) = size
           /\ \A i \in 1 .. size : Content[i] = mem[i]
  BY PartIs DEF BlockTypes, Content

LEMMA BlockInit == BufInit => BufIInv
<1> SUFFICES ASSUME BufInit PROVE BufIInv
  OBVIOUS
<1>1. PICK n \in FirstSizes : mem = Zeros(n) /\ cap = n
  BY DEF BufInit
<1>2. n \in 0 .. Word - 1 /\ n \in Nat
  BY MembufAssumption
<1>3. mem \in Seq(Byte) /\ Len(mem) = n /\ \A i \in 1 .. Len(mem) : mem[i] = 0
  BY <1>1, <1>2, ZerosAre
<1>4. BlockTypes
  <2>1. size = 0 /\ dirty = FALSE
    BY DEF BufInit
  <2>2. 0 \in 0 .. MaxSize /\ cap \in 0 .. Word - 1 /\ cap = Len(mem) /\ 0 <= cap
    BY <1>1, <1>2, <1>3, CallsAre
  <2> QED
    BY <1>3, <2>1, <2>2, Zenon DEF BlockTypes
<1>5. CallTypes /\ Fits
  <2>1. call = string!NoCall /\ stage = "none" /\ grown = 0
    BY DEF BufInit
  <2>2. 0 \in 0 .. Word - 1
    BY CallsAre
  <2> QED
    BY <2>1, <2>2, Zenon DEF CallTypes, Fits
<1>6. TailZero
  BY <1>3 DEF BufInit, TailZero
<1> QED
  BY <1>4, <1>5, <1>6 DEF BufIInv

-----------------------------------------------------------------------------
(* What the calls do.                                                      *)

\* What the content is after a call: what ByteString says, or what the two calls make
\* of it that do otherwise.
Unmoved == call.op = "format" /\ Content' = Content

Overlapped ==
    /\ call.op = "insert" /\ size - call.at > Len(call.data)
    /\ Content' = SubSeq(Content, 1, call.at) \o call.data
                    \o Repeated(SubSeq(Content, call.at + 1, size), Len(call.data))

\* What a call whose room is there has done.
Done ==
    /\ BlockTypes' /\ TailZero'
    /\ Content' = string!Result(call) \/ Unmoved \/ Overlapped

LEMMA AppendDone == ASSUME BufIInv, stage = "apply", Append_ PROVE Done
<1> DEFINE new == mem'
<1>1. call \in Calls /\ call.op = "append" /\ call.data \in Seq(Byte) /\ Extra(call) = Len(call.data)
  BY CallsAre, ExtraIs DEF BufIInv, CallTypes, Append_
<1>2. /\ mem \in Seq(Byte) /\ size \in Nat /\ cap = Len(mem) /\ Len(call.data) \in Nat
      /\ size + Len(call.data) <= MaxSize /\ size + Len(call.data) <= cap
  BY <1>1 DEF BufIInv, BlockTypes, Fits, Texts
<1>3. /\ new \in Seq(Byte) /\ Len(new) = Len(mem)
      /\ \A i \in 1 .. Len(mem) :
            new[i] = IF i > size /\ i <= size + Len(call.data) THEN call.data[i - size] ELSE mem[i]
  BY <1>1, <1>2, OverwrittenIs DEF Append_
<1>4. size' = size + Len(call.data) /\ cap' = cap /\ dirty' = dirty
  BY DEF Append_
<1> HIDE DEF new
<1>5. BlockTypes'
  BY <1>2, <1>3, <1>4, CallsAre DEF BlockTypes, BufIInv, new
<1>6. TailZero'
  BY <1>2, <1>3, <1>4, Z3 DEF TailZero, BufIInv, new
<1>7. Content' = Content \o call.data
  <2>1. Content' \in Seq(Byte) /\ Len(Content') = size' /\ \A i \in 1 .. size' : Content'[i] = new[i]
    BY <1>2, <1>3, <1>4, PartIs DEF Content, new
  <2>2. /\ Content \in Seq(Byte) /\ Len(Content) = size
        /\ \A i \in 1 .. size : Content[i] = mem[i]
    BY ContentIs DEF BufIInv
  <2>3. /\ Content \o call.data \in Seq(Byte)
        /\ Len(Content \o call.data) = size + Len(call.data)
        /\ \A i \in 1 .. size + Len(call.data) :
             (Content \o call.data)[i] = IF i <= size THEN Content[i] ELSE call.data[i - size]
    BY <1>1, <2>2, ConcatProperties
  <2> HIDE DEF Content
  <2>4. \A i \in 1 .. size' : Content'[i] = (Content \o call.data)[i]
    BY <1>2, <1>3, <1>4, <2>1, <2>2, <2>3
  <2> QED
    BY <1>4, <2>1, <2>3, <2>4, SeqEqual
<1>8. string!Result(call) = Content \o call.data
  BY <1>1 DEF string!Result
<1> QED
  BY <1>5, <1>6, <1>7, <1>8, Zenon DEF Done

LEMMA InsertDone == ASSUME BufIInv, stage = "apply", Insert PROVE Done
<1> DEFINE data == call.data
           at == call.at
           n == Len(data)
           rest == SubSeq(mem, at + 1, size)
           new == mem'
<1>1. /\ call \in Calls /\ call.op = "insert" /\ data \in Seq(Byte) /\ data # <<>>
      /\ at \in Nat /\ Extra(call) = n
  BY CallsAre, ExtraIs DEF BufIInv, CallTypes, Insert, Texts
<1>2. /\ mem \in Seq(Byte) /\ size \in Nat /\ cap = Len(mem) /\ n \in Nat /\ n > 0
      /\ size + n <= MaxSize /\ size + n <= cap /\ at < size
  BY <1>1 DEF BufIInv, BlockTypes, Fits, Texts
<1>3. PICK moved \in Moved(rest, n) :
        new = Overwritten(Overwritten(mem, at + n, moved), at, data)
  BY Zenon DEF Insert
<1>4. size' = size + n /\ cap' = cap /\ dirty' = dirty
  BY DEF Insert
<1>0. string!Result(call) = SubSeq(Content, 1, at) \o data \o string!Behind(at)
  BY <1>1 DEF string!Result
<1> HIDE DEF new, at, data
<1>5. /\ rest \in Seq(Byte) /\ Len(rest) = size - at
      /\ \A i \in 1 .. size - at : rest[i] = mem[at + i]
  <2>1. at <= size /\ size \in 0 .. Len(mem)
    BY <1>1, <1>2
  <2> QED
    BY <1>1, <1>2, <2>1, RestIs
<1> HIDE DEF rest, n
<1>6. moved \in Seq(Byte) /\ Len(moved) = size - at
  BY <1>2, <1>5, MovedIs
<1>7. /\ new \in Seq(Byte) /\ Len(new) = Len(mem)
      /\ \A i \in 1 .. Len(mem) :
            new[i] = IF i <= at THEN mem[i]
                     ELSE IF i <= at + n THEN data[i - at]
                     ELSE IF i <= at + n + Len(moved) THEN moved[i - (at + n)] ELSE mem[i]
  <2> DEFINE one == Overwritten(mem, at + n, moved)
  <2>1. at + n \in Nat /\ Len(data) = n
    BY <1>1, <1>2 DEF n
  <2>2. /\ one \in Seq(Byte) /\ Len(one) = Len(mem)
        /\ \A i \in 1 .. Len(mem) :
              one[i] = IF i > at + n /\ i <= at + n + Len(moved)
                       THEN moved[i - (at + n)] ELSE mem[i]
    BY <1>2, <1>6, <2>1, OverwrittenIs
  <2>3. new = Overwritten(one, at, data)
    BY <1>3
  <2> HIDE DEF one
  <2>4. /\ new \in Seq(Byte) /\ Len(new) = Len(one)
        /\ \A i \in 1 .. Len(one) :
              new[i] = IF i > at /\ i <= at + Len(data) THEN data[i - at] ELSE one[i]
    BY <1>1, <2>2, <2>3, OverwrittenIs
  <2> QED
    BY <1>1, <1>2, <1>6, <2>1, <2>2, <2>4
<1>8. at + n + Len(moved) = size + n
  BY <1>1, <1>2, <1>6
<1>9. BlockTypes'
  BY <1>2, <1>4, <1>7, CallsAre DEF BlockTypes, BufIInv, new
<1>10. TailZero'
  <2>1. ASSUME NEW i \in 1 .. Len(mem), i > size + n PROVE new[i] = mem[i]
    BY <1>1, <1>2, <1>7, <1>8, <2>1
  <2> QED
    BY <1>2, <1>4, <1>7, <2>1, Z3 DEF TailZero, BufIInv, new
<1>11. /\ Content \in Seq(Byte) /\ Len(Content) = size
       /\ \A i \in 1 .. size : Content[i] = mem[i]
  BY ContentIs DEF BufIInv
<1>12. Content' \in Seq(Byte) /\ Len(Content') = size' /\ \A i \in 1 .. size' : Content'[i] = new[i]
  BY <1>2, <1>4, <1>7, PartIs DEF Content, new
<1> DEFINE front == SubSeq(Content, 1, at)
           all == front \o data \o moved
<1> HIDE DEF Content
<1>13. front \in Seq(Byte) /\ Len(front) = at /\ \A i \in 1 .. at : front[i] = mem[i]
  <2>1. at \in 0 .. Len(Content) /\ 1 \in Nat /\ 1 >= 1
    BY <1>1, <1>2, <1>11
  <2>2. /\ front \in Seq(Byte) /\ Len(front) = IF 1 <= at THEN at - 1 + 1 ELSE 0
        /\ \A i \in 1 .. at - 1 + 1 : front[i] = Content[1 + i - 1]
    BY <1>11, <2>1, PartIs
  <2> QED
    BY <1>1, <1>2, <1>11, <2>2
<1> HIDE DEF front
<1>14. /\ all \in Seq(Byte) /\ Len(all) = at + n + Len(moved)
       /\ \A i \in 1 .. at + n + Len(moved) :
             all[i] = IF i <= at THEN front[i]
                      ELSE IF i <= at + n THEN data[i - at] ELSE moved[i - (at + n)]
  <2>1. /\ data \in Seq(Byte) /\ moved \in Seq(Byte) /\ front \in Seq(Byte)
        /\ Len(front) = at /\ Len(data) = n
    BY <1>1, <1>6, <1>13 DEF n
  <2>2. /\ all \in Seq(Byte)
        /\ Len(all) = Len(front) + Len(data) + Len(moved)
        /\ \A i \in 1 .. Len(front) + Len(data) + Len(moved) :
                all[i] = IF i <= Len(front) THEN front[i]
                         ELSE IF i <= Len(front) + Len(data) THEN data[i - Len(front)]
                         ELSE moved[i - (Len(front) + Len(data))]
    BY <2>1, JoinedIs
  <2> HIDE DEF all
  <2> QED
    BY <2>1, <2>2, Zenon
<1> HIDE DEF all
<1>15. Content' = all
  <2>1. ASSUME NEW i \in 1 .. size + n PROVE Content'[i] = all[i]
    <3>1. Content'[i] = new[i] /\ i \in 1 .. Len(mem) /\ i <= at + n + Len(moved)
      BY <1>2, <1>4, <1>8, <1>12
    <3>2. i \in Int /\ i >= 1 /\ at \in Nat /\ n \in Nat
      BY <1>1, <1>2
    <3>3. CASE i <= at
      <4>1. new[i] = mem[i] /\ all[i] = front[i] /\ front[i] = mem[i]
        BY <1>7, <1>8, <1>13, <1>14, <3>1, <3>2, <3>3
      <4> QED
        BY <3>1, <4>1
    <3>4. CASE i > at /\ i <= at + n
      <4>1. new[i] = data[i - at]
        BY <1>7, <3>1, <3>2, <3>4
      <4>2. all[i] = data[i - at]
        BY <1>8, <1>14, <3>1, <3>2, <3>4
      <4> QED
        BY <3>1, <4>1, <4>2
    <3>5. CASE i > at + n
      <4>1. new[i] = moved[i - (at + n)]
        BY <1>7, <3>1, <3>2, <3>5
      <4>2. all[i] = moved[i - (at + n)]
        BY <1>8, <1>14, <3>1, <3>2, <3>5
      <4> QED
        BY <3>1, <4>1, <4>2
    <3> QED
      BY <3>2, <3>3, <3>4, <3>5
  <2> QED
    BY <1>4, <1>8, <1>12, <1>14, <2>1, SameBytes
<1>16. rest = string!Behind(at) /\ rest = SubSeq(Content, at + 1, size)
  <2> DEFINE t == SubSeq(Content, at + 1, size)
  <2>1. at <= size /\ size \in 0 .. Len(Content)
    BY <1>1, <1>2, <1>11
  <2>2. /\ t \in Seq(Byte) /\ Len(t) = size - at
        /\ \A i \in 1 .. size - at : t[i] = Content[at + i]
    BY <1>1, <1>2, <1>11, <2>1, RestIs
  <2>3. \A i \in 1 .. size - at : at + i \in 1 .. size
    BY <1>1, <1>2
  <2> HIDE DEF t
  <2>4. t = rest
    BY <1>5, <1>11, <2>2, <2>3, SameBytes
  <2> QED
    BY <1>11, <2>4 DEF t, string!Behind
<1>17. Content' = string!Result(call) \/ Overlapped
  <2>1. CASE moved = rest
    BY <1>0, <1>15, <1>16, <2>1, Zenon DEF all, front
  <2>2. CASE moved = Repeated(rest, n) /\ size - at > n
    BY <1>1, <1>15, <1>16, <2>2, Zenon DEF all, front, data, at, n, Overlapped
  <2>3. CASE moved = Repeated(rest, n) /\ ~ (size - at > n)
    <3>1. Len(rest) <= n
      BY <1>1, <1>2, <1>5, <2>3
    <3>2. Repeated(rest, n) = rest
      BY <1>2, <1>5, <3>1, RepeatedIs
    <3> QED
      BY <2>1, <2>3, <3>2
  <2> QED
    BY <1>3, <2>1, <2>2, <2>3, Zenon DEF Moved
<1> QED
  BY <1>9, <1>10, <1>17, Zenon DEF Done

\* A shorter or equal part at the front of a block is the content, or a part of it.
LEMMA FrontIs ==
    ASSUME NEW s \in Seq(Byte), NEW k \in 0 .. Len(s)
    PROVE  /\ SubSeq(s, 1, k) \in Seq(Byte) /\ Len(SubSeq(s, 1, k)) = k
           /\ \A i \in 1 .. k : SubSeq(s, 1, k)[i] = s[i]
<1>1. /\ SubSeq(s, 1, k) \in Seq(Byte)
      /\ Len(SubSeq(s, 1, k)) = IF 1 <= k THEN k - 1 + 1 ELSE 0
      /\ \A i \in 1 .. k - 1 + 1 : SubSeq(s, 1, k)[i] = s[1 + i - 1]
  BY PartIs
<1> QED
  BY <1>1

LEMMA SameContent ==
    ASSUME BlockTypes, BlockTypes', size' = size, \A i \in 1 .. size : mem'[i] = mem[i]
    PROVE  Content' = Content
<1>1. /\ Content \in Seq(Byte) /\ Len(Content) = size
      /\ \A i \in 1 .. size : Content[i] = mem[i]
  BY ContentIs
<1>2. /\ Content' \in Seq(Byte) /\ Len(Content') = size
      /\ \A i \in 1 .. size : Content'[i] = mem'[i]
  BY FrontIs DEF Content, BlockTypes
<1> HIDE DEF Content
<1> QED
  BY <1>1, <1>2, SameBytes

LEMMA FormatDone == ASSUME BufIInv, stage = "apply", Format PROVE Done
<1> DEFINE text == call.data \o <<0>>
           new == mem'
<1>1. /\ call \in Calls /\ call.op = "format" /\ call.data \in Seq(Byte)
      /\ Extra(call) = Len(call.data) + 1
  BY CallsAre, ExtraIs DEF BufIInv, CallTypes, Format
<1>2. /\ mem \in Seq(Byte) /\ size \in Nat /\ cap = Len(mem) /\ Len(call.data) \in Nat
      /\ size <= MaxSize /\ size <= cap
  BY <1>1 DEF BufIInv, BlockTypes
<1>3. text \in Seq(Byte)
  BY <1>1, MembufAssumption
<1>4. new = Overwritten(mem, size, text) /\ dirty' = TRUE /\ size' = size /\ cap' = cap
  BY Zenon DEF Format
<1> HIDE DEF new, text
<1>5. /\ new \in Seq(Byte) /\ Len(new) = Len(mem)
      /\ \A i \in 1 .. Len(mem) :
            new[i] = IF i > size /\ i <= size + Len(text) THEN text[i - size] ELSE mem[i]
  BY <1>2, <1>3, <1>4, OverwrittenIs
<1>6. BlockTypes'
  BY <1>2, <1>4, <1>5, CallsAre DEF BlockTypes, BufIInv, new
<1>7. \A i \in 1 .. size : new[i] = mem[i]
  BY <1>2, <1>5
<1>8. Content' = Content
  BY <1>4, <1>6, <1>7, SameContent DEF BufIInv, new
<1>9. TailZero'
  BY <1>4, Zenon DEF TailZero
<1> QED
  BY <1>1, <1>6, <1>8, <1>9, Zenon DEF Done, Unmoved

LEMMA ClearDone == ASSUME BufIInv, stage = "apply", Clear PROVE Done
<1>1. call \in Calls /\ call.op = "clear" /\ call.n \in Nat /\ call.n < Word
  BY CallsAre DEF BufIInv, CallTypes, Clear
<1>2. string!Result(call) = <<>>
  BY <1>1 DEF string!Result
<1>3. CASE mem = <<>> \/ size = 0
  <2>1. UNCHANGED <<mem, size, cap, dirty>>
    BY <1>3, Zenon DEF Clear
  <2>2. size = 0
    BY <1>3 DEF BufIInv, BlockTypes
  <2>3. Content' = <<>>
    BY <2>1, <2>2, SubSeqEmpty DEF Content
  <2>4. BlockTypes' /\ TailZero'
    BY <2>1, Zenon DEF BufIInv, BlockTypes, TailZero
  <2> QED
    BY <1>2, <2>3, <2>4, Zenon DEF Done
<1>4. CASE ~ (mem = <<>> \/ size = 0)
  <2>1. /\ cap' = IF call.n > 1 /\ cap > call.n THEN call.n ELSE cap
        /\ mem' = Zeros(cap') /\ size' = 0 /\ dirty' = FALSE
    BY <1>4, Zenon DEF Clear
  <2>2. cap' \in 0 .. Word - 1 /\ cap' \in Nat
    BY <1>1, <2>1, CallsAre DEF BufIInv, BlockTypes
  <2>3. mem' \in Seq(Byte) /\ Len(mem') = cap' /\ \A i \in 1 .. cap' : mem'[i] = 0
    BY <2>1, <2>2, ZerosAre
  <2>4. 0 \in 0 .. MaxSize /\ 0 <= cap'
    BY <2>2, CallsAre
  <2>5. BlockTypes'
    BY <2>1, <2>2, <2>3, <2>4, Zenon DEF BlockTypes
  <2>6. TailZero'
    BY <2>1, <2>2, <2>3 DEF TailZero
  <2>7. Content' = <<>>
    BY <2>1, SubSeqEmpty DEF Content
  <2> QED
    BY <1>2, <2>5, <2>6, <2>7, Zenon DEF Done
<1> QED
  BY <1>3, <1>4

LEMMA ReinitDone == ASSUME BufIInv, stage = "apply", Reinit PROVE Done
<1>1. call \in Calls /\ call.op = "init" /\ call.n \in Nat /\ call.n < Word
  BY CallsAre DEF BufIInv, CallTypes, Reinit
<1>2. string!Result(call) = <<>>
  BY <1>1 DEF string!Result
<1>3. mem' = Zeros(call.n) /\ cap' = call.n /\ size' = 0 /\ dirty' = FALSE
  BY Zenon DEF Reinit
<1>4. mem' \in Seq(Byte) /\ Len(mem') = cap' /\ \A i \in 1 .. cap' : mem'[i] = 0
  BY <1>1, <1>3, ZerosAre
<1>5. 0 \in 0 .. MaxSize /\ 0 <= cap' /\ cap' \in 0 .. Word - 1
  BY <1>1, <1>3, CallsAre
<1>6. BlockTypes'
  BY <1>3, <1>4, <1>5, Zenon DEF BlockTypes
<1>7. TailZero'
  BY <1>3, <1>4, <1>5 DEF TailZero
<1>8. Content' = <<>>
  BY <1>3, SubSeqEmpty DEF Content
<1> QED
  BY <1>2, <1>6, <1>7, <1>8, Zenon DEF Done

\* realloc, in membuf_reserve and in membuf_trunc: the content, and zeros behind it.
LEMMA Reallocated ==
    ASSUME BlockTypes, NEW k \in Nat, size + k < Word,
           mem' = Content \o Zeros(k), cap' = size + k, size' = size, dirty' = FALSE
    PROVE  BlockTypes' /\ TailZero' /\ Content' = Content
<1> DEFINE c == Content
           z == Zeros(k)
           new == mem'
<1>1. /\ c \in Seq(Byte) /\ Len(c) = size
      /\ \A i \in 1 .. size : c[i] = mem[i]
  BY ContentIs
<1>2. z \in Seq(Byte) /\ Len(z) = k /\ \A i \in 1 .. k : z[i] = 0
  BY ZerosAre
<1>3. new = c \o z /\ size \in Nat
  BY DEF BlockTypes
<1> HIDE DEF c, z, new
<1>4. /\ new \in Seq(Byte) /\ Len(new) = size + k
      /\ \A i \in 1 .. size + k : new[i] = IF i <= size THEN c[i] ELSE z[i - size]
  BY <1>1, <1>2, <1>3, ConcatProperties
<1>5. BlockTypes'
  <2>1. cap' \in 0 .. Word - 1 /\ cap' = Len(new) /\ size' <= cap'
    BY <1>3, <1>4, CallsAre
  <2> QED
    BY <1>4, <2>1, Zenon DEF BlockTypes, new
<1>6. \A i \in 1 .. size : new[i] = mem[i]
  BY <1>1, <1>3, <1>4
<1>7. \A i \in size + 1 .. size + k : new[i] = 0
  BY <1>2, <1>3, <1>4
<1>8. TailZero'
  BY <1>4, <1>7 DEF TailZero, new
<1>9. Content' = Content
  BY <1>5, <1>6, SameContent DEF new
<1> QED
  BY <1>5, <1>8, <1>9

LEMMA TruncDone == ASSUME BufIInv, stage = "apply", Trunc PROVE Done
<1>1. call \in Calls /\ call.op = "trunc"
  BY CallsAre DEF BufIInv, CallTypes, Trunc
<1>2. string!Result(call) = Content
  BY <1>1 DEF string!Result
<1>3. CASE cap = size + 4
  <2>1. UNCHANGED <<mem, size, cap, dirty>>
    BY <1>3, Zenon DEF Trunc
  <2> QED
    BY <1>2, <2>1, Zenon DEF BufIInv, BlockTypes, TailZero, Content, Done
<1>4. CASE cap # size + 4
  <2>1. mem' = Content \o Zeros(4) /\ cap' = size + 4 /\ dirty' = FALSE /\ size' = size
    BY <1>4, Zenon DEF Trunc
  <2>2. size + 4 < Word /\ 4 \in Nat
    BY CallsAre DEF BufIInv, BlockTypes
  <2>3. BlockTypes' /\ TailZero' /\ Content' = Content
    BY <2>1, <2>2, Reallocated DEF BufIInv
  <2> QED
    BY <1>2, <2>3, Zenon DEF Done
<1> QED
  BY <1>3, <1>4

LEMMA RemoveDone == ASSUME BufIInv, stage = "apply", Remove PROVE Done
<1> DEFINE at == call.at
           n == call.n
           new == mem'
<1>1. call \in Calls /\ call.op = "remove" /\ at \in Nat /\ n \in Nat
  BY CallsAre DEF BufIInv, CallTypes, Remove
<1>2. /\ mem \in Seq(Byte) /\ size \in 0 .. Len(mem) /\ size \in Nat /\ cap = Len(mem)
      /\ size <= MaxSize
  BY DEF BufIInv, BlockTypes
<1>3. /\ Content \in Seq(Byte) /\ Len(Content) = size
      /\ \A i \in 1 .. size : Content[i] = mem[i]
  BY ContentIs DEF BufIInv
<1>4. string!Result(call) =
        IF at >= size THEN Content
        ELSE SubSeq(Content, 1, at) \o string!Behind(at + n)
  BY <1>1, <1>3 DEF string!Result
<1>5. CASE at >= size
  <2>1. UNCHANGED <<mem, size, cap, dirty>>
    BY <1>5, Zenon DEF Remove
  <2> QED
    BY <1>4, <1>5, <2>1, Zenon DEF BufIInv, BlockTypes, TailZero, Content, Done
<1>6. CASE ~ (at >= size)
  <2> DEFINE rest == SubSeq(mem, at + n + 1, size)
             one == Overwritten(mem, at, rest)
             left == Left(call)
             front == SubSeq(Content, 1, at)
             back == string!Behind(at + n)
  <2>1. /\ size' = left /\ new = Overwritten(one, left, <<0>>)
        /\ dirty' = TRUE /\ cap' = cap
    BY <1>6, Zenon DEF Remove
  <2>2. left = IF at + n >= size THEN at ELSE size - n
    BY DEF Left
  <2>0. back = SubSeq(Content, at + n + 1, size)
    BY <1>3 DEF string!Behind
  <2> HIDE DEF at, n, left, new, back, Content
  <2>3. left \in Nat /\ left <= size /\ at <= left /\ left - at <= Len(mem)
    BY <1>1, <1>2, <1>6, <2>2
  \* What memmove brings forward.
  <2>4. rest \in Seq(Byte) /\ Len(rest) = left - at /\ \A i \in 1 .. left - at : rest[i] = mem[at + n + i]
    <3>1. CASE at + n >= size
      <4>1. /\ rest \in Seq(Byte)
            /\ Len(rest) = IF at + n + 1 <= size THEN size - (at + n + 1) + 1 ELSE 0
        BY <1>1, <1>2, PartIs
      <4> HIDE DEF rest
      <4>2. left - at = 0 /\ Len(rest) = 0
        BY <1>1, <1>2, <2>2, <3>1, <4>1
      <4> QED
        BY <4>1, <4>2
    <3>2. CASE ~ (at + n >= size)
      <4>1. at + n \in Nat /\ at + n <= size
        BY <1>1, <1>2, <3>2
      <4>2. /\ rest \in Seq(Byte) /\ Len(rest) = size - (at + n)
            /\ \A i \in 1 .. size - (at + n) : rest[i] = mem[at + n + i]
        BY <1>2, <4>1, RestIs
      <4>3. size - (at + n) = left - at
        BY <1>1, <1>2, <2>2, <3>2
      <4> QED
        BY <4>2, <4>3
    <3> QED
      BY <3>1, <3>2
  <2>5. back \in Seq(Byte) /\ Len(back) = left - at /\ \A i \in 1 .. left - at : back[i] = mem[at + n + i]
    <3> HIDE DEF rest
    <3>1. CASE at + n >= size
      <4>1. back = <<>> /\ left - at = 0
        BY <1>1, <1>2, <2>0, <2>2, <3>1, SubSeqEmpty
      <4> QED
        BY <4>1
    <3>2. CASE ~ (at + n >= size)
      <4>1. at + n \in Nat /\ at + n <= size
        BY <1>1, <1>2, <3>2
      <4>2. /\ back \in Seq(Byte) /\ Len(back) = size - (at + n)
            /\ \A i \in 1 .. size - (at + n) : back[i] = Content[at + n + i]
        BY <1>2, <1>3, <2>0, <4>1, RestIs, SMTT(40)
      <4>3. size - (at + n) = left - at
        BY <1>1, <1>2, <2>2, <3>2
      <4>4. \A i \in 1 .. size - (at + n) : at + n + i \in 1 .. size
        BY <1>1, <1>2, <4>1
      <4> QED
        BY <1>3, <4>2, <4>3, <4>4
    <3> QED
      BY <3>1, <3>2
  <2> HIDE DEF rest
  <2>6. /\ one \in Seq(Byte) /\ Len(one) = Len(mem)
        /\ \A i \in 1 .. Len(mem) :
              one[i] = IF i > at /\ i <= at + Len(rest) THEN rest[i - at] ELSE mem[i]
    BY <1>1, <1>2, <2>4, OverwrittenIs
  <2> HIDE DEF one
  <2>7. /\ new \in Seq(Byte) /\ Len(new) = Len(mem)
        /\ \A i \in 1 .. Len(mem) : new[i] = IF i = left + 1 THEN 0 ELSE one[i]
    <3>1. <<0>> \in Seq(Byte) /\ Len(<<0>>) = 1 /\ <<0>>[1] = 0
      BY MembufAssumption
    <3>2. /\ new \in Seq(Byte) /\ Len(new) = Len(one)
          /\ \A i \in 1 .. Len(one) :
                new[i] = IF i > left /\ i <= left + Len(<<0>>) THEN <<0>>[i - left] ELSE one[i]
      BY <2>1, <2>3, <2>6, <3>1, OverwrittenIs
    <3>3. ASSUME NEW i \in 1 .. Len(mem)
          PROVE  new[i] = IF i = left + 1 THEN 0 ELSE one[i]
      <4>1. CASE i = left + 1
        BY <2>3, <2>6, <3>1, <3>2, <4>1
      <4>2. CASE i # left + 1
        <5>1. ~ (i > left /\ i <= left + Len(<<0>>))
          BY <2>3, <3>1, <4>2
        <5> QED
          BY <2>6, <3>2, <4>2, <5>1
      <4> QED
        BY <4>1, <4>2
    <3> QED
      BY <2>6, <3>2, <3>3
  <2>8. BlockTypes'
    <3>1. size' \in 0 .. MaxSize /\ size' <= cap' /\ cap' = Len(new)
      BY <1>2, <2>1, <2>3, <2>7, CallsAre
    <3> QED
      BY <2>1, <2>7, <3>1, Zenon DEF BufIInv, BlockTypes, new
  <2>9. TailZero'
    BY <2>1, Zenon DEF TailZero
  <2>10. /\ Content' \in Seq(Byte) /\ Len(Content') = left
         /\ \A i \in 1 .. left : Content'[i] = new[i]
    <3>1. left \in 0 .. Len(new)
      BY <1>2, <2>3, <2>7
    <3> QED
      BY <2>1, <2>7, <3>1, FrontIs DEF Content, new
  <2>11. front \in Seq(Byte) /\ Len(front) = at /\ \A i \in 1 .. at : front[i] = mem[i]
    <3>1. at \in 0 .. Len(Content)
      BY <1>1, <1>2, <1>3, <1>6
    <3>2. \A i \in 1 .. at : i \in 1 .. size
      BY <1>1, <1>2, <1>6
    <3> QED
      BY <1>3, <3>1, <3>2, FrontIs
  <2> HIDE DEF front
  <2>12. /\ front \o back \in Seq(Byte) /\ Len(front \o back) = left
         /\ \A i \in 1 .. left : (front \o back)[i] = IF i <= at THEN mem[i] ELSE mem[i + n]
    <3>1. /\ front \o back \in Seq(Byte) /\ Len(front \o back) = Len(front) + Len(back)
          /\ \A i \in 1 .. Len(front) + Len(back) :
               (front \o back)[i] = IF i <= Len(front) THEN front[i] ELSE back[i - Len(front)]
      BY <2>5, <2>11, ConcatProperties
    <3>2. Len(front) + Len(back) = left
      BY <1>1, <2>3, <2>5, <2>11
    <3>3. ASSUME NEW i \in 1 .. left
          PROVE  (front \o back)[i] = IF i <= at THEN mem[i] ELSE mem[i + n]
      <4>1. CASE i <= at
        BY <1>1, <2>3, <2>11, <3>1, <3>2, <4>1
      <4>2. CASE ~ (i <= at)
        <5>1. i - at \in 1 .. left - at /\ at + n + (i - at) = i + n
          BY <1>1, <2>3, <4>2
        <5>2. back[i - at] = mem[i + n]
          BY <2>5, <5>1
        <5> QED
          BY <1>1, <2>3, <2>11, <3>1, <3>2, <4>2, <5>2
      <4> QED
        BY <4>1, <4>2, Zenon
    <3> QED
      BY <3>1, <3>2, <3>3
  <2>13. \A i \in 1 .. left : new[i] = IF i <= at THEN mem[i] ELSE mem[i + n]
    <3> SUFFICES ASSUME NEW i \in 1 .. left
                 PROVE  new[i] = IF i <= at THEN mem[i] ELSE mem[i + n]
      OBVIOUS
    <3>1. new[i] = one[i] /\ i \in 1 .. Len(mem)
      BY <1>2, <2>3, <2>7
    <3>2. CASE i <= at
      BY <1>1, <2>3, <2>6, <3>1, <3>2
    <3>3. CASE i > at
      <4>1. i - at \in 1 .. left - at /\ at + n + (i - at) = i + n /\ i <= at + Len(rest)
        BY <1>1, <2>3, <2>4, <3>3
      <4>2. rest[i - at] = mem[i + n]
        BY <2>4, <4>1
      <4> QED
        BY <1>1, <2>6, <3>1, <3>3, <4>1, <4>2
    <3> QED
      BY <1>1, <2>3, <3>2, <3>3
  <2>14. Content' = front \o back
    <3>1. \A i \in 1 .. left : Content'[i] = (front \o back)[i]
      BY <2>10, <2>12, <2>13, Zenon
    <3> QED
      BY <2>10, <2>12, <3>1, SameBytes
  <2>15. Content' = string!Result(call)
    BY <1>4, <1>6, <2>14, Zenon DEF front, back
  <2> QED
    BY <2>8, <2>9, <2>15, Zenon DEF Done
<1> QED
  BY <1>5, <1>6

-----------------------------------------------------------------------------
(* The invariant is inductive.                                             *)

LEMMA ApplyDone == ASSUME BufIInv, Apply PROVE Done
  BY AppendDone, InsertDone, FormatDone, RemoveDone, ClearDone, TruncDone, ReinitDone, Zenon
     DEF Apply

\* What a call needs is within half the range, so no sum wraps.
LEMMA BeginHolds == ASSUME BufIInv, NEW c \in Calls, Begin(c) PROVE BufIInv' /\ call = string!NoCall
<1>1. /\ call = string!NoCall /\ call' = c /\ string!Allowed(c)
      /\ UNCHANGED <<mem, size, cap, dirty>>
      /\ IF Short(c) THEN stage' = "grow" /\ grown' = First(c)
         ELSE stage' = "apply" /\ UNCHANGED grown
  BY Zenon DEF Begin
<1>2. BlockTypes' /\ TailZero'
  BY <1>1, Zenon DEF BufIInv, BlockTypes, TailZero
<1>3. /\ size \in Nat /\ cap \in Nat /\ size <= cap /\ cap < Word /\ size <= MaxSize
      /\ grown \in 0 .. Word - 1
  BY CallsAre DEF BufIInv, BlockTypes, CallTypes
<1>4. /\ c.op \in Texts \cup {"remove", "clear", "init", "trunc"} /\ c # string!NoCall
      /\ Len(c.data) \in Nat /\ c.at \in Nat /\ Extra(c) \in Nat
  BY CallsAre, ExtraIs
<1>5. c.op \in Texts => size + Extra(c) <= MaxSize
  <2>1. Len(Content) = size
    BY ContentIs DEF BufIInv
  <2>2. c.op \in Texts => size + Len(c.data) < MaxSize
    BY <1>1, <2>1 DEF string!Allowed, Texts
  <2>3. c.op \in Texts => Extra(c) <= Len(c.data) + 1
    BY <1>4, ExtraIs DEF Texts
  <2> QED
    BY <1>3, <1>4, <2>2, <2>3, CallsAre
<1>6. c.op = "insert" => c.at < size
  <2>1. Len(Content) = size
    BY ContentIs DEF BufIInv
  <2> QED
    BY <1>1, <2>1 DEF string!Allowed
<1>7. grown' \in 0 .. Word - 1
  <2>1. First(c) \in 0 .. Word - 1
    BY <1>3, <1>4, CallsAre DEF First
  <2> QED
    BY <1>1, <1>3, <2>1
<1>8. ~ Short(c) => size + Extra(c) <= cap
  BY <1>3, <1>4 DEF Short
<1>9. Short(c) => c.op \in Texts
  BY <1>3, <1>4, ExtraIs DEF Short
<1>10. CallTypes'
  BY <1>1, <1>4, <1>7, Zenon DEF CallTypes
<1>11. Fits'
  <2>1. UNCHANGED <<mem, size, cap>> /\ call' = c /\ Extra(call)' = Extra(c)
    BY <1>1, Zenon DEF Extra
  <2>2. stage' \in {"grow", "apply"} /\ (stage' = "apply" => ~ Short(c)) /\ (stage' = "grow" => Short(c))
    BY <1>1
  <2> QED
    BY <1>5, <1>6, <1>8, <1>9, <2>1, <2>2, Zenon DEF Fits
<1> QED
  BY <1>1, <1>2, <1>10, <1>11, Zenon DEF BufIInv

LEMMA ReallocHolds == ASSUME BufIInv, Realloc PROVE BufIInv' /\ Content' = Content
<1>1. /\ stage = "grow" /\ grown >= Need(call) /\ mem' = Content \o Zeros(grown - size)
      /\ cap' = grown /\ stage' = "apply" /\ dirty' = FALSE
      /\ UNCHANGED <<size, call, grown>>
  BY Zenon DEF Realloc
<1>2. /\ call \in Calls /\ call.op \in Texts /\ size + Extra(call) <= MaxSize
      /\ call.op = "insert" => call.at < size
  BY <1>1 DEF BufIInv, CallTypes, Fits
<1>3. Extra(call) \in Nat /\ size \in Nat /\ grown \in 0 .. Word - 1
  BY <1>2, ExtraIs DEF BufIInv, BlockTypes, CallTypes
<1>4. Need(call) = size + Extra(call)
  <2> DEFINE need == size + Extra(call)
  <2>1. need \in Nat /\ Word \in Nat /\ need < Word
    BY <1>2, <1>3, CallsAre
  <2> HIDE DEF need
  <2>2. need % Word = need
    BY <2>1
  <2> QED
    BY <2>2 DEF Need, need
<1>5. grown - size \in Nat /\ size + (grown - size) = grown /\ grown < Word
  BY <1>1, <1>3, <1>4, CallsAre
<1>6. BlockTypes' /\ TailZero' /\ Content' = Content
  <2>1. cap' = size + (grown - size) /\ size + (grown - size) < Word
    BY <1>1, <1>5
  <2> QED
    BY <1>1, <1>5, <2>1, Reallocated DEF BufIInv
<1>7. CallTypes'
  BY <1>1, <1>2, CallsAre DEF BufIInv, CallTypes
<1>8. Fits'
  <2>1. Extra(call)' = Extra(call)
    BY <1>1, Zenon DEF Extra
  <2>2. size + Extra(call) <= grown
    BY <1>1, <1>4
  <2> QED
    BY <1>1, <1>2, <2>1, <2>2 DEF Fits
<1> QED
  BY <1>6, <1>7, <1>8, Zenon DEF BufIInv

LEMMA DoubleHolds == ASSUME BufIInv, Double PROVE BufIInv' /\ Content' = Content
<1>1. /\ grown' = (2 * grown) % Word /\ stage = "grow"
      /\ UNCHANGED <<mem, size, cap, call, stage, dirty>>
  BY Zenon DEF Double
<1>2. grown' \in 0 .. Word - 1
  BY <1>1, CallsAre DEF BufIInv, CallTypes
<1>3. CallTypes'
  BY <1>1, <1>2, Zenon DEF BufIInv, CallTypes
<1>4. Fits' /\ BlockTypes' /\ TailZero' /\ Content' = Content
  BY <1>1, Zenon DEF BufIInv, Fits, Extra, BlockTypes, TailZero, Content
<1> QED
  BY <1>3, <1>4, Zenon DEF BufIInv

LEMMA ApplyHolds == ASSUME BufIInv, Apply PROVE BufIInv'
<1>1. stage' = "none" /\ call' = string!NoCall /\ grown' = grown
  BY Zenon DEF Apply, Return
<1>2. CallTypes' /\ Fits'
  BY <1>1, Zenon DEF BufIInv, CallTypes, Fits
<1> QED
  BY <1>2, ApplyDone, Zenon DEF BufIInv, Done

LEMMA BufInductive == BufIInv /\ [BufNext]_bufVars => BufIInv'
<1> SUFFICES ASSUME BufIInv, [BufNext]_bufVars PROVE BufIInv'
  OBVIOUS
<1>1. CASE UNCHANGED bufVars
  BY <1>1, Zenon DEF bufVars, BufIInv, BlockTypes, CallTypes, Fits, Extra, TailZero
<1> QED
  BY <1>1, BeginHolds, ReallocHolds, DoubleHolds, ApplyHolds, Zenon DEF BufNext, Inside

\* What a step does to the content is what ByteString says of the call.
LEMMA BufMaps == ASSUME BufIInv, [BufNext]_bufVars PROVE [string!Next \/ NotAppended \/ Garbled]_<<Content, call>>
<1>1. CASE UNCHANGED bufVars
  BY <1>1, Zenon DEF bufVars, Content
<1>2. ASSUME NEW c \in Calls, Begin(c) PROVE [string!Next \/ NotAppended \/ Garbled]_<<Content, call>>
  <2>1. string!Begin(c)
    BY <1>2, Zenon DEF Begin, string!Begin, Content
  <2> QED
    BY <2>1, Zenon DEF string!Next
<1>3. CASE Realloc \/ Double
  <2>1. Content' = Content /\ call' = call
    BY <1>3, ReallocHolds, DoubleHolds, Zenon DEF Realloc, Double
  <2> QED
    BY <2>1, Zenon
<1>4. CASE Apply
  <2>1. call # string!NoCall /\ call' = string!NoCall
    <3>1. stage = "apply" /\ (stage = "none" <=> call = string!NoCall)
      BY <1>4, Zenon DEF Apply, BufIInv, CallTypes
    <3>2. call' = string!NoCall
      BY <1>4, Zenon DEF Apply, Return
    <3> QED
      BY <3>1, <3>2
  <2>2. Content' = string!Result(call) \/ Unmoved \/ Overlapped
    BY <1>4, ApplyDone, Zenon DEF Done
  <2>3. Content' = string!Result(call) => string!Return
    BY <2>1, Zenon DEF string!Return
  <2>4. Unmoved => NotAppended
    BY <2>1, Zenon DEF Unmoved, NotAppended
  <2>5. Overlapped => Garbled
    BY <2>1, Zenon DEF Overlapped, Garbled
  <2> QED
    BY <2>2, <2>3, <2>4, <2>5, Zenon DEF string!Next
<1> QED
  BY <1>1, <1>2, <1>3, <1>4, Zenon DEF BufNext, Inside

\* A fresh buffer is an empty sequence.
LEMMA StringInit == BufInit => string!Init
<1> SUFFICES ASSUME BufInit PROVE string!Init
  OBVIOUS
<1>1. size = 0 /\ call = string!NoCall
  BY DEF BufInit
<1>2. Content = <<>>
  BY <1>1, SubSeqEmpty DEF Content
<1> QED
  BY <1>1, <1>2, Zenon DEF string!Init

-----------------------------------------------------------------------------
(* The theorems.                                                           *)

\* The inductive invariant holds: what a call needs was seen to be within bounds when it
\* began (membuf.cpp:73-90).
THEOREM BufInvariance == BufSpec => []BufIInv
<1>1. BufInit => BufIInv
  BY BlockInit
<1>2. BufIInv /\ [BufNext]_bufVars => BufIInv'
  BY BufInductive
<1> QED
  BY <1>1, <1>2, PTL DEF BufSpec

\* The type invariant: sizes stay within their bounds and bytes are bytes, whatever
\* is inserted, moved and cut (membuf.cpp:73-181).
THEOREM MembufTypes == BufSpec => []BufTypeOK
<1>1. BufIInv => BufTypeOK
  BY Zenon DEF BufIInv, BlockTypes, CallTypes, BufTypeOK
<1> QED
  BY <1>1, BufInvariance, PTL

\* The capacity is that of the block, the content lies in it, and what a call writes
\* fits, the zero of membuf_remove included unless it removes nothing of a full block,
\* for every width of the sizes (membuf.cpp:73-90, 169-181).
THEOREM CapacityHolds == BufSpec => []CapacityHeld
<1>1. BufIInv => CapacityHeld
  <2> SUFFICES ASSUME BufIInv PROVE CapacityHeld
    OBVIOUS
  <2>1. stage = "apply" => size + Extra(call) <= cap
    BY DEF BufIInv, Fits
  <2>2. ASSUME stage = "apply", call.op = "remove", call.at < size
        PROVE  Left(call) < cap \/ (call.n = 0 /\ size = cap)
    <3>1. call \in Calls
      BY <2>2 DEF BufIInv, CallTypes
    <3>2. call.n \in Nat /\ call.at \in Nat /\ size \in Nat /\ cap \in Nat /\ size <= cap
      BY <3>1, CallsAre DEF BufIInv, BlockTypes
    <3> QED
      BY <2>2, <3>2 DEF Left
  <2> QED
    BY <2>1, <2>2, Zenon DEF BufIInv, BlockTypes, CapacityHeld
<1> QED
  BY <1>1, BufInvariance, PTL

\* Whatever follows the content is zero, so that a text put together by appends is
\* a C string (encode.cpp:68).
THEOREM TailStaysZero == BufSpec => []TailZero
<1>1. BufIInv => TailZero
  BY Zenon DEF BufIInv
<1> QED
  BY <1>1, BufInvariance, PTL

\* A membuf is the sequence of bytes membuf.h documents: every step of reserve, memcpy
\* and memmove is a step of ByteString or none, except for a formatted text, which is
\* not appended, and an insertion that overlaps what it moves (membuf.cpp:21-181).
THEOREM MembufIsString == BufSpec => ImplementsString
<1>1. BufInit => string!Init
  BY StringInit
<1>2. BufIInv /\ [BufNext]_bufVars => [string!Next \/ NotAppended \/ Garbled]_<<Content, call>>
  BY BufMaps
<1> QED
  BY <1>1, <1>2, BufInvariance, PTL DEF BufSpec, ImplementsString
=============================================================================
