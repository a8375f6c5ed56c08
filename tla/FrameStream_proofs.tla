------------------------- MODULE FrameStream_proofs -------------------------
(***************************************************************************)
(* Proofs about FrameCodec and FrameStream, for every length limit, every  *)
(* payload and every way to cut the stream.                                *)
(*                                                                         *)
(* The argument: a frame that a peer of the model writes is one the parser *)
(* can read (IsFrame, IsEmptyFrame); the parser needs all of its bytes, no *)
(* byte after it, and gives back what is in it (TakeWhole, TakePart).      *)
(* Path says that the bytes x are such frames and take a reader of the     *)
(* messages s from one position to another.  The invariant is that the     *)
(* unread bytes, in the handle, in the read under way and on the wire, are *)
(* a path from the position the reader has come to, to the end of what was *)
(* sent (Following), until an impossible length stops the parser (Stuck).  *)
(***************************************************************************)
EXTENDS FrameStream, SequenceTheorems, WellFoundedInduction, TLAPS

-----------------------------------------------------------------------------
(* Induction, over sets of numbers.                                        *)

LEMMA EveryNumber ==
    ASSUME NEW S, 0 \in S, \A n \in Nat : n \in S => n + 1 \in S
    PROVE  \A n \in Nat : n \in S
<1>1. SUFFICES ASSUME NEW m \in Nat, m \notin S PROVE FALSE
  OBVIOUS
<1> DEFINE T == {n \in Nat : n \notin S}
<1> DEFINE R == {ss \in Nat \X Nat : ss[1] < ss[2]}
<1>2. T \subseteq Nat /\ T # {}
  BY <1>1
<1>3. IsWellFoundedOn(R, Nat)
  BY NatLessThanWellFounded, Zenon DEF OpToRel
<1> HIDE DEF R
<1>4. PICK x \in T : \A y \in T : ~ (<<y, x>> \in R)
  BY <1>2, <1>3, WFMin, Zenon
<1>5. x \in Nat /\ x # 0
  BY <1>4
<1>6. x - 1 \in Nat /\ x - 1 < x
  BY <1>5
<1>7. <<x - 1, x>> \in R
  BY <1>5, <1>6 DEF R
<1>8. x - 1 \in S
  BY <1>4, <1>6, <1>7
<1>9. (x - 1) + 1 \in S
  BY <1>6, <1>8
<1> QED
  BY <1>4, <1>5, <1>9

LEMMA UpTo ==
    ASSUME NEW N \in Nat, NEW S, 0 \in S, \A n \in 0 .. N - 1 : n \in S => n + 1 \in S
    PROVE  \A n \in 0 .. N : n \in S
<1> DEFINE T == {n \in Nat : n <= N => n \in S}
<1>1. 0 \in T
  OBVIOUS
<1>2. \A n \in Nat : n \in T => n + 1 \in T
  OBVIOUS
<1>3. \A n \in Nat : n \in T
  <2> HIDE DEF T
  <2> QED
    BY <1>1, <1>2, EveryNumber
<1> QED
  BY <1>3

-----------------------------------------------------------------------------
(* The parts of a sequence of sequences, put together one after the other. *)

\* f[i] is made of the first i parts of s.
Sums(s, n, B, f) ==
    /\ f \in [0 .. n -> Seq(B)] /\ f[0] = <<>>
    /\ \A i \in 1 .. n : f[i] = f[i - 1] \o s[i]

LEMMA SumsExist ==
    ASSUME NEW B, NEW n \in Nat, NEW s \in [1 .. n -> Seq(B)]
    PROVE  \E f : Sums(s, n, B, f)
<1> DEFINE S == {k \in Nat : \E f : Sums(s, k, B, f)}
<1>1. 0 \in S
  <2>1. Sums(s, 0, B, [i \in 0 .. 0 |-> <<>>])
    BY DEF Sums
  <2> QED
    BY <2>1
<1>2. ASSUME NEW k \in 0 .. n - 1, k \in S PROVE k + 1 \in S
  <2>1. PICK f : Sums(s, k, B, f)
    BY <1>2
  <2> DEFINE x == f[k] \o s[k + 1]
  <2> DEFINE g == [i \in 0 .. k + 1 |-> IF i <= k THEN f[i] ELSE x]
  <2>2. k \in Nat /\ f[k] \in Seq(B) /\ s[k + 1] \in Seq(B)
    BY <1>2, <2>1 DEF Sums
  <2>3. x \in Seq(B)
    BY <2>2
  <2> HIDE DEF x
  <2>4. g \in [0 .. k + 1 -> Seq(B)] /\ g[0] = <<>>
    BY <2>1, <2>2, <2>3 DEF Sums
  <2>5. ASSUME NEW i \in 1 .. k + 1 PROVE g[i] = g[i - 1] \o s[i]
    <3>1. CASE i <= k
      <4>1. g[i] = f[i] /\ g[i - 1] = f[i - 1]
        BY <2>2, <2>5, <3>1
      <4>2. i \in 1 .. k
        BY <2>2, <2>5, <3>1
      <4>3. f[i] = f[i - 1] \o s[i]
        BY <2>1, <4>2, Zenon DEF Sums
      <4> QED
        BY <4>1, <4>3, Zenon
    <3>2. CASE i = k + 1
      <4>1. g[i] = x /\ g[i - 1] = f[k]
        BY <2>2, <3>2
      <4> QED
        BY <3>2, <4>1 DEF x
    <3>3. i <= k \/ i = k + 1
      BY <2>2, <2>5
    <3> QED
      BY <3>1, <3>2, <3>3, Zenon
  <2> HIDE DEF g
  <2>6. Sums(s, k + 1, B, g)
    BY <2>4, <2>5 DEF Sums
  <2> QED
    BY <2>2, <2>6
<1> HIDE DEF S
<1>3. \A k \in 0 .. n : k \in S
  BY <1>1, <1>2, UpTo
<1>4. n \in S
  BY <1>3
<1> QED
  BY <1>4 DEF S

LEMMA FlattenIs ==
    ASSUME NEW B, NEW s \in Seq(Seq(B)), NEW f, Sums(s, Len(s), B, f)
    PROVE  FlattenSeq(s) = f[Len(s)]
<1>0. Len(s) \in Nat /\ \A i \in 1 .. Len(s) : s[i] \in Seq(B)
  OBVIOUS
<1>1. CASE Len(s) = 0
  BY <1>1 DEF FlattenSeq, Sums
<1>2. CASE Len(s) # 0
  <2> DEFINE n == Len(s)
  <2> DEFINE Is(g) == g = [i \in 1 .. n |-> IF i = 1 THEN s[i] ELSE g[i - 1] \o s[i]]
  <2> DEFINE g0 == [i \in 1 .. n |-> f[i]]
  <2> DEFINE h == CHOOSE g : Is(g)
  <2>1. FlattenSeq(s) = h[n]
    BY <1>2 DEF FlattenSeq
  <2>2. n \in Nat /\ n # 0 /\ \A i \in 1 .. n : s[i] \in Seq(B)
    BY <1>0, <1>2
  <2>3. f[0] = <<>> /\ \A i \in 1 .. n : f[i] = f[i - 1] \o s[i]
    BY DEF Sums
  <2>4. f[1] = s[1]
    <3>0. 1 \in 1 .. n /\ 1 - 1 = 0
      BY <2>2
    <3>1. f[1] = f[0] \o s[1] /\ s[1] \in Seq(B)
      BY <2>2, <2>3, <3>0, Zenon
    <3> QED
      BY <2>3, <3>1, ConcatEmptySeq
  <2> HIDE DEF n
  <2>5. Is(g0)
    <3>1. ASSUME NEW i \in 1 .. n PROVE f[i] = IF i = 1 THEN s[i] ELSE g0[i - 1] \o s[i]
      <4>1. CASE i = 1
        BY <2>4, <4>1
      <4>2. CASE i # 1
        <5>1. g0[i - 1] = f[i - 1]
          BY <2>2, <3>1, <4>2
        <5> QED
          BY <2>3, <3>1, <4>2, <5>1
      <4> QED
        BY <4>1, <4>2
    <3>2. \A i \in 1 .. n : f[i] = IF i = 1 THEN s[i] ELSE g0[i - 1] \o s[i]
      BY <3>1
    <3> HIDE DEF g0
    <3>3. [i \in 1 .. n |-> f[i]] = [i \in 1 .. n |-> IF i = 1 THEN s[i] ELSE g0[i - 1] \o s[i]]
      BY <3>2
    <3> QED
      BY <3>3 DEF g0
  <2>6. Is(h)
    <3> HIDE DEF Is, g0
    <3> QED
      BY <2>5
  <2> HIDE DEF h
  <2>7. \A i \in 1 .. n : h[i] = IF i = 1 THEN s[i] ELSE h[i - 1] \o s[i]
    BY <2>6
  <2> DEFINE S == {k \in Nat : k = 0 \/ h[k] = f[k]}
  <2>8. 0 \in S
    OBVIOUS
  <2>9. ASSUME NEW k \in 0 .. n - 1, k \in S PROVE k + 1 \in S
    <3>0. k + 1 \in 1 .. n /\ (k + 1) - 1 = k /\ k \in Nat
      BY <2>2, <2>9, SMTT(40)
    <3>1. CASE k = 0
      <4>1. h[1] = s[1]
        BY <2>2, <2>7
      <4> QED
        BY <2>4, <3>0, <3>1, <4>1
    <3>2. CASE k # 0
      <4>1. h[k] = f[k] /\ k + 1 # 1
        BY <2>9, <3>0, <3>2
      <4>2. f[k + 1] = f[k] \o s[k + 1]
        BY <2>3, <3>0
      <4>3. h[k + 1] = h[k] \o s[k + 1]
        BY <2>7, <3>0, <4>1
      <4>4. h[k + 1] = f[k + 1]
        BY <4>1, <4>2, <4>3
      <4> QED
        BY <3>0, <4>4
    <3> QED
      BY <3>1, <3>2
  <2> HIDE DEF S
  <2>10. \A k \in 0 .. n : k \in S
    BY <2>2, <2>8, <2>9, UpTo
  <2>11. h[n] = f[n]
    BY <2>2, <2>10 DEF S
  <2> QED
    BY <2>1, <2>11 DEF n
<1> QED
  BY <1>1, <1>2

\* What the other lemmas start from.
LEMMA FlattenBy ==
    ASSUME NEW B, NEW s \in Seq(Seq(B)), NEW n, n = Len(s)
    PROVE  /\ n \in Nat /\ s \in [1 .. n -> Seq(B)]
           /\ \E f : Sums(s, n, B, f)
           /\ \A f : Sums(s, n, B, f) => FlattenSeq(s) = f[n]
<1>1. n \in Nat /\ s \in [1 .. n -> Seq(B)]
  BY LenProperties
<1>2. \E f : Sums(s, n, B, f)
  BY <1>1, SumsExist
<1> QED
  BY <1>1, <1>2, FlattenIs

\* Adjacent pieces of a sequence make up the piece that spans them.
LEMMA FlattenPieces ==
    ASSUME NEW B, NEW b \in Seq(B), NEW n \in Nat, NEW e \in [0 .. n -> 0 .. Len(b)],
           e[0] = 0, \A k \in 1 .. n : e[k - 1] <= e[k], NEW s \in Seq(Seq(B)), n = Len(s),
           \A k \in 1 .. n : s[k] = SubSeq(b, e[k - 1] + 1, e[k])
    PROVE  FlattenSeq(s) = SubSeq(b, 1, e[n])
<1> DEFINE F(x) == SubSeq(b, 1, x)
<1> DEFINE f == [k \in 0 .. n |-> F(e[k])]
<1>0. Len(b) \in Nat /\ \A i \in 1 .. Len(b) : b[i] \in B
  OBVIOUS
<1>1. F(0) = <<>> /\ \A x \in 0 .. Len(b) : F(x) \in Seq(B)
  BY <1>0, SubSeqProperties, SubSeqEmpty
<1>2. ASSUME NEW x \in 0 .. Len(b), NEW y \in x .. Len(b) PROVE F(y) = F(x) \o SubSeq(b, x + 1, y)
  BY <1>0, <1>2, ConcatAdjacentSubSeq
<1> HIDE DEF F
<1>3. f \in [0 .. n -> Seq(B)] /\ f[0] = <<>> /\ f[n] = F(e[n])
  BY <1>1
<1>4. ASSUME NEW k \in 1 .. n PROVE f[k] = f[k - 1] \o s[k]
  <2>0. k - 1 \in 0 .. n /\ k \in 0 .. n
    BY <1>4
  <2>1. /\ k - 1 \in 0 .. n /\ e[k - 1] \in 0 .. Len(b) /\ e[k] \in 0 .. Len(b)
        /\ e[k] \in e[k - 1] .. Len(b)
    <3>1. e[k - 1] \in 0 .. Len(b) /\ e[k] \in 0 .. Len(b)
      BY <2>0
    <3>2. e[k - 1] <= e[k]
      BY <1>4, Zenon
    <3> QED
      BY <1>0, <2>0, <3>1, <3>2
  <2>2. f[k] = F(e[k]) /\ f[k - 1] = F(e[k - 1])
    BY <1>4, <2>1
  <2> HIDE DEF f
  <2> QED
    BY <1>2, <1>4, <2>1, <2>2
<1> HIDE DEF f
<1>5. Sums(s, n, B, f)
  BY <1>3, <1>4 DEF Sums
<1>6. FlattenSeq(s) = f[n]
  BY <1>5, FlattenBy, SMTT(40)
<1> QED
  BY <1>3, <1>6 DEF F

-----------------------------------------------------------------------------
(* Frames.                                                                 *)

\* A frame that the parser takes as a whole.
IsFrame(b) ==
    /\ b \in Seq(Byte) /\ Len(b) >= 2
    /\ Len7(b[2]) # 0 /\ ~ BadLength(b)
    /\ PayloadLen(b) \in Nat /\ Len(b) = HeaderLen(b[2]) + PayloadLen(b)

Body(b) == Unmask(b, HeaderLen(b[2]), PayloadLen(b))

\* What a handle keeps of a frame that has not come whole.
Unfinished(x) ==
    \/ Len(x) < 2
    \/ /\ Len7(x[2]) # 0 /\ ~ BadLength(x)
       /\ Len(x) < HeaderLen(x[2]) \/ Len(x) < HeaderLen(x[2]) + PayloadLen(x)

\* What try_parse_protocol looks at.
Joined(h, data, all) == all = Begun(h) \o data

LEMMA BytesAre == \A x \in Byte : x \in Nat /\ x < 256
  BY DEF Byte

LEMMA SamePiece ==
    ASSUME NEW S, NEW a \in Seq(S), NEW b \in Seq(S), NEW m \in Nat \ {0}, NEW n \in Nat,
           n <= Len(a), n <= Len(b), \A i \in m .. n : a[i] = b[i]
    PROVE  SubSeq(a, m, n) = SubSeq(b, m, n)
<1>1. /\ \A i \in m .. n : a[i] \in S /\ b[i] \in S
      /\ Len(a) \in Nat /\ Len(b) \in Nat
  OBVIOUS
<1>2. /\ SubSeq(a, m, n) \in Seq(S) /\ Len(SubSeq(a, m, n)) = (IF m <= n THEN n - m + 1 ELSE 0)
      /\ \A i \in 1 .. n - m + 1 : SubSeq(a, m, n)[i] = a[m + i - 1]
  BY <1>1, SubSeqProperties
<1>3. /\ SubSeq(b, m, n) \in Seq(S) /\ Len(SubSeq(b, m, n)) = (IF m <= n THEN n - m + 1 ELSE 0)
      /\ \A i \in 1 .. n - m + 1 : SubSeq(b, m, n)[i] = b[m + i - 1]
  BY <1>1, SubSeqProperties
<1>4. \A i \in 1 .. n - m + 1 : a[m + i - 1] = b[m + i - 1]
  BY <1>1
<1>5. \A i \in 1 .. Len(SubSeq(a, m, n)) : SubSeq(a, m, n)[i] = SubSeq(b, m, n)[i]
  BY <1>2, <1>3, <1>4
<1> QED
  BY <1>2, <1>3, <1>5, SeqEqual

LEMMA ByteFacts ==
    ASSUME NEW b \in Byte
    PROVE  /\ HighBit(b) \in {0, 1} /\ Len7(b) \in 0 .. 127 /\ OpCode(b) \in 0 .. 15
           /\ ExtLen(b) = (IF Len7(b) = 126 THEN 2 ELSE IF Len7(b) = 127 THEN 8 ELSE 0)
           /\ HeaderLen(b) = 2 + ExtLen(b) + (IF HighBit(b) = 1 THEN 4 ELSE 0)
<1>1. HighBit(b) \in {0, 1} /\ Len7(b) \in 0 .. 127 /\ OpCode(b) \in 0 .. 15
  BY DEF Byte, HighBit, Len7, OpCode
<1> QED
  BY <1>1 DEF HeaderLen, ExtLen

\* The length of the payload is told by the header.
LEMMA PayloadFacts ==
    ASSUME NEW b \in Seq(Byte), Len(b) >= 2, Len(b) >= HeaderLen(b[2])
    PROVE  /\ b[2] \in Byte /\ HeaderLen(b[2]) \in 2 .. 14 /\ PayloadLen(b) \in Nat
           /\ PayloadLen(b) = IF Len7(b[2]) = 126 THEN 256 * b[3] + b[4]
                              ELSE IF Len7(b[2]) = 127
                              THEN 256 * (256 * (256 * b[7] + b[8]) + b[9]) + b[10]
                              ELSE Len7(b[2])
<1>1. \A i \in 1 .. Len(b) : b[i] \in Byte
  OBVIOUS
<1>2. b[2] \in Byte
  BY <1>1
<1>3. HeaderLen(b[2]) \in 2 .. 14
  BY <1>2, ByteFacts
<1>4. PayloadLen(b) = IF Len7(b[2]) = 126 THEN 256 * b[3] + b[4]
                      ELSE IF Len7(b[2]) = 127
                      THEN 256 * (256 * (256 * b[7] + b[8]) + b[9]) + b[10]
                      ELSE Len7(b[2])
  BY DEF PayloadLen
<1>5. CASE Len7(b[2]) = 126
  <2>1. Len(b) >= 4
    BY <1>2, <1>5, ByteFacts
  <2>2. b[3] \in Nat /\ b[4] \in Nat
    BY <1>1, <2>1, BytesAre
  <2>3. PayloadLen(b) = 256 * b[3] + b[4]
    BY <1>4, <1>5
  <2>4. PayloadLen(b) \in Nat
    BY <2>2, <2>3
  <2> QED
    BY <1>2, <1>3, <1>4, <2>4, Zenon
<1>6. CASE Len7(b[2]) = 127
  <2>1. Len(b) >= 10
    BY <1>2, <1>6, ByteFacts
  <2>2. b[7] \in Nat /\ b[8] \in Nat /\ b[9] \in Nat /\ b[10] \in Nat
    BY <1>1, <2>1, BytesAre, SMTT(40)
  <2>3. PayloadLen(b) = 256 * (256 * (256 * b[7] + b[8]) + b[9]) + b[10]
    BY <1>4, <1>6
  <2>4. PayloadLen(b) \in Nat
    <3>1. PICK m \in Nat : m = 256 * b[7] + b[8]
      BY <2>2
    <3>2. PICK n \in Nat : n = 256 * m + b[9]
      BY <2>2
    <3>3. PayloadLen(b) = 256 * n + b[10]
      BY <2>3, <3>1, <3>2, Zenon
    <3> QED
      BY <2>2, <3>3
  <2> QED
    BY <1>2, <1>3, <1>4, <2>4, Zenon
<1>7. CASE Len7(b[2]) # 126 /\ Len7(b[2]) # 127
  <2>1. PayloadLen(b) = Len7(b[2]) /\ Len7(b[2]) \in 0 .. 127
    BY <1>2, <1>4, <1>7, ByteFacts
  <2>2. PayloadLen(b) \in Nat
    <3>1. \A i \in 0 .. 127 : i \in Nat
      OBVIOUS
    <3> QED
      BY <2>1, <3>1, Zenon
  <2> QED
    BY <1>2, <1>3, <1>4, <2>2, Zenon
<1> QED
  BY <1>5, <1>6, <1>7

\* Two sequences that begin with the same header announce the same frame.
LEMMA SameHeader ==
    ASSUME NEW a \in Seq(Byte), NEW b \in Seq(Byte), Len(b) >= 2,
           Len(a) >= HeaderLen(b[2]), Len(b) >= HeaderLen(b[2]),
           \A i \in 1 .. HeaderLen(b[2]) : a[i] = b[i]
    PROVE  PayloadLen(a) = PayloadLen(b) /\ (BadLength(a) <=> BadLength(b))
<1>1. b[2] \in Byte /\ HeaderLen(b[2]) \in 2 .. 14
  BY PayloadFacts
<1>2. a[2] = b[2] /\ a[1] = b[1]
  BY <1>1
<1>3. CASE Len7(b[2]) = 126
  <2>1. HeaderLen(b[2]) >= 4
    BY <1>1, <1>3, ByteFacts
  <2>2. a[3] = b[3] /\ a[4] = b[4]
    BY <1>1, <2>1
  <2> QED
    BY <1>2, <1>3, <2>2 DEF PayloadLen, BadLength
<1>4. CASE Len7(b[2]) = 127
  <2>1. HeaderLen(b[2]) >= 10
    BY <1>1, <1>4, ByteFacts
  <2>2. a[7] = b[7] /\ a[8] = b[8] /\ a[9] = b[9] /\ a[10] = b[10]
    BY <1>1, <2>1
  <2>3. Len(a) >= 6 /\ Len(b) >= 6 /\ \A k \in 3 .. 6 : a[k] = b[k]
    BY <1>1, <2>1
  <2>4. PayloadLen(a) = PayloadLen(b)
    BY <1>2, <1>4, <2>2 DEF PayloadLen
  <2>5. BadLength(a) <=> BadLength(b)
    <3>1. (\E k \in 3 .. 6 : a[k] # 0) <=> (\E k \in 3 .. 6 : b[k] # 0)
      BY <2>3
    <3> QED
      BY <1>2, <2>3, <3>1 DEF BadLength
  <2> QED
    BY <2>4, <2>5
<1>5. CASE Len7(b[2]) # 126 /\ Len7(b[2]) # 127
  BY <1>2, <1>5 DEF PayloadLen, BadLength
<1> QED
  BY <1>3, <1>4, <1>5

LEMMA FrameFacts ==
    ASSUME NEW b, IsFrame(b)
    PROVE  /\ b \in Seq(Byte) /\ Len(b) \in Nat /\ Len(b) >= 2 /\ b[1] \in Byte /\ b[2] \in Byte
           /\ HeaderLen(b[2]) \in 2 .. 14 /\ PayloadLen(b) \in Nat
           /\ Len(b) = HeaderLen(b[2]) + PayloadLen(b) /\ Len7(b[2]) # 0 /\ ~ BadLength(b)
<1>1. b \in Seq(Byte) /\ Len(b) \in Nat /\ Len(b) >= 2 /\ b[1] \in Byte /\ b[2] \in Byte
  BY DEF IsFrame
<1>2. HeaderLen(b[2]) \in 2 .. 14
  BY <1>1, ByteFacts
<1> QED
  BY <1>1, <1>2 DEF IsFrame

\* What try_parse_protocol makes of a frame that has come whole.
LEMMA ParseWhole ==
    ASSUME NEW b, IsFrame(b), NEW h, NEW data, NEW all \in Seq(Byte), Joined(h, data, all),
           Len(b) <= Len(all), \A i \in 1 .. Len(b) : all[i] = b[i]
    PROVE  TryParse(h, data) = [state |-> "complete", buf |-> Body(b),
                                used |-> Len(b) - Len(Begun(h)),
                                fin |-> HighBit(b[1]), op |-> OpCode(b[1])]
<1> DEFINE hdr == HeaderLen(b[2])
<1> DEFINE n == PayloadLen(b)
<1>1. /\ Len(b) \in Nat /\ Len(all) \in Nat /\ Len(b) <= Len(all) /\ Len(b) >= 2
      /\ \A i \in 1 .. Len(b) : all[i] = b[i]
      /\ b \in Seq(Byte) /\ Len7(b[2]) # 0 /\ ~ BadLength(b)
      /\ hdr \in 2 .. 14 /\ n \in Nat /\ Len(b) = hdr + n /\ b[2] \in Byte
  BY FrameFacts
<1>1a. hdr = HeaderLen(b[2]) /\ n = PayloadLen(b)
  OBVIOUS
<1> HIDE DEF hdr, n
<1>2. all[1] = b[1] /\ all[2] = b[2]
  BY <1>1
<1>3. PayloadLen(all) = n /\ ~ BadLength(all) /\ HeaderLen(all[2]) = hdr
  <2>1. Len(all) >= hdr /\ Len(b) >= hdr /\ \A i \in 1 .. hdr : all[i] = b[i]
    <3>1. Len(all) >= hdr /\ Len(b) >= hdr
      BY <1>1
    <3>2. \A i \in 1 .. hdr : i \in 1 .. Len(b)
      BY <1>1, <3>1, SMTT(40)
    <3> QED
      BY <1>1, <3>1, <3>2, Zenon
  <2>2. PayloadLen(all) = PayloadLen(b) /\ (BadLength(all) <=> BadLength(b))
    BY <1>1, <1>1a, <2>1, SameHeader
  <2> QED
    BY <1>1, <1>1a, <1>2, <2>2
<1>4. Unmask(all, hdr, n) = Body(b)
  <2>1. SubSeq(all, hdr + 1, hdr + n) = SubSeq(b, hdr + 1, hdr + n)
    <3>1. \A i \in hdr + 1 .. hdr + n : all[i] = b[i]
      BY <1>1
    <3> QED
      BY <1>1, <3>1, SamePiece
  <2>2. CASE HighBit(b[2]) = 1
    <3>1. hdr - 3 >= 1
      BY <1>1, <1>1a, <2>2, ByteFacts, SMTT(40)
    <3>2. SubSeq(all, hdr - 3, hdr) = SubSeq(b, hdr - 3, hdr)
      <4>1. \A i \in hdr - 3 .. hdr : all[i] = b[i]
        BY <1>1, <3>1
      <4>2. hdr - 3 \in Nat \ {0} /\ hdr \in Nat /\ hdr <= Len(b) /\ hdr <= Len(all)
        BY <1>1, <3>1
      <4> QED
        BY <1>1, <4>1, <4>2, SamePiece
    <3> QED
      BY <1>1a, <1>2, <2>1, <2>2, <3>2 DEF Unmask, Body
  <2>3. CASE HighBit(b[2]) # 1
    BY <1>1a, <1>2, <2>1, <2>3 DEF Unmask, Body
  <2> QED
    BY <2>2, <2>3
<1>5. (hdr + n) - hdr = n /\ ~ (Len(all) < 2) /\ ~ (Len(all) < hdr \/ Len(all) < hdr + n)
  BY <1>1
<1>6. TryParse(h, data) = Parsed("complete", Unmask(all, hdr, n), hdr + n - Len(Begun(h)), all)
  BY <1>1, <1>2, <1>3, <1>5 DEF TryParse, Joined
<1> QED
  BY <1>1, <1>2, <1>4, <1>6 DEF Parsed

\* And of one that has not.
LEMMA ParsePart ==
    ASSUME NEW b, IsFrame(b), NEW h, NEW data, NEW all \in Seq(Byte), Joined(h, data, all),
           Len(all) < Len(b), \A i \in 1 .. Len(all) : all[i] = b[i]
    PROVE  /\ TryParse(h, data) = Parsed("incomplete", all, Len(data), all)
           /\ Unfinished(all)
<1> DEFINE hdr == HeaderLen(b[2])
<1>1. /\ Len(b) \in Nat /\ Len(all) \in Nat /\ Len(all) < Len(b) /\ Len(b) >= 2
      /\ \A i \in 1 .. Len(all) : all[i] = b[i]
      /\ b \in Seq(Byte) /\ Len7(b[2]) # 0 /\ ~ BadLength(b)
      /\ hdr \in 2 .. 14 /\ PayloadLen(b) \in Nat /\ Len(b) = hdr + PayloadLen(b) /\ b[2] \in Byte
  BY FrameFacts
<1>1a. hdr = HeaderLen(b[2])
  OBVIOUS
<1> HIDE DEF hdr
<1>2. CASE Len(all) < 2
  BY <1>2 DEF TryParse, Joined, Unfinished
<1>3. CASE Len(all) >= 2
  <2>1. all[2] = b[2] /\ ~ (Len(all) < 2)
    BY <1>1, <1>3
  <2>2. ~ BadLength(all)
    <3>1. CASE Len(all) >= 6
      <4>1. Len(b) >= 6 /\ \A k \in 3 .. 6 : all[k] = b[k]
        BY <1>1, <3>1
      <4> QED
        BY <1>1, <2>1, <3>1, <4>1 DEF BadLength
    <3>2. CASE ~ (Len(all) >= 6)
      BY <3>2 DEF BadLength
    <3> QED
      BY <3>1, <3>2
  <2>3. Len(all) < hdr \/ Len(all) < hdr + PayloadLen(all)
    <3>1. CASE Len(all) >= hdr
      <4>1. PayloadLen(all) = PayloadLen(b)
        <5>1. Len(b) >= hdr /\ \A i \in 1 .. hdr : all[i] = b[i]
          BY <1>1, <3>1, SMTT(40)
        <5> QED
          BY <1>1, <1>1a, <3>1, <5>1, SameHeader
      <4> QED
        BY <1>1, <4>1
    <3>2. CASE ~ (Len(all) >= hdr)
      BY <1>1, <3>2
    <3> QED
      BY <3>1, <3>2
  <2> QED
    BY <1>1, <1>1a, <2>1, <2>2, <2>3 DEF TryParse, Joined, Unfinished
<1> QED
  BY <1>1, <1>2, <1>3

\* A handle does not keep a whole frame.
LEMMA UnfinishedShort ==
    ASSUME NEW b, IsFrame(b), NEW x \in Seq(Byte), Unfinished(x),
           \A i \in 1 .. Len(b) : i <= Len(x) => x[i] = b[i]
    PROVE  Len(x) < Len(b)
<1> DEFINE hdr == HeaderLen(b[2])
<1>1. /\ Len(b) \in Nat /\ Len(x) \in Nat /\ Len(b) >= 2
      /\ b \in Seq(Byte) /\ hdr \in 2 .. 14 /\ PayloadLen(b) \in Nat /\ Len(b) = hdr + PayloadLen(b)
  BY FrameFacts
<1>1a. hdr = HeaderLen(b[2])
  OBVIOUS
<1> HIDE DEF hdr
<1>2. SUFFICES ASSUME Len(x) >= Len(b) PROVE FALSE
  BY <1>1
<1>3. \A i \in 1 .. Len(b) : x[i] = b[i]
  BY <1>1, <1>2
<1>4. x[2] = b[2] /\ Len(x) >= hdr
  BY <1>1, <1>2, <1>3
<1>5. PayloadLen(x) = PayloadLen(b)
  <2> DEFINE m == Len(b)
  <2> DEFINE n == PayloadLen(b)
  <2>1. m \in Nat /\ n \in Nat /\ hdr \in 2 .. 14 /\ m = hdr + n
    BY <1>1, Zenon
  <2>m. m = Len(b)
    OBVIOUS
  <2> HIDE DEF m, n
  <2>2. m >= hdr /\ \A i \in 1 .. hdr : i \in 1 .. m
    BY <2>1
  <2>3. Len(b) >= hdr /\ \A i \in 1 .. hdr : x[i] = b[i]
    BY <1>3, <2>2, <2>m, Zenon
  <2> QED
    BY <1>1, <1>1a, <1>4, <2>3, SameHeader
<1> QED
  BY <1>1, <1>1a, <1>2, <1>4, <1>5 DEF Unfinished

\* The two ends of a frame: a header that ends with the length, and the rest.
Sealed(H, data, mask) == H \o (IF mask = 1 THEN Mask \o Masked(data, Mask) ELSE data)

LEMMA MaskFacts == Mask \in Seq(Byte) /\ Len(Mask) = 4
  BY DEF Mask, Byte

LEMMA MaskedFacts ==
    ASSUME NEW data \in Seq(Byte)
    PROVE  /\ Masked(data, Mask) \in Seq(Byte) /\ Len(Masked(data, Mask)) = Len(data)
           /\ Masked(Masked(data, Mask), Mask) = data
<1> DEFINE key(i) == ((i - 1) % 4) + 1
<1> DEFINE x == Masked(data, Mask)
<1> DEFINE n == Len(data)
<1>1. n \in Nat /\ data \in [1 .. n -> Byte] /\ \A i \in 1 .. n : data[i] \in Byte /\ key(i) \in 1 .. 4
  <2>1. n \in Nat /\ data \in [1 .. n -> Byte] /\ \A i \in 1 .. n : data[i] \in Byte
    OBVIOUS
  <2>2. \A i \in 1 .. n : key(i) \in 1 .. 4
    BY <2>1
  <2> QED
    BY <2>1, <2>2
<1>2. /\ \A c \in Byte, k \in 1 .. 4 : XorByte(c, Mask[k]) \in Byte
      /\ \A c \in Byte, k \in 1 .. 4 : XorByte(XorByte(c, Mask[k]), Mask[k]) = c
  BY CodecAssumption, SMT
<1>3. x = [i \in 1 .. n |-> XorByte(data[i], Mask[key(i)])]
  BY DEF Masked
<1> HIDE DEF key, x
<1>4. \A i \in 1 .. n : XorByte(data[i], Mask[key(i)]) \in Byte
  BY <1>1, <1>2, Zenon
<1>5. x \in [1 .. n -> Byte]
  BY <1>3, <1>4, Zenon
<1>6. x \in Seq(Byte) /\ Len(x) = n
  <2> HIDE DEF n
  <2> QED
    BY <1>1, <1>5
<1>7. Masked(x, Mask) = [i \in 1 .. n |-> XorByte(x[i], Mask[key(i)])]
  BY <1>6 DEF Masked, key
<1> HIDE DEF n
<1>8. \A i \in 1 .. n : XorByte(x[i], Mask[key(i)]) = data[i]
  <2>1. \A i \in 1 .. n : x[i] = XorByte(data[i], Mask[key(i)])
    BY <1>3, Zenon
  <2> QED
    BY <1>1, <1>2, <2>1, Zenon
<1>9. [i \in 1 .. n |-> XorByte(x[i], Mask[key(i)])] = [i \in 1 .. n |-> data[i]]
  BY <1>8, Zenon
<1>10. data = [i \in 1 .. n |-> data[i]]
  BY <1>1, Zenon
<1> QED
  BY <1>6, <1>7, <1>9, <1>10, Zenon DEF x, n

\* What concatenation does, piece by piece.
LEMMA PieceFacts ==
    ASSUME NEW S, NEW x \in Seq(S), NEW y \in Seq(S)
    PROVE  /\ SubSeq(x \o y, 1, Len(x)) = x
           /\ SubSeq(x \o y, Len(x) + 1, Len(x) + Len(y)) = y
<1> DEFINE m == Len(x)
<1> DEFINE n == Len(y)
<1> DEFINE z == x \o y
<1>1. /\ z \in Seq(S) /\ m \in Nat /\ n \in Nat /\ Len(z) = m + n
      /\ \A i \in 1 .. m + n : z[i] = IF i <= m THEN x[i] ELSE y[i - m]
      /\ m = Len(x) /\ n = Len(y)
  BY ConcatProperties
<1>2. \A i \in 1 .. m + n : z[i] \in S
  BY <1>1
<1> HIDE DEF z, m, n
<1>3. SubSeq(z, 1, m) = x
  <2>1. /\ SubSeq(z, 1, m) \in Seq(S) /\ Len(SubSeq(z, 1, m)) = m
        /\ \A i \in 1 .. m : SubSeq(z, 1, m)[i] = z[i]
    BY <1>1, <1>2, SubSeqProperties
  <2>2. \A i \in 1 .. m : SubSeq(z, 1, m)[i] = x[i]
    BY <1>1, <2>1
  <2> QED
    BY <1>1, <2>1, <2>2, SeqEqual
<1>4. SubSeq(z, m + 1, m + n) = y
  <2>1. /\ SubSeq(z, m + 1, m + n) \in Seq(S) /\ Len(SubSeq(z, m + 1, m + n)) = n
        /\ \A i \in 1 .. n : SubSeq(z, m + 1, m + n)[i] = z[m + i]
    <3>1. \A i \in m + 1 .. m + n : z[i] \in S
      BY <1>1, <1>2
    <3>2. /\ SubSeq(z, m + 1, m + n) \in Seq(S)
          /\ Len(SubSeq(z, m + 1, m + n)) = (IF m + 1 <= m + n THEN (m + n) - (m + 1) + 1 ELSE 0)
          /\ \A i \in 1 .. (m + n) - (m + 1) + 1 : SubSeq(z, m + 1, m + n)[i] = z[(m + 1) + i - 1]
      BY <1>1, <3>1, SubSeqProperties
    <3>3. (m + n) - (m + 1) + 1 = n /\ \A i \in 1 .. n : (m + 1) + i - 1 = m + i
      BY <1>1
    <3>4. Len(SubSeq(z, m + 1, m + n)) = n
      BY <1>1, <3>2
    <3>5. \A i \in 1 .. n : SubSeq(z, m + 1, m + n)[i] = z[m + i]
      BY <3>2, <3>3
    <3> QED
      BY <3>2, <3>4, <3>5
  <2>2. \A i \in 1 .. n : SubSeq(z, m + 1, m + n)[i] = y[i]
    <3>1. \A i \in 1 .. n : m + i \in 1 .. m + n /\ ~ (m + i <= m) /\ (m + i) - m = i
      BY <1>1
    <3> QED
      BY <1>1, <2>1, <3>1
  <2> QED
    BY <1>1, <2>1, <2>2, SeqEqual
<1> QED
  BY <1>3, <1>4 DEF z, m, n

LEMMA Concats ==
    \A x, y \in Seq(Byte) : /\ x \o y \in Seq(Byte) /\ Len(x \o y) = Len(x) + Len(y)
                            /\ \A i \in 1 .. Len(x) : (x \o y)[i] = x[i]
                            /\ \A i \in Len(x) + 1 .. Len(x) + Len(y) : (x \o y)[i] = y[i - Len(x)]
<1> SUFFICES ASSUME NEW x \in Seq(Byte), NEW y \in Seq(Byte)
             PROVE  /\ x \o y \in Seq(Byte) /\ Len(x \o y) = Len(x) + Len(y)
                    /\ \A i \in 1 .. Len(x) : (x \o y)[i] = x[i]
                    /\ \A i \in Len(x) + 1 .. Len(x) + Len(y) : (x \o y)[i] = y[i - Len(x)]
  BY Zenon
<1>1. /\ x \o y \in Seq(Byte) /\ Len(x \o y) = Len(x) + Len(y) /\ Len(x) \in Nat /\ Len(y) \in Nat
      /\ \A i \in 1 .. Len(x) + Len(y) : (x \o y)[i] = IF i <= Len(x) THEN x[i] ELSE y[i - Len(x)]
  BY ConcatProperties
<1> QED
  BY <1>1

LEMMA Associates == \A x, y, z \in Seq(Byte) : (x \o y) \o z = x \o (y \o z)
  BY ConcatAssociative

\* A header and what follows it, however the length is written.
LEMMA SealedFrame ==
    ASSUME NEW H \in Seq(Byte), NEW data \in Seq(Byte), NEW mask \in 0 .. 1,
           Len(H) >= 2, Len(H) = 2 + ExtLen(H[2]), HighBit(H[2]) = mask, Len7(H[2]) # 0,
           ~ BadLength(H), PayloadLen(H) = Len(data)
    PROVE  /\ IsFrame(Sealed(H, data, mask)) /\ Body(Sealed(H, data, mask)) = data
           /\ Sealed(H, data, mask)[1] = H[1]
<1> DEFINE rest == IF mask = 1 THEN Mask \o Masked(data, Mask) ELSE data
<1> DEFINE b == H \o rest
<1> DEFINE h == Len(H)
<1> DEFINE n == Len(data)
<1>1. /\ rest \in Seq(Byte) /\ n \in Nat /\ h \in Nat /\ h >= 2
      /\ Len(rest) = n + (IF mask = 1 THEN 4 ELSE 0)
  <2>1. CASE mask = 1
    <3>1. rest = Mask \o Masked(data, Mask)
      BY <2>1
    <3>2. rest \in Seq(Byte) /\ Len(rest) = Len(Mask) + Len(Masked(data, Mask))
      BY <3>1, MaskFacts, MaskedFacts, Concats, Zenon
    <3> QED
      BY <2>1, <3>2, MaskFacts, MaskedFacts
  <2>2. CASE mask # 1
    BY <2>2
  <2> QED
    BY <2>1, <2>2
<1>2. /\ b \in Seq(Byte) /\ Len(b) = h + Len(rest)
      /\ \A i \in 1 .. h : b[i] = H[i]
  <2> HIDE DEF rest
  <2> QED
    BY <1>1, Concats, Zenon
<1>3. SubSeq(b, h + 1, h + Len(rest)) = rest
  BY <1>1, PieceFacts
<1>4. mask = 1 => SubSeq(b, h + 1, h + 4) = Mask /\ SubSeq(b, h + 4 + 1, h + 4 + n) = Masked(data, Mask)
  <2> SUFFICES ASSUME mask = 1 PROVE SubSeq(b, h + 1, h + 4) = Mask /\ SubSeq(b, h + 4 + 1, h + 4 + n) = Masked(data, Mask)
    OBVIOUS
  <2> DEFINE x == Masked(data, Mask)
  <2>1. x \in Seq(Byte) /\ Len(x) = n /\ Mask \in Seq(Byte) /\ Len(Mask) = 4
    BY MaskFacts, MaskedFacts
  <2>2. b = H \o (Mask \o x)
    OBVIOUS
  <2> HIDE DEF x, rest, b
  <2>3. b = (H \o Mask) \o x /\ H \o Mask \in Seq(Byte) /\ Len(H \o Mask) = h + 4
    <3>1. H \o Mask \in Seq(Byte) /\ Len(H \o Mask) = Len(H) + Len(Mask)
      BY <2>1, Concats, Zenon
    <3>2. H \o Mask \in Seq(Byte) /\ Len(H \o Mask) = h + 4
      BY <2>1, <3>1, Zenon
    <3>3. (H \o Mask) \o x = H \o (Mask \o x)
      BY <2>1, Associates, Zenon
    <3> QED
      BY <2>2, <3>2, <3>3, Zenon
  <2>4. SubSeq(b, h + 4 + 1, h + 4 + n) = x
    <3> DEFINE y == H \o Mask
    <3> HIDE DEF y
    <3>1. y \in Seq(Byte) /\ b = y \o x /\ Len(y) = h + 4
      BY <2>3 DEF y
    <3>2. SubSeq(y \o x, Len(y) + 1, Len(y) + Len(x)) = x
      BY <2>1, <3>1, PieceFacts
    <3> QED
      BY <2>1, <3>1, <3>2, Zenon
  <2>5. SubSeq(b, h + 1, h + 4) = Mask
    <3> DEFINE y == H \o Mask
    <3>0. y = H \o Mask
      OBVIOUS
    <3> HIDE DEF y
    <3>1. /\ y \in Seq(Byte) /\ Len(y) = h + 4 /\ b = y \o x
          /\ Len(b) \in Nat /\ Len(b) = h + 4 + n /\ b \in Seq(Byte)
          /\ \A i \in 1 .. h + 4 : b[i] = y[i]
      <4>2. y \in Seq(Byte) /\ Len(y) = h + 4 /\ b = y \o x
        BY <2>3, <3>0
      <4>3. /\ b \in Seq(Byte) /\ Len(b) = Len(y) + Len(x) /\ \A i \in 1 .. Len(y) : b[i] = y[i]
        BY <2>1, <4>2, Concats, Zenon
      <4> QED
        BY <1>1, <2>1, <4>2, <4>3, SMTT(40)
    <3>2. SubSeq(b, h + 1, h + 4) = SubSeq(y, h + 1, h + 4)
      <4>1. \A i \in h + 1 .. h + 4 : b[i] = y[i]
        BY <1>1, <3>1, SMTT(40)
      <4>2. h + 1 \in Nat \ {0} /\ h + 4 \in Nat /\ h + 4 <= Len(b) /\ h + 4 <= Len(y)
        BY <1>1, <3>1, SMTT(40)
      <4>3. b \in Seq(Byte) /\ y \in Seq(Byte)
        BY <3>1
      <4> HIDE DEF h
      <4> QED
        BY <4>1, <4>2, <4>3, SamePiece
    <3>3. SubSeq(H \o Mask, h + 1, h + Len(Mask)) = Mask
      BY <2>1, PieceFacts
    <3> QED
      BY <2>1, <3>0, <3>2, <3>3, Zenon
  <2> QED
    BY <2>4, <2>5 DEF x
<1>5. b = Sealed(H, data, mask)
  BY DEF Sealed
<1>6. b[1] = H[1] /\ b[2] = H[2] /\ H[2] \in Byte /\ H[1] \in Byte /\ n = Len(data) /\ h = Len(H)
  BY <1>1, <1>2
<1> HIDE DEF rest, b, n, h
<1>7. ExtLen(H[2]) = (IF Len7(H[2]) = 126 THEN 2 ELSE IF Len7(H[2]) = 127 THEN 8 ELSE 0)
  BY <1>6, ByteFacts
<1>8. PayloadLen(b) = n
  <2>1. CASE Len7(H[2]) = 126
    <3>1. h = 4
      BY <1>6, <1>7, <2>1
    <3>2. b[3] = H[3] /\ b[4] = H[4]
      BY <1>2, <3>1
    <3> QED
      BY <1>6, <2>1, <3>2 DEF PayloadLen
  <2>2. CASE Len7(H[2]) = 127
    <3>1. h = 10
      BY <1>6, <1>7, <2>2
    <3>2. b[7] = H[7] /\ b[8] = H[8] /\ b[9] = H[9] /\ b[10] = H[10]
      BY <1>2, <3>1
    <3> QED
      BY <1>6, <2>2, <3>2 DEF PayloadLen
  <2>3. CASE Len7(H[2]) # 126 /\ Len7(H[2]) # 127
    BY <1>6, <2>3 DEF PayloadLen
  <2> QED
    BY <2>1, <2>2, <2>3
<1>9. ~ BadLength(b)
  <2>1. CASE Len7(H[2]) = 127
    <3>1. h = 10
      BY <1>6, <1>7, <2>1
    <3>2. \A k \in 3 .. 6 : b[k] = H[k]
      BY <1>2, <3>1, SMTT(40)
    <3> QED
      BY <1>6, <2>1, <3>1, <3>2, SMTT(40) DEF BadLength
  <2>2. CASE Len7(H[2]) # 127
    BY <1>6, <2>2 DEF BadLength
  <2> QED
    BY <2>1, <2>2
<1>10. HeaderLen(b[2]) = h + (IF mask = 1 THEN 4 ELSE 0)
  BY <1>6 DEF HeaderLen
<1>11. IsFrame(b)
  <2>1. Len(b) >= 2 /\ Len(b) = HeaderLen(b[2]) + n
    <3>1. CASE mask = 1
      BY <1>1, <1>2, <1>10, <3>1
    <3>2. CASE mask # 1
      BY <1>1, <1>2, <1>10, <3>2
    <3> QED
      BY <3>1, <3>2
  <2> QED
    BY <1>1, <1>2, <1>6, <1>8, <1>9, <2>1 DEF IsFrame
<1>12. Body(b) = data
  <2>0. Body(b) = Unmask(b, HeaderLen(b[2]), n)
    BY <1>8 DEF Body
  <2>1. CASE mask = 1
    <3>1. HeaderLen(b[2]) = h + 4 /\ HighBit(b[2]) = 1 /\ (h + 4) - 3 = h + 1
      BY <1>1, <1>6, <1>10, <2>1
    <3>2. Body(b) = Masked(SubSeq(b, h + 4 + 1, h + 4 + n), SubSeq(b, h + 1, h + 4))
      BY <2>0, <3>1 DEF Unmask
    <3>3. Masked(Masked(data, Mask), Mask) = data
      BY MaskedFacts
    <3> QED
      BY <1>4, <2>1, <3>2, <3>3, Zenon
  <2>2. CASE mask # 1
    <3>1. HeaderLen(b[2]) = h /\ HighBit(b[2]) # 1 /\ rest = data
      BY <1>1, <1>6, <1>10, <2>2 DEF rest
    <3>2. Body(b) = SubSeq(b, h + 1, h + n)
      BY <2>0, <3>1 DEF Unmask
    <3> QED
      BY <1>3, <1>6, <3>1, <3>2
  <2> QED
    BY <2>1, <2>2
<1> QED
  BY <1>5, <1>6, <1>11, <1>12

\* What the first two bytes of a header say.
LEMMA FirstByte ==
    ASSUME NEW op \in 0 .. 15, NEW bit \in 0 .. 1
    PROVE  128 * bit + op \in Byte /\ HighBit(128 * bit + op) = bit /\ OpCode(128 * bit + op) = op
<1>1. CASE bit = 0
  BY <1>1 DEF Byte, HighBit, OpCode
<1>2. CASE bit = 1
  BY <1>2 DEF Byte, HighBit, OpCode
<1> QED
  BY <1>1, <1>2

LEMMA SecondByte ==
    ASSUME NEW n \in 0 .. 127, NEW bit \in 0 .. 1
    PROVE  128 * bit + n \in Byte /\ HighBit(128 * bit + n) = bit /\ Len7(128 * bit + n) = n
<1>1. CASE bit = 0
  BY <1>1 DEF Byte, HighBit, Len7
<1>2. CASE bit = 1
  BY <1>2 DEF Byte, HighBit, Len7
<1> QED
  BY <1>1, <1>2

\* A header in each of the three length formats.
Heads(H, first, mask, n) ==
    /\ H \in Seq(Byte) /\ Len(H) >= 2 /\ Len(H) = 2 + ExtLen(H[2])
    /\ HighBit(H[2]) = mask /\ Len7(H[2]) # 0 /\ ~ BadLength(H)
    /\ PayloadLen(H) = n /\ H[1] = first

LongHead(first, second, i, j, k, l) == <<first, second, 0, 0, 0, 0, i, j, k, l>>

LongLen(i, j, k, l) == 256 * (256 * (256 * i + j) + k) + l

LEMMA ShortHeader ==
    \A first \in Byte, second \in Byte : Len7(second) \in 1 .. 125 =>
        Heads(<<first, second>>, first, HighBit(second), Len7(second))
<1> SUFFICES ASSUME NEW first \in Byte, NEW second \in Byte, Len7(second) \in 1 .. 125
             PROVE  Heads(<<first, second>>, first, HighBit(second), Len7(second))
  OBVIOUS
<1> DEFINE H == <<first, second>>
<1>1. H \in Seq(Byte) /\ Len(H) = 2 /\ H[1] = first /\ H[2] = second
  OBVIOUS
<1> HIDE DEF H
<1>2. Len7(H[2]) # 126 /\ Len7(H[2]) # 127 /\ Len7(H[2]) # 0
  <2>1. Len7(second) # 126 /\ Len7(second) # 127 /\ Len7(second) # 0
    OBVIOUS
  <2> QED
    BY <1>1, <2>1
<1>3. ExtLen(H[2]) = 0
  BY <1>1, <1>2, ByteFacts
<1>4. Heads(H, first, HighBit(second), Len7(second))
  BY <1>1, <1>2, <1>3 DEF PayloadLen, BadLength, Heads
<1> QED
  BY <1>4 DEF H

LEMMA MediumHeader ==
    \A first \in Byte, second \in Byte, i \in Byte, j \in Byte : Len7(second) = 126 =>
        Heads(<<first, second, i, j>>, first, HighBit(second), 256 * i + j)
<1> SUFFICES ASSUME NEW first \in Byte, NEW second \in Byte, NEW i \in Byte, NEW j \in Byte,
                    Len7(second) = 126
             PROVE  Heads(<<first, second, i, j>>, first, HighBit(second), 256 * i + j)
  OBVIOUS
<1> DEFINE H == <<first, second, i, j>>
<1>1. /\ H \in Seq(Byte) /\ Len(H) = 4 /\ H[1] = first /\ H[2] = second /\ H[3] = i /\ H[4] = j
  OBVIOUS
<1> HIDE DEF H
<1>2. ExtLen(H[2]) = 2
  BY <1>1, ByteFacts
<1>3. PayloadLen(H) = 256 * i + j
  BY <1>1 DEF PayloadLen
<1>4. Heads(H, first, HighBit(second), PayloadLen(H))
  BY <1>1, <1>2 DEF BadLength, Heads
<1> QED
  BY <1>3, <1>4, Zenon DEF H

LEMMA LongHeader ==
    \A first \in Byte, second \in Byte, i \in Byte, j \in Byte, k \in Byte, l \in Byte : Len7(second) = 127 =>
        Heads(LongHead(first, second, i, j, k, l), first, HighBit(second), LongLen(i, j, k, l))
<1> SUFFICES ASSUME NEW first \in Byte, NEW second \in Byte, NEW i \in Byte, NEW j \in Byte,
                    NEW k \in Byte, NEW l \in Byte, Len7(second) = 127
             PROVE  Heads(LongHead(first, second, i, j, k, l), first, HighBit(second), LongLen(i, j, k, l))
  OBVIOUS
<1> DEFINE H == LongHead(first, second, i, j, k, l)
<1>0. 0 \in Byte
  BY DEF Byte
<1>1. /\ H \in Seq(Byte) /\ Len(H) = 10 /\ H[1] = first /\ H[2] = second
      /\ H[3] = 0 /\ H[4] = 0 /\ H[5] = 0 /\ H[6] = 0
      /\ H[7] = i /\ H[8] = j /\ H[9] = k /\ H[10] = l
  BY <1>0 DEF LongHead
<1> HIDE DEF H
<1>2. ExtLen(H[2]) = 8
  BY <1>1, ByteFacts
<1>3. PayloadLen(H) = LongLen(i, j, k, l)
  BY <1>1 DEF PayloadLen, LongLen
<1>4. ~ BadLength(H)
  <2>1. \A m \in 3 .. 6 : H[m] = 0
    BY <1>1
  <2> QED
    BY <2>1 DEF BadLength
<1>5. Heads(H, first, HighBit(second), PayloadLen(H))
  BY <1>1, <1>2, <1>4 DEF Heads
<1> QED
  BY <1>3, <1>5, Zenon DEF H

LEMMA JoinIs ==
    ASSUME NEW x \in Seq(Byte), NEW y \in Seq(Byte), NEW t \in Seq(Byte), Len(t) = Len(x) + Len(y),
           \A i \in 1 .. Len(x) : t[i] = x[i], \A i \in 1 .. Len(y) : t[Len(x) + i] = y[i]
    PROVE  x \o y = t
<1> DEFINE z == x \o y
<1>1. /\ z \in Seq(Byte) /\ Len(z) = Len(x) + Len(y) /\ Len(x) \in Nat /\ Len(y) \in Nat
      /\ \A i \in 1 .. Len(x) + Len(y) : z[i] = IF i <= Len(x) THEN x[i] ELSE y[i - Len(x)]
  BY ConcatProperties
<1> HIDE DEF z
<1>2. ASSUME NEW i \in 1 .. Len(x) + Len(y) PROVE z[i] = t[i]
  <2>1. CASE i <= Len(x)
    BY <1>1, <1>2, <2>1
  <2>2. CASE ~ (i <= Len(x))
    <3>1. i - Len(x) \in 1 .. Len(y) /\ Len(x) + (i - Len(x)) = i
      BY <1>1, <1>2, <2>2
    <3>2. t[Len(x) + (i - Len(x))] = y[i - Len(x)]
      BY <3>1, Zenon
    <3> QED
      BY <1>1, <1>2, <2>2, <3>1, <3>2
  <2> QED
    BY <2>1, <2>2
<1>3. \A i \in 1 .. Len(z) : z[i] = t[i]
  BY <1>1, <1>2
<1> QED
  BY <1>1, <1>3, SeqEqual DEF z

LEMMA Join11 ==
    ASSUME NEW a \in Byte, NEW b \in Byte
    PROVE  <<a>> \o <<b>> = <<a, b>>
<1> DEFINE x == <<a>>
<1> DEFINE y == <<b>>
<1> DEFINE t == <<a, b>>
<1>1. /\ x \in Seq(Byte) /\ y \in Seq(Byte) /\ t \in Seq(Byte)
      /\ Len(x) = 1 /\ Len(y) = 1 /\ Len(t) = 2
      /\ x[1] = a
      /\ y[1] = b
      /\ t[1] = a /\ t[2] = b
  OBVIOUS
<1> HIDE DEF x, y, t
<1>2. /\ Len(t) = Len(x) + Len(y)
      /\ \A i \in 1 .. Len(x) : t[i] = x[i]
      /\ \A i \in 1 .. Len(y) : t[Len(x) + i] = y[i]
  BY <1>1
<1>3. x \o y = t
  BY <1>1, <1>2, JoinIs, Zenon
<1> QED
  BY <1>3 DEF x, y, t

LEMMA Join13 ==
    ASSUME NEW a \in Byte, NEW b \in Byte, NEW c \in Byte, NEW d \in Byte
    PROVE  <<a>> \o <<b, c, d>> = <<a, b, c, d>>
<1> DEFINE x == <<a>>
<1> DEFINE y == <<b, c, d>>
<1> DEFINE t == <<a, b, c, d>>
<1>1. /\ x \in Seq(Byte) /\ y \in Seq(Byte) /\ t \in Seq(Byte)
      /\ Len(x) = 1 /\ Len(y) = 3 /\ Len(t) = 4
      /\ x[1] = a
      /\ y[1] = b /\ y[2] = c /\ y[3] = d
      /\ t[1] = a /\ t[2] = b /\ t[3] = c /\ t[4] = d
  OBVIOUS
<1> HIDE DEF x, y, t
<1>2. /\ Len(t) = Len(x) + Len(y)
      /\ \A i \in 1 .. Len(x) : t[i] = x[i]
      /\ \A i \in 1 .. Len(y) : t[Len(x) + i] = y[i]
  BY <1>1
<1>3. x \o y = t
  BY <1>1, <1>2, JoinIs, Zenon
<1> QED
  BY <1>3 DEF x, y, t

LEMMA Join19 ==
    ASSUME NEW first \in Byte, NEW second \in Byte, NEW n \in Byte
    PROVE  <<first>> \o <<second, 0, 0, 0, 0, 0, 0, 0, n>> = LongHead(first, second, 0, 0, 0, n)
<1> DEFINE x == <<first>>
<1> DEFINE y == <<second, 0, 0, 0, 0, 0, 0, 0, n>>
<1> DEFINE t == LongHead(first, second, 0, 0, 0, n)
<1>1. /\ x \in Seq(Byte) /\ y \in Seq(Byte) /\ t \in Seq(Byte)
      /\ Len(x) = 1 /\ Len(y) = 9 /\ Len(t) = 10
      /\ x[1] = first /\ y[1] = second /\ y[9] = n /\ \A i \in 2 .. 8 : y[i] = 0
      /\ t[1] = first /\ t[2] = second /\ t[10] = n /\ \A i \in 3 .. 9 : t[i] = 0
  <2>1. 0 \in Byte
    BY DEF Byte
  <2> QED
    BY <2>1 DEF LongHead
<1> HIDE DEF x, y, t
<1>2. /\ Len(t) = Len(x) + Len(y)
      /\ \A i \in 1 .. Len(x) : t[i] = x[i]
      /\ \A i \in 1 .. Len(y) : t[Len(x) + i] = y[i]
  BY <1>1
<1>3. x \o y = t
  BY <1>1, <1>2, JoinIs, Zenon
<1> QED
  BY <1>3 DEF x, y, t

LEMMA Join22 ==
    ASSUME NEW a \in Byte, NEW b \in Byte, NEW c \in Byte, NEW d \in Byte
    PROVE  <<a, b>> \o <<c, d>> = <<a, b, c, d>>
<1> DEFINE x == <<a, b>>
<1> DEFINE y == <<c, d>>
<1> DEFINE t == <<a, b, c, d>>
<1>1. /\ x \in Seq(Byte) /\ y \in Seq(Byte) /\ t \in Seq(Byte)
      /\ Len(x) = 2 /\ Len(y) = 2 /\ Len(t) = 4
      /\ x[1] = a /\ x[2] = b
      /\ y[1] = c /\ y[2] = d
      /\ t[1] = a /\ t[2] = b /\ t[3] = c /\ t[4] = d
  OBVIOUS
<1> HIDE DEF x, y, t
<1>2. /\ Len(t) = Len(x) + Len(y)
      /\ \A i \in 1 .. Len(x) : t[i] = x[i]
      /\ \A i \in 1 .. Len(y) : t[Len(x) + i] = y[i]
  BY <1>1
<1>3. x \o y = t
  BY <1>1, <1>2, JoinIs, Zenon
<1> QED
  BY <1>3 DEF x, y, t

\* Like them, for what x, y and t are.
LEMMA Join64 ==
    ASSUME NEW x \in Seq(Byte), NEW y \in Seq(Byte), NEW t \in Seq(Byte),
           Len(x) = 6, Len(y) = 4, Len(t) = 10,
           \A m \in 1 .. 6 : t[m] = x[m], \A m \in 1 .. 4 : t[6 + m] = y[m]
    PROVE  x \o y = t
<1>1. /\ Len(t) = Len(x) + Len(y)
      /\ \A m \in 1 .. Len(x) : t[m] = x[m]
      /\ \A m \in 1 .. Len(y) : t[Len(x) + m] = y[m]
  OBVIOUS
<1> QED
  BY <1>1, JoinIs, Zenon

\* A number cut into bytes and put together again.
LEMMA BytesOf ==
    ASSUME NEW n \in Nat
    PROVE  \E q \in Nat, r \in Byte : q = n \div 256 /\ r = n % 256 /\ n = 256 * q + r
<1> DEFINE q == n \div 256
<1> DEFINE r == n % 256
<1>1. q \in Nat /\ r \in Byte
  BY DEF Byte
<1>2. r = n - 256 * q
  OBVIOUS
<1>3. q = n \div 256 /\ r = n % 256
  OBVIOUS
<1> HIDE DEF q, r
<1>4. n = 256 * q + r
  BY <1>1, <1>2 DEF Byte
<1> QED
  BY <1>1, <1>3, <1>4

\* The lengths of a payload that four bytes can hold.
FourByteNumbers == {n \in Nat \ {0} : ((n \div 256) \div 256) \div 256 < 256}

\* A frame with this payload.
Encodes(b, data, op, fin) == IsFrame(b) /\ Body(b) = data /\ HighBit(b[1]) = fin /\ OpCode(b[1]) = op

LEMMA GeneratedFrame ==
    ASSUME NEW data \in Seq(Byte), NEW op \in 0 .. 15, NEW fin \in 0 .. 1,
           NEW mask \in 0 .. 1, Len(data) \in FourByteNumbers,
           NEW bytes, bytes = FrameWithoutFragment(data, op, fin, mask)
    PROVE  Encodes(bytes, data, op, fin)
<1> DEFINE n == Len(data)
<1> DEFINE first == 128 * fin + op
<1> DEFINE second(k) == 128 * mask + k
<1> DEFINE H == Header(n, op, fin, mask)
<1>1. n \in Nat /\ n # 0 /\ n \in FourByteNumbers
  BY DEF FourByteNumbers
<1>0. n = Len(data)
  OBVIOUS
<1>2. first \in Byte /\ HighBit(first) = fin /\ OpCode(first) = op
  BY FirstByte
<1>2a. \A k \in 0 .. 127 : second(k) \in Byte /\ HighBit(second(k)) = mask /\ Len7(second(k)) = k
  BY SecondByte
<1>3. H = IF n <= ShortLen THEN <<first, second(n)>>
          ELSE IF n <= MediumLen THEN <<first, second(126)>> \o TwoBytes(n)
          ELSE <<first, second(127), 0, 0, 0, 0>> \o FourBytes(n)
  BY DEF Header
<1>4. FrameWithoutFragment(data, op, fin, mask) = Sealed(H, data, mask)
  BY DEF FrameWithoutFragment, Sealed
<1> HIDE DEF n, first, second, H
<1>5. ShortLen \in 1 .. 125 /\ MediumLen \in ShortLen .. 65535
  BY CodecAssumption, SMT
<1>6. Heads(H, first, mask, n)
  <2>1. CASE n <= ShortLen
    <3>1. n \in 1 .. 125 /\ n \in 0 .. 127
      BY <1>1, <1>5, <2>1
    <3>2. H = <<first, second(n)>>
      BY <1>3, <2>1, Zenon
    <3>3. second(n) \in Byte /\ HighBit(second(n)) = mask /\ Len7(second(n)) = n
      BY <1>2a, <3>1, Zenon
    <3> QED
      BY <1>2, <3>1, <3>2, <3>3, ShortHeader
  <2>2. CASE ~ (n <= ShortLen) /\ n <= MediumLen
    <3>1. PICK i \in Nat, j \in Byte : i = n \div 256 /\ j = n % 256 /\ n = 256 * i + j
      BY <1>1, BytesOf
    <3>2. i \in Byte
      <4>1. n <= 65535
        BY <1>1, <1>5, <2>2, SMT
      <4> QED
        BY <3>1, <4>1, SMT DEF Byte
    <3>3. TwoBytes(n) = <<i, j>>
      BY <3>1 DEF TwoBytes
    <3>4. PICK s \in Byte : s = second(126) /\ HighBit(s) = mask /\ Len7(s) = 126
      <4>1. 126 \in 0 .. 127
        OBVIOUS
      <4> QED
        BY <1>2a, <4>1
    <3>5. H = <<first, s>> \o <<i, j>>
      BY <1>3, <2>2, <3>3, <3>4
    <3>6. H = <<first, s, i, j>>
      BY <1>2, <3>2, <3>5, Join22, Zenon
    <3>7. Heads(H, first, mask, 256 * i + j)
      <4>1. Heads(<<first, s, i, j>>, first, HighBit(s), 256 * i + j)
        BY <1>2, <3>2, <3>4, MediumHeader
      <4> QED
        BY <3>4, <3>6, <4>1
    <3> QED
      BY <3>1, <3>7, Zenon
  <2>3. CASE ~ (n <= ShortLen) /\ ~ (n <= MediumLen)
    <3>1. PICK q \in Nat, l \in Byte : q = n \div 256 /\ l = n % 256 /\ n = 256 * q + l
      BY <1>1, BytesOf
    <3>2. PICK r \in Nat, k \in Byte : r = q \div 256 /\ k = q % 256 /\ q = 256 * r + k
      BY BytesOf
    <3>3. PICK i \in Nat, j \in Byte : i = r \div 256 /\ j = r % 256 /\ r = 256 * i + j
      BY BytesOf
    <3>4. i \in Byte
      <4>1. i < 256
        BY <1>1, <3>1, <3>2, <3>3 DEF FourByteNumbers
      <4> QED
        BY <4>1 DEF Byte
    <3>5. FourBytes(n) = <<i, j, k, l>>
      BY <3>1, <3>2, <3>3 DEF FourBytes
    <3>6. PICK s \in Byte : s = second(127) /\ HighBit(s) = mask /\ Len7(s) = 127
      <4>1. 127 \in 0 .. 127
        OBVIOUS
      <4> QED
        BY <1>2a, <4>1
    <3>7. H = <<first, s, 0, 0, 0, 0>> \o <<i, j, k, l>>
      BY <1>3, <2>3, <3>5, <3>6
    <3>8. /\ first \in Byte /\ s \in Byte /\ i \in Byte /\ j \in Byte /\ k \in Byte /\ l \in Byte
          /\ Len7(s) = 127 /\ HighBit(s) = mask
      BY <1>2, <3>1, <3>2, <3>3, <3>4, <3>6
    <3>9. Heads(H, first, mask, n)
      <4>1. H = LongHead(first, s, i, j, k, l)
        <5> DEFINE x == <<first, s, 0, 0, 0, 0>>
        <5> DEFINE y == <<i, j, k, l>>
        <5> DEFINE t == LongHead(first, s, i, j, k, l)
        <5>1. /\ x \in Seq(Byte) /\ y \in Seq(Byte) /\ t \in Seq(Byte)
              /\ Len(x) = 6 /\ Len(y) = 4 /\ Len(t) = 10
              /\ x[1] = first /\ x[2] = s /\ \A m \in 3 .. 6 : x[m] = 0
              /\ y[1] = i /\ y[2] = j /\ y[3] = k /\ y[4] = l
              /\ t[1] = first /\ t[2] = s /\ \A m \in 3 .. 6 : t[m] = 0
              /\ t[7] = i /\ t[8] = j /\ t[9] = k /\ t[10] = l
          <6>1. 0 \in Byte
            BY DEF Byte
          <6> QED
            BY <3>8, <6>1 DEF LongHead
        <5>2. H = x \o y
          BY <3>7
        <5> HIDE DEF x, y, t
        <5>3. (\A m \in 1 .. 6 : t[m] = x[m]) /\ \A m \in 1 .. 4 : t[6 + m] = y[m]
          BY <5>1
        <5>4. x \o y = t
          BY <5>1, <5>3, Join64
        <5> QED
          BY <5>2, <5>4 DEF t
      <4>2. Heads(LongHead(first, s, i, j, k, l), first, HighBit(s), LongLen(i, j, k, l))
        BY <3>8, LongHeader
      <4>3. LongLen(i, j, k, l) = n
        BY <3>1, <3>2, <3>3 DEF LongLen
      <4> QED
        BY <3>8, <4>1, <4>2, <4>3
    <3> QED
      BY <3>9
  <2> QED
    BY <2>1, <2>2, <2>3, Zenon
<1> DEFINE b == Sealed(H, data, mask)
<1>7. IsFrame(b) /\ Body(b) = data /\ b[1] = H[1]
  <2>1. PayloadLen(H) = Len(data)
    BY <1>0, <1>6, Zenon DEF Heads
  <2> QED
    BY <1>6, <2>1, SealedFrame DEF Heads
<1> HIDE DEF b
<1>8. FrameWithoutFragment(data, op, fin, mask) = b
  BY <1>4 DEF b
<1>9. b[1] = first
  BY <1>6, <1>7, Zenon DEF Heads
<1> QED
  BY <1>2, <1>7, <1>8, <1>9, Zenon DEF Encodes

\* Any other endpoint's frame.
LEMMA ForeignIsFrame ==
    ASSUME NEW data \in Seq(Byte), Len(data) \in 1 .. 125, NEW op \in 0 .. 15,
           NEW fin \in 0 .. 1, NEW mask \in 0 .. 1, NEW format \in {7, 16, 64},
           NEW bytes, bytes = ForeignFrame(data, op, fin, mask, format)
    PROVE  Encodes(bytes, data, op, fin)
<1> DEFINE n == Len(data)
<1> DEFINE first == 128 * fin + op
<1> DEFINE second(k) == 128 * mask + k
<1> DEFINE length == IF format = 7 THEN <<second(n)>>
                     ELSE IF format = 16 THEN <<second(126), 0, n>>
                     ELSE <<second(127), 0, 0, 0, 0, 0, 0, 0, n>>
<1> DEFINE H == <<first>> \o length
<1>1. n \in 1 .. 125 /\ n \in 0 .. 127 /\ n \in Byte /\ 0 \in Byte
  BY DEF Byte
<1>0. n = Len(data)
  OBVIOUS
<1>2. first \in Byte /\ HighBit(first) = fin /\ OpCode(first) = op
  BY FirstByte
<1>2a. \A k \in 0 .. 127 : second(k) \in Byte /\ HighBit(second(k)) = mask /\ Len7(second(k)) = k
  BY SecondByte
<1> DEFINE rest == IF mask = 1 THEN Mask \o Masked(data, Mask) ELSE data
<1>4. ForeignFrame(data, op, fin, mask, format) = (<<first>> \o length) \o rest
  BY DEF ForeignFrame
<1>6. ForeignFrame(data, op, fin, mask, format) = Sealed(H, data, mask)
  BY <1>4 DEF Sealed
<1> HIDE DEF first, second, n
<1>5. H = <<first>> \o length
  OBVIOUS
<1> HIDE DEF H, rest
<1>7. Heads(H, first, mask, n)
  <2>1. CASE format = 7
    <3>1. length = <<second(n)>>
      BY <2>1
    <3> HIDE DEF length
    <3>2. second(n) \in Byte /\ HighBit(second(n)) = mask /\ Len7(second(n)) = n
      BY <1>1, <1>2a, Zenon
    <3>3. H = <<first, second(n)>>
      BY <1>2, <1>5, <3>1, <3>2, Join11, Zenon
    <3>4. Heads(<<first, second(n)>>, first, HighBit(second(n)), Len7(second(n)))
      <4>1. Len7(second(n)) \in 1 .. 125
        BY <1>1, <3>2
      <4> QED
        BY <1>2, <3>2, <4>1, ShortHeader, Zenon
    <3> QED
      BY <3>2, <3>3, <3>4, Zenon
  <2>2. CASE format = 16
    <3>1. length = <<second(126), 0, n>>
      BY <2>2
    <3> HIDE DEF length
    <3>2. PICK s \in Byte : s = second(126) /\ HighBit(s) = mask /\ Len7(s) = 126
      <4>1. 126 \in 0 .. 127
        OBVIOUS
      <4> QED
        BY <1>2a, <4>1
    <3>3. H = <<first>> \o <<s, 0, n>>
      BY <1>5, <3>1, <3>2
    <3>4. H = <<first, s, 0, n>>
      BY <1>1, <1>2, <3>3, Join13, Zenon
    <3>5. Heads(<<first, s, 0, n>>, first, HighBit(s), 256 * 0 + n)
      BY <1>1, <1>2, <3>2, MediumHeader
    <3>6. 256 * 0 + n = n
      BY <1>1
    <3> QED
      BY <3>2, <3>4, <3>5, <3>6
  <2>3. CASE format = 64
    <3>1. length = <<second(127), 0, 0, 0, 0, 0, 0, 0, n>>
      BY <2>3
    <3> HIDE DEF length
    <3>2. PICK s \in Byte : s = second(127) /\ HighBit(s) = mask /\ Len7(s) = 127
      <4>1. 127 \in 0 .. 127
        OBVIOUS
      <4> QED
        BY <1>2a, <4>1
    <3>3. H = <<first>> \o <<s, 0, 0, 0, 0, 0, 0, 0, n>>
      BY <1>5, <3>1, <3>2
    <3>4. first \in Byte /\ s \in Byte /\ 0 \in Byte /\ n \in Byte /\ Len7(s) = 127 /\ HighBit(s) = mask
      BY <1>1, <1>2, <3>2
    <3>5. H = LongHead(first, s, 0, 0, 0, n)
      BY <3>3, <3>4, Join19
    <3>6. Heads(LongHead(first, s, 0, 0, 0, n), first, HighBit(s), LongLen(0, 0, 0, n))
      BY <3>4, LongHeader
    <3>7. LongLen(0, 0, 0, n) = n
      BY <1>1 DEF LongLen
    <3> QED
      BY <3>4, <3>5, <3>6, <3>7
  <2> QED
    BY <2>1, <2>2, <2>3, Zenon
<1> DEFINE b == Sealed(H, data, mask)
<1>8. IsFrame(b) /\ Body(b) = data /\ b[1] = H[1]
  <2>1. PayloadLen(H) = Len(data)
    BY <1>0, <1>7, Zenon DEF Heads
  <2> QED
    BY <1>7, <2>1, SealedFrame, SMTT(40) DEF Heads
<1> HIDE DEF b
<1>9. ForeignFrame(data, op, fin, mask, format) = b
  BY <1>6 DEF b
<1>10. b[1] = first
  BY <1>7, <1>8, Zenon DEF Heads
<1> QED
  BY <1>2, <1>8, <1>9, <1>10, Zenon DEF Encodes

-----------------------------------------------------------------------------
(* What the parser makes of a frame, whole or in part.                     *)

\* A frame of two bytes, without a payload.
IsEmptyFrame(b) == b \in Seq(Byte) /\ Len(b) = 2 /\ Len7(b[2]) = 0

\* What is left in the buffer of the handle.
Content(b) == IF Len7(b[2]) = 0 THEN b ELSE Body(b)

Whole(b) == (IsFrame(b) \/ IsEmptyFrame(b)) /\ Content(b) \in Seq(Byte)

LEMMA EncodesWhole ==
    ASSUME NEW b, NEW data \in Seq(Byte), NEW op, NEW fin, Encodes(b, data, op, fin)
    PROVE  Whole(b) /\ OpCode(b[1]) = op /\ Content(b) = data
<1>1. IsFrame(b) /\ Body(b) = data /\ OpCode(b[1]) = op
  BY DEF Encodes
<1>2. Content(b) = data
  BY <1>1, FrameFacts DEF Content
<1> QED
  BY <1>1, <1>2 DEF Whole

HugeBytes == <<128 + BIN, 127, 0, 0, 0, 1, 0, 0, 0, 0>>

LEMMA WholeFacts ==
    ASSUME NEW b, Whole(b)
    PROVE  b \in Seq(Byte) /\ Len(b) \in Nat /\ Len(b) >= 2 /\ b[1] \in Byte /\ b[2] \in Byte
<1>1. CASE IsFrame(b)
  BY <1>1, FrameFacts
<1>2. CASE IsEmptyFrame(b)
  BY <1>2 DEF IsEmptyFrame
<1> QED
  BY <1>1, <1>2 DEF Whole

LEMMA TakeWhole ==
    ASSUME NEW b, Whole(b), NEW h, NEW data, NEW all \in Seq(Byte), Joined(h, data, all),
           Len(b) <= Len(all), \A i \in 1 .. Len(b) : all[i] = b[i]
    PROVE  TryParse(h, data) = [state |-> "complete", buf |-> Content(b),
                                used |-> Len(b) - Len(Begun(h)),
                                fin |-> HighBit(b[1]), op |-> OpCode(b[1])]
<1>1. CASE IsFrame(b)
  <2>1. Content(b) = Body(b)
    BY <1>1, FrameFacts DEF Content
  <2> QED
    BY <1>1, <2>1, ParseWhole
<1>2. CASE IsEmptyFrame(b)
  <2>1. b \in Seq(Byte) /\ Len(b) = 2 /\ Len7(b[2]) = 0 /\ Len(all) \in Nat
    BY <1>2 DEF IsEmptyFrame
  <2>2. all[1] = b[1] /\ all[2] = b[2] /\ ~ (Len(all) < 2)
    BY <2>1
  <2>3. SubSeq(all, 1, 2) = b
    <3>1. SubSeq(all, 1, 2) = SubSeq(b, 1, 2)
      BY <2>1, <2>2, SamePiece
    <3>2. SubSeq(b, 1, Len(b)) = b
      BY <2>1, SubSeqFull
    <3> QED
      BY <2>1, <3>1, <3>2
  <2>4. TryParse(h, data) = Parsed("complete", SubSeq(all, 1, 2), 2 - Len(Begun(h)), all)
    BY <2>1, <2>2 DEF TryParse, Joined
  <2> QED
    BY <2>1, <2>2, <2>3, <2>4 DEF Parsed, Content
<1> QED
  BY <1>1, <1>2 DEF Whole

LEMMA TakePart ==
    ASSUME NEW b, Whole(b), NEW h, NEW data, NEW all \in Seq(Byte), Joined(h, data, all),
           Len(all) < Len(b), \A i \in 1 .. Len(all) : all[i] = b[i]
    PROVE  /\ TryParse(h, data) = Parsed("incomplete", all, Len(data), all)
           /\ Unfinished(all)
<1>1. CASE IsFrame(b)
  BY <1>1, ParsePart
<1>2. CASE IsEmptyFrame(b)
  <2>1. Len(all) < 2
    BY <1>2 DEF IsEmptyFrame
  <2> QED
    BY <2>1 DEF TryParse, Joined, Unfinished
<1> QED
  BY <1>1, <1>2 DEF Whole

\* A handle that begins a frame takes the bytes for a frame with this payload,
\* whatever follows them, and waits with less than all of them.
Reads(h, bytes, data, op, fin) ==
    /\ \A rest \in Seq(Byte) :
          TryParse(h, bytes \o rest) = [state |-> "complete", buf |-> data, used |-> Len(bytes),
                                        fin |-> fin, op |-> op]
    /\ \A x \in Seq(Byte) :
          Len(x) < Len(bytes) /\ (\A i \in 1 .. Len(x) : x[i] = bytes[i])
          => TryParse(h, x) = Parsed("incomplete", x, Len(x), x)

LEMMA ParserReadsEncoded ==
    ASSUME NEW data \in Seq(Byte), NEW op, NEW fin, NEW bytes, Encodes(bytes, data, op, fin), NEW h, h.state = "complete"
    PROVE  Reads(h, bytes, data, op, fin)
<1>2. /\ Whole(bytes) /\ Content(bytes) = data /\ HighBit(bytes[1]) = fin /\ OpCode(bytes[1]) = op
      /\ bytes \in Seq(Byte) /\ Len(bytes) \in Nat
  <2>1. Whole(bytes) /\ Content(bytes) = data /\ HighBit(bytes[1]) = fin /\ OpCode(bytes[1]) = op
    BY EncodesWhole, Zenon DEF Encodes
  <2> QED
    BY <2>1, WholeFacts
<1>3. Begun(h) = <<>>
  BY Zenon DEF Begun
<1>4. \A x \in Seq(Byte) : Joined(h, x, x)
  BY <1>3 DEF Joined
<1>5. ASSUME NEW rest \in Seq(Byte)
      PROVE  TryParse(h, bytes \o rest) = [state |-> "complete", buf |-> data, used |-> Len(bytes),
                                           fin |-> fin, op |-> op]
  <2> DEFINE all == bytes \o rest
  <2>1. /\ all \in Seq(Byte) /\ Len(all) = Len(bytes) + Len(rest)
        /\ \A i \in 1 .. Len(bytes) : all[i] = bytes[i]
    BY <1>2, <1>5, Concats, Zenon
  <2>2. Len(rest) \in Nat
    BY <1>5
  <2> HIDE DEF all
  <2>3. Len(bytes) <= Len(all)
    BY <1>2, <2>1, <2>2
  <2>j. Joined(h, all, all) /\ all \in Seq(Byte)
    BY <1>4, <2>1, Zenon
  <2>4. TryParse(h, all) = [state |-> "complete", buf |-> Content(bytes), used |-> Len(bytes) - Len(Begun(h)),
                            fin |-> HighBit(bytes[1]), op |-> OpCode(bytes[1])]
    BY <1>2, <2>1, <2>3, <2>j, TakeWhole, Zenon
  <2>5. Len(bytes) - Len(Begun(h)) = Len(bytes)
    BY <1>2, <1>3
  <2> QED
    BY <1>2, <2>4, <2>5, Zenon DEF all
<1>6. ASSUME NEW x \in Seq(Byte), Len(x) < Len(bytes), \A i \in 1 .. Len(x) : x[i] = bytes[i]
      PROVE  TryParse(h, x) = Parsed("incomplete", x, Len(x), x)
  <2>1. Joined(h, x, x)
    BY <1>4, Zenon
  <2> QED
    BY <1>2, <1>6, <2>1, TakePart, Zenon
<1> QED
  BY <1>5, <1>6, Zenon DEF Reads

\* The parser gives back what a generator of frames was given: the payload, the
\* type and the FIN bit, with the mask undone, whatever follows the frame, for a
\* frame of this library or one of another implementation in any length format;
\* of a part of the frame it takes all and waits (wsutil.cpp:155-263).
THEOREM ParserReadsFrame ==
    ASSUME NEW data \in Seq(Byte), NEW op \in 0 .. 15, NEW fin \in 0 .. 1, NEW mask \in 0 .. 1, NEW bytes,
           \/ Len(data) \in FourByteNumbers /\ bytes = FrameWithoutFragment(data, op, fin, mask)
           \/ /\ Len(data) \in 1 .. 125
              /\ \E format \in {7, 16, 64} : bytes = ForeignFrame(data, op, fin, mask, format),
           NEW h, h.state = "complete"
    PROVE  Reads(h, bytes, data, op, fin)
<1>1. Encodes(bytes, data, op, fin)
  <2>1. CASE Len(data) \in FourByteNumbers /\ bytes = FrameWithoutFragment(data, op, fin, mask)
    BY <2>1, GeneratedFrame
  <2>2. ASSUME Len(data) \in 1 .. 125, NEW format \in {7, 16, 64},
               bytes = ForeignFrame(data, op, fin, mask, format)
        PROVE  Encodes(bytes, data, op, fin)
    BY <2>2, ForeignIsFrame, ZenonT(90)
  <2> QED
    BY <2>1, <2>2, Zenon
<1> QED
  BY <1>1, ParserReadsEncoded, Zenon

\* A handle does not keep a whole frame.
LEMMA HeldShort ==
    ASSUME NEW b, Whole(b), NEW x \in Seq(Byte), Unfinished(x),
           \A i \in 1 .. Len(b) : i <= Len(x) => x[i] = b[i]
    PROVE  Len(x) < Len(b)
<1>1. CASE IsFrame(b)
  BY <1>1, UnfinishedShort
<1>2. CASE IsEmptyFrame(b)
  <2>1. b \in Seq(Byte) /\ Len(b) = 2 /\ Len7(b[2]) = 0 /\ Len(x) \in Nat
    BY <1>2 DEF IsEmptyFrame
  <2>2. SUFFICES ASSUME Len(x) >= 2 PROVE FALSE
    BY <2>1
  <2>3. x[2] = b[2]
    BY <2>1, <2>2
  <2> QED
    BY <2>1, <2>2, <2>3 DEF Unfinished
<1> QED
  BY <1>1, <1>2 DEF Whole

LEMMA HugeFacts ==
    /\ HugeBytes \in Seq(Byte) /\ Len(HugeBytes) = 10 /\ HugeBytes[2] = 127 /\ HugeBytes[6] = 1
    /\ HighBit(127) = 0 /\ Len7(127) = 127 /\ HeaderLen(127) = 10
<1>1. HighBit(127) = 0 /\ Len7(127) = 127 /\ 127 \in Byte
  BY DEF HighBit, Len7, Byte
<1>2. HeaderLen(127) = 10
  BY <1>1, ByteFacts
<1> QED
  BY <1>1, <1>2 DEF HugeBytes, Byte, BIN

\* Of an impossible length the parser reads six bytes.
LEMMA TakeHuge ==
    ASSUME NEW h, NEW data, NEW all \in Seq(Byte), Joined(h, data, all), BadLength(all)
    PROVE  /\ TryParse(h, data) = Parsed("failed", SubSeq(all, 1, 6), 6 - Len(Begun(h)), all)
           /\ BadLength(SubSeq(all, 1, 6)) /\ Len(SubSeq(all, 1, 6)) = 6
           /\ SubSeq(all, 1, 6) \in Seq(Byte)
<1>1. Len(all) \in Nat /\ 6 <= Len(all) /\ ~ (Len(all) < 2) /\ Len7(all[2]) = 127 /\ Len7(all[2]) # 0
  BY DEF BadLength
<1>2. TryParse(h, data) = Parsed("failed", SubSeq(all, 1, 6), 6 - Len(Begun(h)), all)
  BY <1>1 DEF TryParse, Joined
<1> DEFINE x == SubSeq(all, 1, 6)
<1>3. x \in Seq(Byte) /\ Len(x) = 6 /\ \A i \in 1 .. 6 : x[i] = all[i]
  <2>1. \A i \in 1 .. 6 : all[i] \in Byte
    BY <1>1
  <2>2. /\ x \in Seq(Byte) /\ Len(x) = (IF 1 <= 6 THEN 6 - 1 + 1 ELSE 0)
        /\ \A i \in 1 .. 6 - 1 + 1 : x[i] = all[1 + i - 1]
    BY <2>1, SubSeqProperties
  <2> QED
    BY <2>2
<1> HIDE DEF x
<1>4. PICK k \in 3 .. 6 : all[k] # 0
  BY DEF BadLength
<1>5. x[k] # 0 /\ x[2] = all[2]
  BY <1>3, <1>4
<1>6. BadLength(x)
  BY <1>1, <1>3, <1>5 DEF BadLength
<1> QED
  BY <1>2, <1>3, <1>6 DEF x

LEMMA PartHuge ==
    ASSUME NEW h, NEW data, NEW all \in Seq(Byte), Joined(h, data, all),
           Len(all) < 6, \A i \in 1 .. Len(all) : all[i] = HugeBytes[i]
    PROVE  /\ TryParse(h, data) = Parsed("incomplete", all, Len(data), all)
           /\ Unfinished(all)
<1>1. CASE Len(all) < 2
  BY <1>1 DEF TryParse, Joined, Unfinished
<1>2. CASE Len(all) >= 2
  <2>1. all[2] = 127 /\ Len(all) \in Nat
    BY <1>2, HugeFacts
  <2>2. Len7(all[2]) # 0 /\ Len(all) < HeaderLen(all[2]) /\ ~ BadLength(all) /\ ~ (Len(all) < 2)
    BY <1>2, <2>1, HugeFacts DEF BadLength
  <2> QED
    BY <2>2 DEF TryParse, Joined, Unfinished
<1>3. Len(all) \in Nat
  OBVIOUS
<1> QED
  BY <1>1, <1>2, <1>3

LEMMA HeldHuge ==
    ASSUME NEW x \in Seq(Byte), Unfinished(x), \A i \in 1 .. 10 : i <= Len(x) => x[i] = HugeBytes[i]
    PROVE  Len(x) < 6
<1>1. Len(x) \in Nat
  OBVIOUS
<1>2. SUFFICES ASSUME Len(x) >= 6 PROVE FALSE
  BY <1>1
<1>3. x[2] = 127 /\ x[6] = 1
  BY <1>1, <1>2, HugeFacts
<1>4. BadLength(x)
  BY <1>2, <1>3, HugeFacts DEF BadLength
<1> QED
  BY <1>1, <1>2, <1>4 DEF Unfinished

-----------------------------------------------------------------------------
(* A stream of frames.                                                     *)

\* How far the reading of what was sent has come: to so many whole messages, so
\* many bytes of the next one, so many pings and so many frames that end the
\* connection.
Position == [msgs : Nat, bytes : Nat, pings : Nat, ends : Nat]

\* The frame b takes the reader of the messages s from p to q.
CarriesData(s, b, p, q) ==
    \E n \in Nat \ {0} :
        /\ IsFrame(b) /\ p.msgs + 1 \in 1 .. Len(s)
        /\ OpCode(b[1]) = IF p.bytes = 0 THEN s[p.msgs + 1].op ELSE CONTINUE
        /\ p.bytes + n <= Len(s[p.msgs + 1].data)
        /\ Body(b) = SubSeq(s[p.msgs + 1].data, p.bytes + 1, p.bytes + n)
        /\ \/ /\ HighBit(b[1]) = 1 /\ p.bytes + n = Len(s[p.msgs + 1].data)
              /\ q = [p EXCEPT !.msgs = @ + 1, !.bytes = 0]
           \/ HighBit(b[1]) = 0 /\ q = [p EXCEPT !.bytes = @ + n]

CarriesControl(b, p, q) ==
    /\ Whole(b)
    /\ \/ OpCode(b[1]) = PING /\ q = [p EXCEPT !.pings = @ + 1]
       \/ OpCode(b[1]) = PONG /\ q = p
       \/ OpCode(b[1]) = CLOSE /\ q = [p EXCEPT !.ends = @ + 1]

CarriesHuge(b, p, q) == b = HugeBytes /\ q = [p EXCEPT !.ends = @ + 1]

Carries(s, b, p, q) == CarriesData(s, b, p, q) \/ CarriesControl(b, p, q) \/ CarriesHuge(b, p, q)

\* The frames that the bytes x are made of take the reader from p to q: the
\* least relation with a step for each frame.
Streams == Seq(Byte) \X Position \X Position

ClosedUnder(s, R) ==
    /\ \A p \in Position : <<<<>>, p, p>> \in R
    /\ \A b, y \in Seq(Byte), p, q, r \in Position :
          Carries(s, b, p, q) /\ <<y, q, r>> \in R => <<b \o y, p, r>> \in R

Path(s, x, p, q) == <<x, p, q>> \in Streams /\ \A R \in SUBSET Streams : ClosedUnder(s, R) => <<x, p, q>> \in R

LEMMA PathNone ==
    ASSUME NEW s, NEW p \in Position PROVE Path(s, <<>>, p, p)
<1>1. <<>> \in Seq(Byte)
  OBVIOUS
<1>2. <<<<>>, p, p>> \in Streams
  BY <1>1 DEF Streams
<1> QED
  BY <1>2, Zenon DEF Path, ClosedUnder

LEMMA PathStep ==
    ASSUME NEW s, NEW b \in Seq(Byte), NEW y \in Seq(Byte), NEW p \in Position, NEW q \in Position,
           NEW r, Carries(s, b, p, q), Path(s, y, q, r)
    PROVE  Path(s, b \o y, p, r)
<1>1. b \o y \in Seq(Byte)
  BY Concats, Zenon
<1>2. r \in Position
  BY DEF Path, Streams
<1>3. <<b \o y, p, r>> \in Streams
  BY <1>1, <1>2 DEF Streams
<1>4. ASSUME NEW R \in SUBSET Streams, ClosedUnder(s, R) PROVE <<b \o y, p, r>> \in R
  <2>1. <<y, q, r>> \in R
    BY <1>4, Zenon DEF Path
  <2> QED
    BY <1>2, <1>4, <2>1, Zenon DEF ClosedUnder
<1> QED
  BY <1>3, <1>4, Zenon DEF Path

LEMMA PathType ==
    ASSUME NEW s, NEW x, NEW p, NEW q, Path(s, x, p, q)
    PROVE  x \in Seq(Byte) /\ p \in Position /\ q \in Position
  BY DEF Path, Streams

\* Its first frame.
LEMMA PathFirst ==
    ASSUME NEW s, NEW x, NEW p, NEW r, Path(s, x, p, r)
    PROVE  \/ x = <<>> /\ p = r
           \/ \E b, y \in Seq(Byte), q \in Position :
                 x = b \o y /\ Carries(s, b, p, q) /\ Path(s, y, q, r)
<1> DEFINE First(z, u, w) == \/ z = <<>> /\ u = w
                             \/ \E b, y \in Seq(Byte), q \in Position :
                                   z = b \o y /\ Carries(s, b, u, q) /\ Path(s, y, q, w)
<1> DEFINE R == {t \in Streams : First(t[1], t[2], t[3]) /\ Path(s, t[1], t[2], t[3])}
<1>1. \A u \in Position : <<<<>>, u, u>> \in R
  <2>1. \A u \in Position : <<<<>>, u, u>> \in Streams
    <3>1. <<>> \in Seq(Byte)
      OBVIOUS
    <3> QED
      BY <3>1 DEF Streams
  <2> QED
    BY <2>1, PathNone
<1>2. ASSUME NEW b \in Seq(Byte), NEW y \in Seq(Byte),
             NEW u \in Position, NEW q \in Position, NEW w \in Position,
             Carries(s, b, u, q), <<y, q, w>> \in R
      PROVE  <<b \o y, u, w>> \in R
  <2>1. Path(s, y, q, w)
    BY <1>2
  <2>2. Path(s, b \o y, u, w)
    BY <1>2, <2>1, PathStep
  <2>3. <<b \o y, u, w>> \in Streams
    BY <2>2 DEF Path
  <2>4. First(b \o y, u, w)
    BY <1>2, <2>1, Zenon
  <2> HIDE DEF First
  <2> DEFINE z == b \o y
  <2>5. <<z, u, w>> \in Streams /\ First(z, u, w) /\ Path(s, z, u, w)
    BY <2>2, <2>3, <2>4
  <2> HIDE DEF z
  <2>6. <<z, u, w>> \in R
    BY <2>5
  <2> QED
    BY <2>6 DEF z
<1>3. R \in SUBSET Streams
  OBVIOUS
<1> HIDE DEF First
<1>4. <<x, p, r>> \in R => First(x, p, r)
  OBVIOUS
<1> HIDE DEF R
<1>5. ClosedUnder(s, R)
  BY <1>1, <1>2, Zenon DEF ClosedUnder
<1>6. <<x, p, r>> \in R
  BY <1>3, <1>5, Zenon DEF Path
<1> QED
  BY <1>4, <1>6 DEF First

LEMMA PathConcat ==
    ASSUME NEW s, NEW x, NEW p, NEW q, Path(s, x, p, q), NEW y, NEW r, Path(s, y, q, r)
    PROVE  Path(s, x \o y, p, r)
<1> DEFINE Goes(z, u, v) == \A a, w : Path(s, a, v, w) => Path(s, z \o a, u, w)
<1> DEFINE R == {t \in Streams : Goes(t[1], t[2], t[3])}
<1>1. ASSUME NEW u \in Position PROVE <<<<>>, u, u>> \in R
  <2>1. <<<<>>, u, u>> \in Streams
    <3>1. <<>> \in Seq(Byte)
      OBVIOUS
    <3> QED
      BY <3>1 DEF Streams
  <2>2. ASSUME NEW a, NEW w, Path(s, a, u, w) PROVE Path(s, <<>> \o a, u, w)
    <3>1. a \in Seq(Byte)
      BY <2>2, PathType
    <3>2. <<>> \o a = a
      BY <3>1, ConcatEmptySeq
    <3> QED
      BY <2>2, <3>2
  <2>3. Goes(<<>>, u, u)
    BY <2>2, Zenon
  <2> HIDE DEF Goes
  <2> QED
    BY <2>1, <2>3
<1>2. ASSUME NEW b \in Seq(Byte), NEW c \in Seq(Byte),
             NEW u \in Position, NEW v \in Position, NEW w \in Position,
             Carries(s, b, u, v), <<c, v, w>> \in R
      PROVE  <<b \o c, u, w>> \in R
  <2>1. Goes(c, v, w)
    BY <1>2
  <2>2. ASSUME NEW a, NEW t, Path(s, a, w, t) PROVE Path(s, (b \o c) \o a, u, t)
    <3>1. Path(s, c \o a, v, t)
      BY <2>1, <2>2, Zenon
    <3>2. a \in Seq(Byte) /\ c \o a \in Seq(Byte)
      BY <2>2, <3>1, PathType, Zenon
    <3>3. Path(s, b \o (c \o a), u, t)
      BY <1>2, <3>1, <3>2, PathStep, Zenon
    <3>4. (b \o c) \o a = b \o (c \o a)
      BY <3>2, Associates, Zenon
    <3> QED
      BY <3>3, <3>4, Zenon
  <2>3. Goes(b \o c, u, w)
    BY <2>2, Zenon
  <2> DEFINE z == b \o c
  <2>4. z \in Seq(Byte) /\ Goes(z, u, w)
    BY <2>3, Concats, Zenon
  <2> HIDE DEF Goes, z
  <2>5. <<z, u, w>> \in Streams
    BY <2>4 DEF Streams
  <2>6. <<z, u, w>> \in R
    BY <2>4, <2>5
  <2> QED
    BY <2>6 DEF z
<1>3. R \in SUBSET Streams
  OBVIOUS
<1> HIDE DEF Goes
<1>4. <<x, p, q>> \in R => Goes(x, p, q)
  OBVIOUS
<1> HIDE DEF R
<1>5. ClosedUnder(s, R)
  BY <1>1, <1>2, Zenon DEF ClosedUnder
<1>6. <<x, p, q>> \in R
  BY <1>3, <1>5, Zenon DEF Path
<1> QED
  BY <1>4, <1>6, Zenon DEF Goes

LEMMA PathOne ==
    ASSUME NEW s, NEW b \in Seq(Byte), NEW p \in Position, NEW q \in Position, Carries(s, b, p, q)
    PROVE  Path(s, b, p, q)
<1>1. Path(s, b \o <<>>, p, q)
  <2>1. Path(s, <<>>, q, q) /\ <<>> \in Seq(Byte)
    BY PathNone
  <2> QED
    BY <2>1, PathStep, Zenon
<1>2. b \o <<>> = b
  BY ConcatEmptySeq
<1> QED
  BY <1>1, <1>2, Zenon

\* Reading goes on, and it does not go back.
LEMMA PathForth ==
    ASSUME NEW s, NEW x, NEW p, NEW q, Path(s, x, p, q)
    PROVE  p.ends <= q.ends
<1> DEFINE R == {t \in Streams : t[2].ends <= t[3].ends}
<1>1. ASSUME NEW u \in Position PROVE <<<<>>, u, u>> \in R
  <2>1. u.ends \in Nat
    BY DEF Position
  <2>2. u.ends <= u.ends /\ <<>> \in Seq(Byte)
    BY <2>1
  <2>3. <<<<>>, u, u>> \in Streams
    BY <2>2 DEF Streams
  <2> QED
    BY <2>2, <2>3
<1>2. ASSUME NEW b \in Seq(Byte), NEW c \in Seq(Byte),
             NEW u \in Position, NEW v \in Position, NEW w \in Position,
             Carries(s, b, u, v), <<c, v, w>> \in R
      PROVE  <<b \o c, u, w>> \in R
  <2>1. u.ends <= v.ends
    <3>0. u.ends \in Nat
      BY DEF Position
    <3>1. CASE CarriesData(s, b, u, v)
      <4>1. PICK n \in Nat \ {0} : \/ v = [u EXCEPT !.msgs = @ + 1, !.bytes = 0]
                                  \/ v = [u EXCEPT !.bytes = @ + n]
        BY <3>1, Zenon DEF CarriesData
      <4>2. v.ends = u.ends
        BY <4>1 DEF Position
      <4> QED
        BY <3>0, <4>2
    <3>2. CASE CarriesControl(b, u, v)
      <4>1. v \in {[u EXCEPT !.pings = @ + 1], u, [u EXCEPT !.ends = @ + 1]}
        BY <3>2, Zenon DEF CarriesControl
      <4>2. v.ends \in {u.ends, u.ends + 1}
        BY <4>1 DEF Position
      <4> QED
        BY <3>0, <4>2
    <3>3. CASE CarriesHuge(b, u, v)
      BY <3>3 DEF CarriesHuge, Position
    <3> QED
      BY <1>2, <3>1, <3>2, <3>3 DEF Carries
  <2>2. v.ends <= w.ends
    BY <1>2
  <2>3. u.ends <= w.ends
    BY <2>1, <2>2 DEF Position
  <2> DEFINE z == b \o c
  <2>4. z \in Seq(Byte)
    BY Concats, Zenon
  <2> HIDE DEF z
  <2>5. <<z, u, w>> \in R
    BY <2>3, <2>4 DEF Streams
  <2> QED
    BY <2>5 DEF z
<1>3. R \in SUBSET Streams
  OBVIOUS
<1>4. <<x, p, q>> \in R => p.ends <= q.ends
  OBVIOUS
<1> HIDE DEF R
<1>5. ClosedUnder(s, R)
  BY <1>1, <1>2, Zenon DEF ClosedUnder
<1> QED
  BY <1>3, <1>4, <1>5, Zenon DEF Path

\* A message that is sent later changes nothing.
LEMMA PathGrows ==
    ASSUME NEW S, NEW s \in Seq(S), NEW m \in S, NEW x, NEW p, NEW q, Path(s, x, p, q)
    PROVE  Path(Append(s, m), x, p, q)
<1> DEFINE t == Append(s, m)
<1>1. Len(s) \in Nat /\ Len(t) = Len(s) + 1 /\ \A i \in 1 .. Len(s) : t[i] = s[i]
  OBVIOUS
<1> HIDE DEF t
<1>2. \A b, u, v : Carries(s, b, u, v) => Carries(t, b, u, v)
  <2>1. ASSUME NEW b, NEW u, NEW v, CarriesData(s, b, u, v) PROVE CarriesData(t, b, u, v)
    <3>1. u.msgs + 1 \in 1 .. Len(s)
      BY <2>1 DEF CarriesData
    <3>2. t[u.msgs + 1] = s[u.msgs + 1] /\ u.msgs + 1 \in 1 .. Len(t)
      BY <1>1, <3>1
    <3> QED
      BY <2>1, <3>2, Zenon DEF CarriesData
  <2> QED
    BY <2>1, Zenon DEF Carries
<1>3. ASSUME NEW R \in SUBSET Streams, ClosedUnder(t, R) PROVE ClosedUnder(s, R)
  BY <1>2, <1>3, Zenon DEF ClosedUnder
<1>4. Path(t, x, p, q)
  BY <1>3, Zenon DEF Path
<1> QED
  BY <1>4 DEF t

-----------------------------------------------------------------------------
(* What the peer sends.                                                    *)

At(msgs, bytes, i, e) == [msgs |-> msgs, bytes |-> bytes, pings |-> i, ends |-> e]

\* A frame with the bytes a + 1 .. a + n of message k.
LEMMA PieceCarries ==
    ASSUME NEW s, NEW k \in 1 .. Len(s), NEW d \in Seq(Byte), d = s[k].data, Len(s) \in Nat,
           NEW a \in Nat, NEW n \in Nat \ {0}, a + n <= Len(d), NEW b, IsFrame(b),
           Body(b) = SubSeq(d, a + 1, a + n),
           OpCode(b[1]) = (IF a = 0 THEN s[k].op ELSE CONTINUE),
           HighBit(b[1]) = (IF a + n = Len(d) THEN 1 ELSE 0), NEW i \in Nat, NEW e \in Nat
    PROVE  Path(s, b, At(k - 1, a, i, e),
                IF a + n = Len(d) THEN At(k, 0, i, e) ELSE At(k - 1, a + n, i, e))
<1> DEFINE p == At(k - 1, a, i, e)
<1> DEFINE q == IF a + n = Len(d) THEN At(k, 0, i, e) ELSE At(k - 1, a + n, i, e)
<1>1. p \in Position /\ q \in Position /\ b \in Seq(Byte)
  BY FrameFacts DEF At, Position
<1>2. p.msgs + 1 = k /\ p.bytes = a
  BY DEF At
<1>3. q = IF a + n = Len(d) THEN [p EXCEPT !.msgs = @ + 1, !.bytes = 0] ELSE [p EXCEPT !.bytes = @ + n]
  <2>1. CASE a + n = Len(d)
    <3>1. (k - 1) + 1 = k
      OBVIOUS
    <3> QED
      BY <2>1, <3>1 DEF At
  <2>2. CASE a + n # Len(d)
    BY <2>2 DEF At
  <2> QED
    BY <2>1, <2>2
<1> HIDE DEF p, q
<1>4. \/ HighBit(b[1]) = 1 /\ a + n = Len(d) /\ q = [p EXCEPT !.msgs = @ + 1, !.bytes = 0]
      \/ HighBit(b[1]) = 0 /\ q = [p EXCEPT !.bytes = @ + n]
  BY <1>3, Zenon
<1>5. CarriesData(s, b, p, q)
  BY <1>2, <1>4, Zenon DEF CarriesData
<1>6. Path(s, b, p, q)
  BY <1>1, <1>5, PathOne, Zenon DEF Carries
<1> QED
  BY <1>6 DEF p, q

LEMMA ControlCarries ==
    ASSUME NEW s, NEW b, Whole(b), NEW k \in Nat, NEW i \in Nat, NEW e \in Nat, NEW a \in Nat
    PROVE  /\ OpCode(b[1]) = PING => Path(s, b, At(k, a, i, e), At(k, a, i + 1, e))
           /\ OpCode(b[1]) = PONG => Path(s, b, At(k, a, i, e), At(k, a, i, e))
           /\ OpCode(b[1]) = CLOSE => Path(s, b, At(k, a, i, e), At(k, a, i, e + 1))
<1> DEFINE p == At(k, a, i, e)
<1>1. p \in Position /\ At(k, a, i + 1, e) \in Position /\ At(k, a, i, e + 1) \in Position
  BY DEF At, Position
<1>2. At(k, a, i + 1, e) = [p EXCEPT !.pings = @ + 1] /\ At(k, a, i, e + 1) = [p EXCEPT !.ends = @ + 1]
  BY DEF At
<1>3. b \in Seq(Byte)
  BY WholeFacts
<1> HIDE DEF p
<1>4. /\ OpCode(b[1]) = PING => Carries(s, b, p, At(k, a, i + 1, e))
      /\ OpCode(b[1]) = PONG => Carries(s, b, p, p)
      /\ OpCode(b[1]) = CLOSE => Carries(s, b, p, At(k, a, i, e + 1))
  BY <1>2, Zenon DEF Carries, CarriesControl
<1>5. /\ OpCode(b[1]) = PING => Path(s, b, p, At(k, a, i + 1, e))
      /\ OpCode(b[1]) = PONG => Path(s, b, p, p)
      /\ OpCode(b[1]) = CLOSE => Path(s, b, p, At(k, a, i, e + 1))
  BY <1>1, <1>3, <1>4, PathOne, Zenon
<1> QED
  BY <1>5 DEF p

LEMMA HugeCarries ==
    ASSUME NEW s, NEW k \in Nat, NEW i \in Nat, NEW e \in Nat
    PROVE  Path(s, HugeBytes, At(k, 0, i, e), At(k, 0, i, e + 1))
<1>1. At(k, 0, i, e) \in Position /\ At(k, 0, i, e + 1) \in Position
  BY DEF At, Position
<1>2. At(k, 0, i, e + 1) = [At(k, 0, i, e) EXCEPT !.ends = @ + 1]
  BY DEF At
<1>3. Carries(s, HugeBytes, At(k, 0, i, e), At(k, 0, i, e + 1))
  BY <1>2, Zenon DEF Carries, CarriesHuge
<1>4. HugeBytes \in Seq(Byte)
  BY HugeFacts
<1> QED
  BY <1>1, <1>3, <1>4, PathOne, Zenon

\* How a message is cut into fragments.
LEMMA Fragments ==
    ASSUME NEW L \in Nat \ {0}, NEW F \in Nat \ {0}, NEW n, n = (L + F - 1) \div F
    PROVE  /\ n \in Nat \ {0} /\ L <= n * F
           /\ \A j \in 1 .. n : (j - 1) * F \in Nat /\ (j - 1) * F < L /\ j * F = (j - 1) * F + F
           /\ \A j \in 1 .. n - 1 : j * F < L /\ j * F \in Nat
<1>1. n \in Nat
  OBVIOUS
<1>2. n >= 1
  OBVIOUS
<1>3. L <= n * F /\ n * F < L + F
  BY <1>1, Z3
<1>4. ASSUME NEW j \in 0 .. n - 1 PROVE j * F < L /\ j * F \in Nat
  <2>1. j \in Nat /\ j + 1 <= n
    BY <1>1, <1>4
  <2>2. (j + 1) * F <= n * F
    BY <1>1, <2>1, Z3
  <2>3. (j + 1) * F = j * F + F /\ j * F \in Nat
    BY <2>1, Z3
  <2> QED
    BY <1>1, <1>3, <2>1, <2>2, <2>3, Z3
<1>5. ASSUME NEW j \in 1 .. n PROVE j * F = (j - 1) * F + F
  BY <1>1, <1>5, Z3
<1>6. \A j \in 1 .. n : j - 1 \in 0 .. n - 1
  BY <1>1
<1>7. \A j \in 1 .. n - 1 : j \in 0 .. n - 1
  BY <1>1
<1> QED
  BY <1>1, <1>2, <1>3, <1>4, <1>5, <1>6, <1>7

\* The lengths of fragments.
LEMMA FragmentFits == \A n \in 1 .. FragLen : n \in FourByteNumbers
<1>1. ShortLen \in 1 .. 125 /\ MediumLen \in ShortLen .. 65535 /\ FragLen \in 1 .. MediumLen
  BY CodecAssumption, SMT
<1> SUFFICES ASSUME NEW n \in 1 .. FragLen PROVE n \in FourByteNumbers
  OBVIOUS
<1>2. n \in Nat \ {0} /\ n <= 65535
  BY <1>1, SMT
<1>3. n \div 256 \in Nat /\ n \div 256 < 256
  BY <1>2, SMT
<1>4. (n \div 256) \div 256 \in Nat /\ (n \div 256) \div 256 < 256
  BY <1>3
<1>5. ((n \div 256) \div 256) \div 256 < 256
  BY <1>4
<1> QED
  BY <1>2, <1>5 DEF FourByteNumbers

LEMMA OwnFrames ==
    ASSUME NEW d \in Seq(Byte), d # <<>>, NEW op \in {TEXT, BIN}, NEW s, NEW k, k = Len(s), k \in Nat \ {0},
           s[k].op = op, s[k].data = d, NEW i \in Nat, NEW e \in Nat
    PROVE  Path(s, Frames(d, op), At(k - 1, 0, i, e), At(k, 0, i, e))
<1> DEFINE L == Len(d)
<1> DEFINE n == (L + FragLen - 1) \div FragLen
<1> DEFINE frame(j) == FrameWithoutFragment(Fragment(d, j), IF j = 1 THEN op ELSE CONTINUE,
                                            IF j = n THEN 1 ELSE 0, 0)
<1> DEFINE F == [j \in 1 .. n |-> frame(j)]
<1> DEFINE P(j) == IF j = n THEN At(k, 0, i, e) ELSE At(k - 1, j * FragLen, i, e)
<1>0. Frames(d, op) = FlattenSeq(F)
  BY DEF Frames
<1>1. L \in Nat \ {0} /\ FragLen \in Nat \ {0} /\ op \in 1 .. 15 /\ CONTINUE = 0
  <2>1. FragLen \in Nat \ {0}
    BY CodecAssumption, SMT
  <2>2. L \in Nat \ {0}
    BY EmptySeq
  <2> QED
    BY <2>1, <2>2 DEF TEXT, BIN, CONTINUE
<1>2. /\ n \in Nat \ {0} /\ L <= n * FragLen
      /\ \A j \in 1 .. n : (j - 1) * FragLen \in Nat /\ (j - 1) * FragLen < L
                           /\ j * FragLen = (j - 1) * FragLen + FragLen
      /\ \A j \in 1 .. n - 1 : j * FragLen < L /\ j * FragLen \in Nat
  BY <1>1, Fragments
<1>2a. L = Len(d)
  OBVIOUS
<1>3. ASSUME NEW j \in 1 .. n
      PROVE  /\ frame(j) \in Seq(Byte)
             /\ Path(s, frame(j), P(j - 1), P(j))
  <2> DEFINE a == (j - 1) * FragLen
  <2> DEFINE c == IF j * FragLen <= L THEN j * FragLen ELSE L
  <2> DEFINE m == c - a
  <2> DEFINE o == IF j = 1 THEN op ELSE CONTINUE
  <2> DEFINE fin == IF j = n THEN 1 ELSE 0
  <2>1. /\ a \in Nat /\ a < L /\ j * FragLen = a + FragLen /\ j \in Nat \ {0}
        /\ (j = n => L <= j * FragLen) /\ (j # n => j * FragLen < L) /\ (j = 1 <=> a = 0)
    <3>1. a \in Nat /\ a < L /\ j * FragLen = a + FragLen /\ j \in Nat \ {0}
      BY <1>2, <1>3
    <3>2. j = n => L <= j * FragLen
      BY <1>2
    <3>3. j # n => j * FragLen < L
      <4>1. j # n => j \in 1 .. n - 1
        BY <1>2, <1>3
      <4> QED
        BY <1>2, <4>1
    <3>4. j = 1 <=> a = 0
      <4>1. j = 1 => a = 0
        BY <1>1
      <4>2. j # 1 => a # 0
        <5>1. j # 1 => j - 1 \in Nat \ {0}
          BY <3>1
        <5>2. \A x, y \in Nat \ {0} : x * y # 0
          BY Z3
        <5> QED
          BY <1>1, <5>1, <5>2
      <4> QED
        BY <4>1, <4>2
    <3> QED
      BY <3>1, <3>2, <3>3, <3>4
  <2>2. Fragment(d, j) = SubSeq(d, a + 1, c)
    BY DEF Fragment, Smaller
  <2> HIDE DEF a
  <2>3. c \in Nat /\ c <= L /\ (c = L <=> j = n) /\ (j # n => c = j * FragLen) /\ a < c /\ c - a <= FragLen
    BY <1>1, <2>1
  <2> HIDE DEF c
  <2>4. m \in 1 .. FragLen /\ m \in Nat \ {0} /\ a + m = c
    BY <1>1, <2>1, <2>3
  <2> HIDE DEF m
  <2> DEFINE x == SubSeq(d, a + 1, c)
  <2>5. x \in Seq(Byte) /\ Len(x) = m
    <3>1. \A y \in 1 .. Len(d) : d[y] \in Byte
      OBVIOUS
    <3>2. a + 1 \in Nat /\ \A y \in a + 1 .. c : y \in 1 .. Len(d)
      BY <1>2a, <2>1, <2>3
    <3>3. \A y \in a + 1 .. c : d[y] \in Byte
      BY <3>1, <3>2, Zenon
    <3>4. x \in Seq(Byte) /\ Len(x) = (IF a + 1 <= c THEN c - (a + 1) + 1 ELSE 0)
      BY <2>3, <3>2, <3>3, SubSeqProperties
    <3>5. a + 1 <= c /\ c - (a + 1) + 1 = m
      BY <2>1, <2>3, <2>4
    <3> QED
      BY <3>4, <3>5
  <2>6. o \in 0 .. 15 /\ fin \in 0 .. 1
    BY <1>1
  <2>7. o = (IF a = 0 THEN s[k].op ELSE CONTINUE) /\ fin = (IF a + m = L THEN 1 ELSE 0)
    BY <2>1, <2>3, <2>4
  <2>8. frame(j) = FrameWithoutFragment(x, o, fin, 0)
    BY <2>2
  <2> HIDE DEF x, o, fin
  <2> DEFINE b == FrameWithoutFragment(x, o, fin, 0)
  <2>9. IsFrame(b) /\ Body(b) = x /\ HighBit(b[1]) = fin /\ OpCode(b[1]) = o
    <3>1. Len(x) \in FourByteNumbers /\ x \in Seq(Byte)
      BY <2>4, <2>5, FragmentFits
    <3>2. PICK mask \in 0 .. 1 : b = FrameWithoutFragment(x, o, fin, mask)
      OBVIOUS
    <3> HIDE DEF b
    <3>3. Encodes(b, x, o, fin)
      BY <2>6, <3>1, <3>2, GeneratedFrame, Zenon
    <3> QED
      BY <3>3, Zenon DEF Encodes
  <2>10. b = frame(j)
    BY <2>8
  <2> HIDE DEF b, frame
  <2>11. Path(s, b, At(k - 1, a, i, e), IF a + m = L THEN At(k, 0, i, e) ELSE At(k - 1, a + m, i, e))
    <3>1. k \in 1 .. Len(s) /\ Len(s) \in Nat /\ a \in Nat /\ a + m <= Len(d)
      BY <1>2a, <2>1, <2>3, <2>4
    <3>2. Body(b) = SubSeq(d, a + 1, a + m)
      BY <2>4, <2>9 DEF x
    <3>3. HighBit(b[1]) = (IF a + m = Len(d) THEN 1 ELSE 0) /\ OpCode(b[1]) = (IF a = 0 THEN s[k].op ELSE CONTINUE)
      BY <1>2a, <2>7, <2>9
    <3>4. d = s[k].data /\ i \in Nat /\ e \in Nat
      OBVIOUS
    <3>5. Path(s, b, At(k - 1, a, i, e), IF a + m = Len(d) THEN At(k, 0, i, e) ELSE At(k - 1, a + m, i, e))
      BY <2>4, <2>9, <3>1, <3>2, <3>3, <3>4, PieceCarries
    <3> QED
      BY <1>2a, <3>5, Zenon
  <2>12. P(j - 1) = At(k - 1, a, i, e)
    <3>1. j - 1 # n
      BY <1>2, <1>3
    <3> QED
      BY <3>1 DEF a
  <2>13. P(j) = IF a + m = L THEN At(k, 0, i, e) ELSE At(k - 1, a + m, i, e)
    <3>1. a + m = L <=> j = n
      BY <2>3, <2>4
    <3>2. j # n => j * FragLen = a + m
      BY <2>3, <2>4
    <3> QED
      BY <3>1, <3>2, Zenon
  <2> HIDE DEF P, n
  <2>14. b \in Seq(Byte)
    BY <2>9, FrameFacts
  <2> QED
    BY <2>10, <2>11, <2>12, <2>13, <2>14
<1>4. F \in [1 .. n -> Seq(Byte)]
  BY <1>3
<1>5. F \in Seq(Seq(Byte)) /\ Len(F) = n
  BY <1>2, <1>4
<1>6. \A j \in 1 .. n : F[j] = frame(j)
  OBVIOUS
<1>7. P(0) = At(k - 1, 0, i, e) /\ P(n) = At(k, 0, i, e)
  BY <1>1, <1>2
<1> HIDE DEF F, frame, P, n, L
<1>8. PICK f : Sums(F, n, Byte, f)
  BY <1>5, FlattenBy
<1>9. FlattenSeq(F) = f[n]
  BY <1>5, <1>8, FlattenBy
<1> DEFINE R == {j \in 0 .. n : Path(s, f[j], P(0), P(j))}
<1>10. 0 \in R
  <2>1. f[0] = <<>>
    BY <1>8 DEF Sums
  <2>2. k - 1 \in Nat /\ 0 \in 0 .. n /\ P(0) \in Position
    BY <1>2, <1>7 DEF At, Position
  <2> QED
    BY <2>1, <2>2, PathNone
<1>11. ASSUME NEW j \in 0 .. n - 1, j \in R PROVE j + 1 \in R
  <2>1. j + 1 \in 1 .. n /\ (j + 1) - 1 = j /\ j + 1 \in 0 .. n
    BY <1>2, <1>11
  <2>2. f[j + 1] = f[j] \o frame(j + 1)
    BY <1>6, <1>8, <2>1 DEF Sums
  <2>3. Path(s, frame(j + 1), P(j), P(j + 1))
    <3>1. Path(s, frame(j + 1), P((j + 1) - 1), P(j + 1))
      BY <1>3, <2>1, Zenon
    <3> QED
      BY <2>1, <3>1
  <2>4. Path(s, f[j], P(0), P(j))
    BY <1>11
  <2>5. Path(s, f[j + 1], P(0), P(j + 1))
    BY <2>2, <2>3, <2>4, PathConcat, Zenon
  <2> QED
    BY <2>1, <2>5
<1> HIDE DEF R
<1>12. \A j \in 0 .. n : j \in R
  BY <1>2, <1>10, <1>11, UpTo
<1>13. n \in R
  BY <1>2, <1>12
<1>14. Path(s, f[n], P(0), P(n))
  BY <1>13 DEF R
<1> QED
  BY <1>0, <1>7, <1>9, <1>14, Zenon

-----------------------------------------------------------------------------
(* A message in parts.                                                     *)

\* t[i] is the sum of the first i sizes.
Totals(s, n, t) ==
    /\ t \in [0 .. n -> Nat] /\ t[0] = 0
    /\ \A i \in 1 .. n : t[i] = t[i - 1] + s[i]

LEMMA TotalsExist ==
    ASSUME NEW n \in Nat, NEW s \in [1 .. n -> Nat]
    PROVE  \E t : Totals(s, n, t)
<1> DEFINE S == {k \in Nat : \E t : Totals(s, k, t)}
<1>1. 0 \in S
  <2>1. Totals(s, 0, [i \in 0 .. 0 |-> 0])
    BY DEF Totals
  <2> QED
    BY <2>1
<1>2. ASSUME NEW k \in 0 .. n - 1, k \in S PROVE k + 1 \in S
  <2>1. PICK t : Totals(s, k, t)
    BY <1>2
  <2> DEFINE x == t[k] + s[k + 1]
  <2> DEFINE g == [i \in 0 .. k + 1 |-> IF i <= k THEN t[i] ELSE x]
  <2>2. k \in Nat /\ t[k] \in Nat /\ s[k + 1] \in Nat /\ x \in Nat
    BY <1>2, <2>1 DEF Totals
  <2>3. g \in [0 .. k + 1 -> Nat] /\ g[0] = 0
    BY <2>1, <2>2 DEF Totals
  <2>4. ASSUME NEW i \in 1 .. k + 1 PROVE g[i] = g[i - 1] + s[i]
    <3>1. CASE i <= k
      BY <2>1, <2>2, <2>4, <3>1 DEF Totals
    <3>2. CASE i = k + 1
      BY <2>2, <3>2
    <3>3. i <= k \/ i = k + 1
      BY <2>2, <2>4
    <3> QED
      BY <3>1, <3>2, <3>3, Zenon
  <2>5. Totals(s, k + 1, g)
    BY <2>3, <2>4, Zenon DEF Totals
  <2> QED
    BY <2>2, <2>5
<1> HIDE DEF S
<1>3. \A k \in 0 .. n : k \in S
  BY <1>1, <1>2, UpTo
<1>4. n \in S
  BY <1>3
<1> QED
  BY <1>4 DEF S

\* The recursion of split_ont_size_to_multi_parts, unfolded.
LEMMA EndsAre ==
    ASSUME NEW n \in Nat, NEW s \in [1 .. n -> Nat], n = Len(s)
    PROVE  Totals(s, n, PartEnds(s))
<1> DEFINE Is(g) == g = [k \in 0 .. n |-> IF k = 0 THEN 0 ELSE g[k - 1] + s[k]]
<1> DEFINE e == PartEnds(s)
<1>1. e = CHOOSE g : Is(g)
  BY DEF PartEnds
<1>2. PICK t : Totals(s, n, t)
  BY TotalsExist
<1>3. Is(t)
  <2>1. ASSUME NEW k \in 0 .. n PROVE t[k] = IF k = 0 THEN 0 ELSE t[k - 1] + s[k]
    BY <1>2, <2>1 DEF Totals
  <2>2. t = [k \in 0 .. n |-> t[k]]
    BY <1>2 DEF Totals
  <2>3. [k \in 0 .. n |-> t[k]] = [k \in 0 .. n |-> IF k = 0 THEN 0 ELSE t[k - 1] + s[k]]
    BY <2>1
  <2> QED
    BY <2>2, <2>3
<1> HIDE DEF e, Is
<1>4. Is(e)
  BY <1>1, <1>3
<1>5. e[0] = 0 /\ \A k \in 1 .. n : e[k] = e[k - 1] + s[k]
  <2>1. e = [k \in 0 .. n |-> IF k = 0 THEN 0 ELSE e[k - 1] + s[k]]
    BY <1>4 DEF Is
  <2>2. \A k \in 0 .. n : e[k] = IF k = 0 THEN 0 ELSE e[k - 1] + s[k]
    BY <2>1
  <2> QED
    BY <2>2
<1> DEFINE S == {k \in Nat : e[k] \in Nat}
<1>6. 0 \in S
  BY <1>5
<1>7. ASSUME NEW k \in 0 .. n - 1, k \in S PROVE k + 1 \in S
  <2>1. k + 1 \in 1 .. n /\ (k + 1) - 1 = k /\ k \in Nat /\ e[k] \in Nat
    BY <1>7
  <2>2. e[k + 1] = e[k] + s[k + 1]
    BY <1>5, <2>1
  <2> QED
    BY <2>1, <2>2
<1> HIDE DEF S
<1>8. \A k \in 0 .. n : k \in S
  BY <1>6, <1>7, UpTo
<1>9. \A k \in 0 .. n : e[k] \in Nat
  BY <1>8 DEF S
<1>10. e \in [0 .. n -> Nat]
  BY <1>4, <1>9 DEF Is
<1> QED
  BY <1>5, <1>10 DEF Totals, e

LEMMA PartCountType == ASSUME NEW count \in Nat PROVE PartCount(count) \in Nat \ {0}
  BY DEF PartCount, Smaller

\* The parts of a message are all of it.
LEMMA PartsWhole ==
    ASSUME NEW bytes \in Seq(Byte), NEW count \in Nat, NEW split \in Splits(Len(bytes), count)
    PROVE  FlattenSeq(Parts(bytes, split)) = bytes
<1> DEFINE size == Len(bytes)
<1> DEFINE n == PartCount(count)
<1> DEFINE a == (size \div n) - 1
<1>1. size \in Nat /\ n \in Nat \ {0}
  BY PartCountType
<1>2. PICK drawn \in [1 .. n - 1 -> 1 .. a] : split = Append(drawn, LastPart(size, drawn))
  BY DEF Splits
<1>2a. size = Len(bytes)
  OBVIOUS
<1> HIDE DEF size, n
<1>3. n - 1 \in Nat /\ drawn \in [1 .. n - 1 -> Nat] /\ Len(drawn) = n - 1 /\ drawn \in Seq(Nat)
      /\ \A k \in 1 .. n - 1 : drawn[k] \in 1 .. a
  <2>1. n - 1 \in Nat /\ \A k \in 1 .. n - 1 : drawn[k] \in 1 .. a
    BY <1>1, <1>2
  <2>2. a \in Int
    BY <1>1
  <2> HIDE DEF a
  <2>3. drawn \in [1 .. n - 1 -> Nat]
    BY <1>2, <2>1, <2>2
  <2> QED
    BY <2>1, <2>3
<1> DEFINE d == PartEnds(drawn)
<1>4. Totals(drawn, n - 1, d)
  BY <1>3, EndsAre
<1>5. (n - 1) * a <= size
  <2>1. n * (size \div n) <= size /\ size \div n \in Nat
    BY <1>1, Z3
  <2>2. (n - 1) * a = n * (size \div n) - n - (size \div n) + 1
    BY <1>1, <2>1, Z3
  <2> QED
    BY <1>1, <2>1, <2>2, Z3
<1>6. d[n - 1] \in Nat /\ d[n - 1] <= size
  <2> HIDE DEF d
  <2>1. d[n - 1] \in Nat
    BY <1>3, <1>4 DEF Totals
  <2> DEFINE S == {k \in Nat : d[k] <= k * a}
  <2>2. CASE n = 1
    BY <1>1, <1>4, <2>1, <2>2 DEF Totals
  <2>3. CASE n # 1
    <3>1. a \in Nat
      <4>1. 1 \in 1 .. n - 1
        BY <1>1, <2>3
      <4>2. drawn[1] \in 1 .. a
        BY <1>3, <4>1
      <4>3. a \in Int
        BY <1>1
      <4> QED
        BY <4>2, <4>3
    <3> HIDE DEF a
    <3>2. 0 \in S
      BY <1>4, <3>1 DEF Totals
    <3>3. ASSUME NEW k \in 0 .. (n - 1) - 1, k \in S PROVE k + 1 \in S
      <4>1. k \in Nat /\ d[k] <= k * a /\ k + 1 \in 1 .. n - 1 /\ (k + 1) - 1 = k
        BY <1>1, <3>3
      <4>2. d[k + 1] = d[k] + drawn[k + 1] /\ d[k] \in Nat
        <5>1. d \in [0 .. n - 1 -> Nat] /\ \A i \in 1 .. n - 1 : d[i] = d[i - 1] + drawn[i]
          BY <1>4 DEF Totals
        <5>2. d[k + 1] = d[(k + 1) - 1] + drawn[k + 1] /\ k \in 0 .. n - 1
          BY <1>3, <4>1, <5>1
        <5> QED
          BY <4>1, <5>1, <5>2
      <4>3. drawn[k + 1] \in Nat /\ drawn[k + 1] <= a
        BY <1>3, <3>1, <4>1
      <4>4. (k + 1) * a = k * a + a /\ k * a \in Nat
        BY <3>1, <4>1, Z3
      <4>5. d[k + 1] <= (k + 1) * a
        BY <3>1, <4>1, <4>2, <4>3, <4>4
      <4> QED
        BY <4>1, <4>5
    <3> HIDE DEF S
    <3>4. \A k \in 0 .. n - 1 : k \in S
      BY <1>3, <3>2, <3>3, UpTo
    <3>5. d[n - 1] <= (n - 1) * a
      BY <1>3, <3>4 DEF S
    <3>6. (n - 1) * a \in Nat
      BY <1>3, <3>1, Z3
    <3> QED
      BY <1>1, <1>5, <2>1, <3>5, <3>6
  <2> QED
    BY <2>2, <2>3
<1> DEFINE last == LastPart(size, drawn)
<1>7. last \in Nat /\ d[n - 1] + last = size
  <2>1. last = size - d[n - 1]
    BY <1>3 DEF LastPart, Total
  <2> HIDE DEF last, d
  <2>2. \A x, y \in Nat : x <= y => y - x \in Nat /\ x + (y - x) = y
    OBVIOUS
  <2> QED
    BY <1>1, <1>6, <2>1, <2>2, Zenon
<1> HIDE DEF last, d, a
<1>8. /\ split \in [1 .. n -> Nat] /\ Len(split) = n
      /\ split[n] = last /\ \A k \in 1 .. n - 1 : split[k] = drawn[k]
  <2>1. split = Append(drawn, last)
    BY <1>2 DEF last
  <2>2. split \in Seq(Nat) /\ Len(split) = n
    BY <1>1, <1>3, <1>7, <2>1
  <2>3. split[n] = last /\ \A k \in 1 .. n - 1 : split[k] = drawn[k]
    BY <1>1, <1>3, <1>7, <2>1
  <2> QED
    BY <2>2, <2>3
<1> DEFINE e == PartEnds(split)
<1>9. Totals(split, n, e)
  BY <1>1, <1>8, EndsAre
<1>10. Parts(bytes, split) = [k \in 1 .. n |-> SubSeq(bytes, e[k - 1] + 1, e[k])]
  BY <1>8 DEF Parts
<1> HIDE DEF e
<1>11. /\ \A k \in 0 .. n : e[k] \in Nat
       /\ e[0] = 0 /\ \A k \in 1 .. n : e[k] = e[k - 1] + split[k] /\ split[k] \in Nat /\ e[k - 1] \in Nat
  <2>1. \A k \in 1 .. n : split[k] \in Nat
    BY <1>8
  <2>2. e \in [0 .. n -> Nat] /\ e[0] = 0 /\ \A k \in 1 .. n : e[k] = e[k - 1] + split[k]
    BY <1>9 DEF Totals
  <2>3. \A k \in 1 .. n : k - 1 \in 0 .. n
    BY <1>1
  <2> QED
    BY <2>1, <2>2, <2>3
<1>12. e[n] = size
  <2> DEFINE S == {k \in Nat : e[k] = d[k]}
  <2>1. 0 \in S
    BY <1>4, <1>11 DEF Totals
  <2>2. ASSUME NEW k \in 0 .. (n - 1) - 1, k \in S PROVE k + 1 \in S
    <3>1. k \in Nat /\ e[k] = d[k] /\ k + 1 \in 1 .. n - 1 /\ k + 1 \in 1 .. n /\ (k + 1) - 1 = k
      BY <1>1, <2>2
    <3>2. d[k + 1] = d[k] + drawn[k + 1]
      BY <1>4, <3>1 DEF Totals
    <3>3. e[k + 1] = e[k] + split[k + 1] /\ split[k + 1] = drawn[k + 1]
      BY <1>8, <1>11, <3>1
    <3> QED
      BY <3>1, <3>2, <3>3
  <2> HIDE DEF S
  <2>3. \A k \in 0 .. n - 1 : k \in S
    BY <1>3, <2>1, <2>2, UpTo
  <2>4. e[n - 1] = d[n - 1]
    BY <1>3, <2>3 DEF S
  <2>5. e[n] = e[n - 1] + split[n]
    BY <1>1, <1>11
  <2> QED
    BY <1>7, <1>8, <2>4, <2>5
<1>13. \A k \in 0 .. n : e[k] <= size
  <2> DEFINE S == {k \in Nat : e[n - k] <= size}
  <2>1. 0 \in S
    BY <1>1, <1>12
  <2>2. ASSUME NEW k \in 0 .. n - 1, k \in S PROVE k + 1 \in S
    <3>1. k \in Nat /\ n - k \in 1 .. n /\ n - (k + 1) = (n - k) - 1 /\ e[n - k] <= size
      BY <1>1, <2>2
    <3>2. e[n - k] = e[(n - k) - 1] + split[n - k] /\ split[n - k] \in Nat /\ e[(n - k) - 1] \in Nat
      BY <1>11, <3>1
    <3>3. e[n - (k + 1)] <= size
      BY <1>1, <3>1, <3>2
    <3> QED
      BY <3>1, <3>3
  <2> HIDE DEF S
  <2>3. \A k \in 0 .. n : k \in S
    BY <1>1, <2>1, <2>2, UpTo
  <2>4. ASSUME NEW k \in 0 .. n PROVE e[k] <= size
    <3>1. n - k \in 0 .. n /\ n - (n - k) = k
      BY <1>1, <2>4
    <3>2. n - k \in S
      BY <2>3, <3>1
    <3> QED
      BY <3>1, <3>2 DEF S
  <2> QED
    BY <2>4
<1>14. FlattenSeq(Parts(bytes, split)) = SubSeq(bytes, 1, e[n])
  <2> DEFINE s == [k \in 1 .. n |-> SubSeq(bytes, e[k - 1] + 1, e[k])]
  <2>1. e \in [0 .. n -> 0 .. Len(bytes)]
    <3>1. e \in [0 .. n -> Nat]
      BY <1>9 DEF Totals
    <3>2. \A k \in 0 .. n : e[k] \in 0 .. size
      BY <1>1, <1>11, <1>13
    <3> QED
      BY <1>2a, <3>1, <3>2
  <2>2. \A k \in 1 .. n : e[k - 1] <= e[k]
    BY <1>11
  <2>3. ASSUME NEW k \in 1 .. n PROVE SubSeq(bytes, e[k - 1] + 1, e[k]) \in Seq(Byte)
    <3>1. \A y \in 1 .. Len(bytes) : bytes[y] \in Byte
      OBVIOUS
    <3>2. e[k] \in Nat /\ e[k] <= Len(bytes) /\ e[k - 1] \in Nat /\ Len(bytes) \in Nat
      BY <1>1, <1>2a, <1>11, <1>13, <2>3
    <3>3. e[k - 1] + 1 \in Nat /\ \A y \in e[k - 1] + 1 .. e[k] : y \in 1 .. Len(bytes)
      BY <3>2
    <3>4. \A y \in e[k - 1] + 1 .. e[k] : bytes[y] \in Byte
      BY <3>1, <3>3, Zenon
    <3> QED
      BY <3>2, <3>3, <3>4, SubSeqProperties
  <2>4. s \in [1 .. n -> Seq(Byte)]
    BY <2>3
  <2>5. \A k \in 1 .. n : s[k] = SubSeq(bytes, e[k - 1] + 1, e[k])
    OBVIOUS
  <2> HIDE DEF s
  <2>6. s \in Seq(Seq(Byte)) /\ n = Len(s) /\ n \in Nat
    BY <1>1, <2>4
  <2>7. FlattenSeq(s) = SubSeq(bytes, 1, e[n])
    <3>1. e[0] = 0
      BY <1>11
    <3> QED
      BY <2>1, <2>2, <2>5, <2>6, <3>1, FlattenPieces, ZenonT(90)
  <2> QED
    BY <1>10, <2>7 DEF s
<1> QED
  BY <1>2a, <1>12, <1>14, SubSeqFull

-----------------------------------------------------------------------------
(* What the peer appends to the stream.                                    *)

\* What the parser can follow: a parser that is given a ping of this library, or
\* a masked empty one, takes bytes for a frame that are none; and a message of
\* length 0 is not handed over.
Understood ==
    /\ "own ping" \notin Traffic /\ ("empty ping" \in Traffic => PeerMask = 0)
    /\ 0 \notin OwnLens /\ 0 \notin ForeignLens

Message == [op : {TEXT, BIN}, data : Seq(Byte)]

\* What is sent takes a reader who knows all messages from the old end of the
\* stream to its new end.
Appends(bytes) ==
    /\ bytes \in Seq(Byte) /\ wire' = wire \o bytes
    /\ sends' \in 0 .. MaxSends /\ pings' \in Nat /\ ends' \in Nat /\ ends <= ends'
    /\ sent' = sent \/ \E m \in Message : sent' = Append(sent, m)
    /\ Path(sent', bytes, At(Len(sent), 0, pings, ends), At(Len(sent'), 0, pings', ends'))
    /\ UNCHANGED <<chunk, hd, got, pongs, closing>>

\* The part of the type invariant that the peer needs.
PeerType ==
    sent \in Seq(Message) /\ pings \in Nat /\ ends \in Nat /\ sends \in 0 .. MaxSends /\ wire \in Seq(Byte)

LEMMA PutSends ==
    ASSUME PeerType, NEW bytes, Put(bytes)
    PROVE  /\ sends' \in 0 .. MaxSends /\ wire' = wire \o bytes
           /\ UNCHANGED <<chunk, hd, got, pongs, closing>>
<1>1. MaxSends \in Nat
  BY StreamAssumption, Zenon
<1> QED
  BY <1>1 DEF PeerType, Put

LEMMA PayloadType ==
    ASSUME PeerType, NEW n \in Nat
    PROVE  Payload(n) \in Seq(Byte) /\ Len(Payload(n)) = n
<1>1. Len(sent) \in Nat
  BY DEF PeerType
<1>2. \A i \in 1 .. n : (16 * Len(sent) + 125 + i) % 256 \in Byte
  <2>1. \A l \in Nat, i \in 1 .. n : (16 * l + 125 + i) % 256 \in Byte
    BY DEF Byte
  <2> QED
    BY <1>1, <2>1
<1>3. Payload(n) \in [1 .. n -> Byte]
  BY <1>2 DEF Payload
<1> QED
  BY <1>3

\* A message that is appended to those sent.
LEMMA NewMessage ==
    ASSUME PeerType, NEW op \in {TEXT, BIN}, NEW d \in Seq(Byte),
           sent' = Append(sent, [op |-> op, data |-> d])
    PROVE  /\ Len(sent) \in Nat /\ Len(sent') = Len(sent) + 1 /\ Len(sent') \in Nat \ {0}
           /\ Len(sent') - 1 = Len(sent)
           /\ sent'[Len(sent')].op = op /\ sent'[Len(sent')].data = d
           /\ \E m \in Message : sent' = Append(sent, m)
<1> DEFINE m == [op |-> op, data |-> d]
<1>1. m \in Message /\ m.op = op /\ m.data = d
  BY DEF Message
<1>2. sent' = Append(sent, m)
  OBVIOUS
<1> HIDE DEF m
<1>3. sent \in Seq(Message)
  BY DEF PeerType
<1>4. Len(sent) \in Nat /\ Len(sent') = Len(sent) + 1 /\ sent'[Len(sent) + 1] = m
  BY <1>1, <1>2, <1>3
<1> QED
  BY <1>1, <1>2, <1>4

LEMMA OwnLengths ==
    ASSUME NEW n \in OwnLens, Understood PROVE n \in Nat \ {0} /\ n \in FourByteNumbers
<1>1. n \in Nat /\ ((n \div 256) \div 256) \div 256 < 256
  BY StreamAssumption, Zenon
<1>2. n # 0
  BY DEF Understood
<1> QED
  BY <1>1, <1>2 DEF FourByteNumbers

LEMMA OwnMessageAppends ==
    ASSUME PeerType, Understood, NEW n \in OwnLens, NEW op \in {TEXT, BIN}, OwnMessage(n, op)
    PROVE  \E bytes : Appends(bytes)
<1> DEFINE d == Payload(n)
<1> DEFINE frames == Frames(d, op)
<1>0. n \in Nat \ {0}
  BY OwnLengths
<1>1. d \in Seq(Byte) /\ Len(d) = n
  BY <1>0, PayloadType
<1>2. d # <<>>
  BY <1>0, <1>1
<1>3. sent' = Append(sent, [op |-> op, data |-> d]) /\ pings' = pings /\ ends' = ends
  BY DEF OwnMessage
<1> HIDE DEF d
<1>4. /\ Len(sent) \in Nat /\ Len(sent') \in Nat \ {0} /\ Len(sent') - 1 = Len(sent)
      /\ sent'[Len(sent')].op = op /\ sent'[Len(sent')].data = d
      /\ \E m \in Message : sent' = Append(sent, m)
  BY <1>1, <1>3, NewMessage
<1>5. pings \in Nat /\ ends \in Nat /\ ends <= ends
  BY DEF PeerType
<1>6. Path(sent', frames, At(Len(sent), 0, pings, ends), At(Len(sent'), 0, pings', ends'))
  <2> DEFINE k == Len(sent')
  <2>1. k = Len(sent') /\ k \in Nat \ {0} /\ sent'[k].op = op /\ sent'[k].data = d /\ k - 1 = Len(sent)
    BY <1>4
  <2> HIDE DEF k
  <2>2. Path(sent', frames, At(k - 1, 0, pings, ends), At(k, 0, pings, ends))
    BY <1>1, <1>2, <1>5, <2>1, OwnFrames
  <2> QED
    BY <1>3, <2>1, <2>2, Zenon
<1>7. frames \in Seq(Byte)
  BY <1>6, PathType
<1>8. Put(frames)
  <2>1. CASE Put(Frames(Payload(n), op))
    BY <2>1 DEF d
  <2>2. ASSUME NEW count \in SplitCounts, NEW split \in Splits(Len(frames), count),
               Put(FlattenSeq(Parts(frames, split)))
        PROVE  Put(frames)
    <3>1. count \in Nat
      BY StreamAssumption, Zenon
    <3>2. FlattenSeq(Parts(frames, split)) = frames
      BY <1>7, <3>1, PartsWhole, Zenon
    <3> QED
      BY <2>2, <3>2, Zenon
  <2> QED
    BY <2>1, <2>2, Zenon DEF OwnMessage, d
<1> HIDE DEF frames
<1>9. Appends(frames)
  BY <1>3, <1>4, <1>5, <1>6, <1>7, <1>8, PutSends, Zenon DEF Appends
<1> QED
  BY <1>9

\* A message in one frame.
LEMMA OneFrame ==
    ASSUME NEW s, NEW k, k = Len(s), k \in Nat \ {0}, NEW d \in Seq(Byte), s[k].data = d, Len(d) # 0,
           NEW op, s[k].op = op, NEW b, Encodes(b, d, op, 1), NEW i \in Nat, NEW e \in Nat
    PROVE  Path(s, b, At(k - 1, 0, i, e), At(k, 0, i, e))
<1>1. IsFrame(b) /\ Body(b) = d /\ HighBit(b[1]) = 1 /\ OpCode(b[1]) = op
  BY DEF Encodes
<1>2. PICK a \in Nat, n \in Nat \ {0} : a = 0 /\ n = Len(d)
  OBVIOUS
<1>3. a + n = Len(d)
  BY <1>2
<1>4. Body(b) = SubSeq(d, a + 1, a + n)
  <2>1. SubSeq(d, 1, Len(d)) = d
    BY SubSeqFull
  <2>2. a + 1 = 1
    BY <1>2
  <2> QED
    BY <1>1, <1>3, <2>1, <2>2, Zenon
<1>5. HighBit(b[1]) = (IF a + n = Len(d) THEN 1 ELSE 0)
  BY <1>1, <1>3
<1>6. OpCode(b[1]) = (IF a = 0 THEN s[k].op ELSE CONTINUE)
  BY <1>1, <1>2
<1>7. k \in 1 .. Len(s) /\ Len(s) \in Nat /\ a + n <= Len(d) /\ a \in Nat /\ n \in Nat \ {0} /\ d = s[k].data
  BY <1>2, <1>3
<1>8. Path(s, b, At(k - 1, a, i, e), IF a + n = Len(d) THEN At(k, 0, i, e) ELSE At(k - 1, a + n, i, e))
  BY <1>1, <1>4, <1>5, <1>6, <1>7, PieceCarries
<1> QED
  BY <1>2, <1>3, <1>8

LEMMA OwnFrameAppends ==
    ASSUME PeerType, Understood, NEW n \in OwnLens, NEW op \in {TEXT, BIN}, OwnFrame(n, op)
    PROVE  \E bytes : Appends(bytes)
<1> DEFINE d == Payload(n)
<1> DEFINE b == FrameWithoutFragment(d, op, 1, 1)
<1>0. n \in Nat \ {0} /\ n \in FourByteNumbers
  BY OwnLengths
<1>1. d \in Seq(Byte) /\ Len(d) = n
  BY <1>0, PayloadType
<1>3. sent' = Append(sent, [op |-> op, data |-> d]) /\ pings' = pings /\ ends' = ends /\ Put(b)
  BY DEF OwnFrame
<1> HIDE DEF d
<1>4. /\ Len(sent) \in Nat /\ Len(sent') \in Nat \ {0} /\ Len(sent') - 1 = Len(sent)
      /\ sent'[Len(sent')].op = op /\ sent'[Len(sent')].data = d
      /\ \E m \in Message : sent' = Append(sent, m)
  BY <1>1, <1>3, NewMessage
<1>5. pings \in Nat /\ ends \in Nat /\ ends <= ends
  BY DEF PeerType
<1>6. Encodes(b, d, op, 1)
  <2>1. PICK mask \in 0 .. 1, fin \in 0 .. 1 : mask = 1 /\ fin = 1
    OBVIOUS
  <2>2. op \in 0 .. 15
    BY DEF TEXT, BIN
  <2>3. b = FrameWithoutFragment(d, op, fin, mask)
    BY <2>1
  <2> HIDE DEF b
  <2>4. Len(d) \in FourByteNumbers
    BY <1>0, <1>1
  <2>5. Encodes(b, d, op, fin)
    BY <1>1, <2>2, <2>3, <2>4, GeneratedFrame
  <2> QED
    BY <2>1, <2>5
<1> HIDE DEF b
<1>7. IsFrame(b) /\ Body(b) = d /\ HighBit(b[1]) = 1 /\ OpCode(b[1]) = op
  BY <1>6 DEF Encodes
<1>8. Path(sent', b, At(Len(sent), 0, pings, ends), At(Len(sent'), 0, pings', ends'))
  <2> DEFINE k == Len(sent')
  <2>1. k = Len(sent') /\ k \in Nat \ {0} /\ sent'[k].op = op /\ sent'[k].data = d /\ k - 1 = Len(sent)
    BY <1>4
  <2> HIDE DEF k
  <2>2. Len(d) # 0
    BY <1>0, <1>1
  <2>3. Path(sent', b, At(k - 1, 0, pings, ends), At(k, 0, pings, ends))
    BY <1>1, <1>5, <1>6, <2>1, <2>2, OneFrame
  <2> QED
    BY <1>3, <2>1, <2>3, Zenon
<1>9. b \in Seq(Byte)
  BY <1>7, FrameFacts
<1>10. Appends(b)
  BY <1>3, <1>4, <1>5, <1>8, <1>9, PutSends, Zenon DEF Appends
<1> QED
  BY <1>10

LEMMA Slice ==
    ASSUME NEW d \in Seq(Byte), NEW a \in Nat, NEW n \in Nat \ {0}, NEW l \in Nat, l = Len(d), a + n <= l,
           NEW x, x = SubSeq(d, a + 1, a + n)
    PROVE  x \in Seq(Byte) /\ Len(x) = n
<1>1. \A y \in 1 .. l : d[y] \in Byte
  OBVIOUS
<1>2. a + 1 \in Nat /\ a + n \in Nat /\ \A y \in a + 1 .. a + n : y \in 1 .. l
  OBVIOUS
<1>3. \A y \in a + 1 .. a + n : d[y] \in Byte
  BY <1>1, <1>2, Zenon
<1>4. x \in Seq(Byte) /\ Len(x) = (IF a + 1 <= a + n THEN a + n - (a + 1) + 1 ELSE 0)
  BY <1>2, <1>3, SubSeqProperties
<1>5. a + 1 <= a + n /\ a + n - (a + 1) + 1 = n
  OBVIOUS
<1> QED
  BY <1>4, <1>5

\* A message in two frames: its first frame, and its second.
LEMMA TwoFrames ==
    ASSUME NEW s, NEW k, k = Len(s), k \in Nat \ {0}, NEW d \in Seq(Byte), s[k].data = d,
           NEW n, n = Len(d), NEW cut \in 1 .. n - 1, NEW op, s[k].op = op, NEW i \in Nat, NEW e \in Nat,
           NEW b, Encodes(b, SubSeq(d, 1, cut), op, 0),
           NEW f, Encodes(f, SubSeq(d, cut + 1, n), CONTINUE, 1), NEW j \in Nat
    PROVE  /\ Path(s, b, At(k - 1, 0, i, e), At(k - 1, cut, i, e))
           /\ Path(s, f, At(k - 1, cut, j, e), At(k, 0, j, e))
<1>0. n \in Nat /\ cut \in Nat \ {0} /\ cut < n
  OBVIOUS
<1>1. k \in 1 .. Len(s) /\ Len(s) \in Nat /\ d = s[k].data
  OBVIOUS
<1>2. Path(s, b, At(k - 1, 0, i, e), At(k - 1, cut, i, e))
  <2>1. PICK a \in Nat : a = 0
    OBVIOUS
  <2>2. a + cut <= Len(d) /\ a + cut # Len(d) /\ a + cut = cut
    BY <1>0, <2>1
  <2>3. Body(b) = SubSeq(d, a + 1, a + cut)
    <3>1. a + 1 = 1
      BY <2>1
    <3> QED
      BY <2>2, <3>1, Zenon DEF Encodes
  <2>4. OpCode(b[1]) = (IF a = 0 THEN s[k].op ELSE CONTINUE)
    BY <2>1 DEF Encodes
  <2>5. IsFrame(b) /\ HighBit(b[1]) = (IF a + cut = Len(d) THEN 1 ELSE 0)
    BY <2>2 DEF Encodes
  <2>6. a \in Nat /\ a + cut <= Len(d) /\ cut \in Nat \ {0}
    BY <1>0, <2>1, <2>2
  <2>7. Path(s, b, At(k - 1, a, i, e), IF a + cut = Len(d) THEN At(k, 0, i, e) ELSE At(k - 1, a + cut, i, e))
    BY <1>1, <2>3, <2>4, <2>5, <2>6, PieceCarries
  <2> QED
    BY <2>1, <2>2, <2>7
<1>3. Path(s, f, At(k - 1, cut, j, e), At(k, 0, j, e))
  <2>1. PICK m \in Nat \ {0} : cut + m = n
    <3>1. n - cut \in Nat \ {0} /\ cut + (n - cut) = n
      BY <1>0
    <3> QED
      BY <3>1
  <2>2. cut + m = Len(d) /\ cut + m <= Len(d) /\ cut # 0 /\ cut \in Nat
    BY <1>0, <2>1
  <2>3. Body(f) = SubSeq(d, cut + 1, cut + m)
    BY <2>1, Zenon DEF Encodes
  <2>4. OpCode(f[1]) = (IF cut = 0 THEN s[k].op ELSE CONTINUE)
    BY <2>2, Zenon DEF Encodes
  <2>5. IsFrame(f) /\ HighBit(f[1]) = (IF cut + m = Len(d) THEN 1 ELSE 0)
    BY <2>2, Zenon DEF Encodes
  <2>6. cut \in Nat /\ cut + m <= Len(d) /\ m \in Nat \ {0}
    BY <2>1, <2>2
  <2>7. Path(s, f, At(k - 1, cut, j, e), IF cut + m = Len(d) THEN At(k, 0, j, e) ELSE At(k - 1, cut + m, j, e))
    BY <1>1, <2>3, <2>4, <2>5, <2>6, PieceCarries
  <2> QED
    BY <2>2, <2>7
<1> QED
  BY <1>2, <1>3

LEMMA ForeignMessageAppends ==
    ASSUME PeerType, Understood, NEW n \in ForeignLens, NEW op \in {TEXT, BIN},
           NEW cut \in (0 .. n - 1) \cup {0}, NEW ping \in BOOLEAN, NEW format \in {7, 16, 64},
           ForeignMessage(n, op, cut, ping, PeerMask, format)
    PROVE  \E bytes : Appends(bytes)
<1> DEFINE d == Payload(n)
<1>0. n \in 1 .. 125 /\ n \in Nat \ {0} /\ PeerMask \in 0 .. 1
  <2>1. n \in 0 .. 125 /\ PeerMask \in 0 .. 1
    BY StreamAssumption, Zenon
  <2>2. n # 0
    BY DEF Understood
  <2> QED
    BY <2>1, <2>2
<1>1. d \in Seq(Byte) /\ Len(d) = n
  BY <1>0, PayloadType
<1>2. op \in 0 .. 15 /\ 0 \in 0 .. 15 /\ CONTINUE = 0 /\ PING \in 0 .. 15
  BY DEF TEXT, BIN, CONTINUE, PING
<1>3. /\ sent' = Append(sent, [op |-> op, data |-> d]) /\ ends' = ends
      /\ pings' = IF ping THEN pings + 1 ELSE pings
  BY DEF ForeignMessage
<1>4. \/ cut = 0 /\ ~ ping /\ Put(ForeignFrame(d, op, 1, PeerMask, format))
      \/ cut # 0 /\ Put(ForeignFrame(SubSeq(d, 1, cut), op, 0, PeerMask, format)
                        \o (IF ping THEN ForeignFrame(<<7>>, PING, 1, PeerMask, 7) ELSE <<>>)
                        \o ForeignFrame(SubSeq(d, cut + 1, n), CONTINUE, 1, PeerMask, format))
  BY DEF ForeignMessage
<1> HIDE DEF d
<1>5. /\ Len(sent) \in Nat /\ Len(sent') \in Nat \ {0} /\ Len(sent') - 1 = Len(sent)
      /\ sent'[Len(sent')].op = op /\ sent'[Len(sent')].data = d
      /\ \E m \in Message : sent' = Append(sent, m)
  BY <1>1, <1>3, NewMessage
<1>6. pings \in Nat /\ ends \in Nat /\ ends <= ends /\ pings' \in Nat
  BY <1>3 DEF PeerType
<1> DEFINE k == Len(sent')
<1>7. k = Len(sent') /\ k \in Nat \ {0} /\ sent'[k].op = op /\ sent'[k].data = d /\ k - 1 = Len(sent)
  BY <1>5
<1> HIDE DEF k
<1>8. CASE cut = 0
  <2> DEFINE b == ForeignFrame(d, op, 1, PeerMask, format)
  <2>1. Put(b) /\ pings' = pings
    BY <1>3, <1>4, <1>8
  <2>2. PICK fin \in 0 .. 1 : fin = 1
    OBVIOUS
  <2>3. b = ForeignFrame(d, op, fin, PeerMask, format)
    BY <2>2
  <2> HIDE DEF b
  <2>4. Encodes(b, d, op, fin)
    <3>1. Len(d) \in 1 .. 125
      BY <1>0, <1>1
    <3>2. op \in 0 .. 15 /\ PeerMask \in 0 .. 1 /\ d \in Seq(Byte)
      BY <1>0, <1>1, <1>2
    <3> QED
      BY <2>3, <3>1, <3>2, ForeignIsFrame, ZenonT(90)
  <2>5. Encodes(b, d, op, 1)
    BY <2>2, <2>4
  <2>6. Path(sent', b, At(k - 1, 0, pings, ends), At(k, 0, pings, ends))
    <3>1. Len(d) # 0
      BY <1>0, <1>1
    <3> QED
      BY <1>1, <1>6, <1>7, <2>5, <3>1, OneFrame, SMTT(40)
  <2>7. Path(sent', b, At(Len(sent), 0, pings, ends), At(Len(sent'), 0, pings', ends'))
    BY <1>3, <1>7, <2>1, <2>6, Zenon
  <2>8. b \in Seq(Byte)
    BY <2>7, PathType
  <2>9. Appends(b)
    BY <1>3, <1>5, <1>6, <2>1, <2>7, <2>8, PutSends, Zenon DEF Appends
  <2> QED
    BY <2>9
<1>9. CASE cut # 0
  <2> DEFINE x == SubSeq(d, 1, cut)
  <2> DEFINE y == SubSeq(d, cut + 1, n)
  <2> DEFINE b == ForeignFrame(x, op, 0, PeerMask, format)
  <2> DEFINE c == IF ping THEN ForeignFrame(<<7>>, PING, 1, PeerMask, 7) ELSE <<>>
  <2> DEFINE f == ForeignFrame(y, CONTINUE, 1, PeerMask, format)
  <2>1. Put((b \o c) \o f)
    BY <1>4, <1>9
  <2>2. cut \in 1 .. n - 1 /\ cut \in Nat \ {0} /\ n - cut \in Nat \ {0} /\ cut + (n - cut) = n
    BY <1>0, <1>9
  <2>3. x \in Seq(Byte) /\ Len(x) \in 1 .. 125
    <3>1. 0 + cut <= n /\ 0 + 1 = 1 /\ 0 + cut = cut
      BY <1>0, <2>2
    <3>2. x = SubSeq(d, 0 + 1, 0 + cut)
      BY <3>1
    <3> HIDE DEF x
    <3>3. x \in Seq(Byte) /\ Len(x) = cut
      <4>1. PICK a \in Nat : a = 0
        OBVIOUS
      <4>2. x = SubSeq(d, a + 1, a + cut) /\ a + cut <= n
        BY <3>1, <3>2, <4>1
      <4>3. n = Len(d) /\ n \in Nat /\ cut \in Nat \ {0}
        BY <1>0, <1>1, <2>2
      <4> QED
        BY <1>1, <4>2, <4>3, Slice
    <3> QED
      BY <1>0, <2>2, <3>3
  <2>4. y \in Seq(Byte) /\ Len(y) \in 1 .. 125
    <3>1. cut + (n - cut) <= n /\ y = SubSeq(d, cut + 1, cut + (n - cut))
      BY <1>0, <2>2
    <3> HIDE DEF y
    <3>2. n = Len(d) /\ n \in Nat /\ cut \in Nat /\ n - cut \in Nat \ {0}
      BY <1>0, <1>1, <2>2
    <3>3. y \in Seq(Byte) /\ Len(y) = n - cut
      BY <1>1, <3>1, <3>2, Slice
    <3> QED
      BY <1>0, <2>2, <3>3
  <2>5. x = SubSeq(d, 1, cut) /\ y = SubSeq(d, cut + 1, n)
    OBVIOUS
  <2> HIDE DEF x, y
  <2>6. Encodes(b, x, op, 0) /\ Encodes(f, y, CONTINUE, 1)
    <3>1. PICK zero \in 0 .. 1, one \in 0 .. 1, code \in 0 .. 15 : zero = 0 /\ one = 1 /\ code = CONTINUE
      BY <1>2
    <3>2. b = ForeignFrame(x, op, zero, PeerMask, format) /\ f = ForeignFrame(y, code, one, PeerMask, format)
      BY <3>1
    <3> HIDE DEF b, f
    <3>3. op \in 0 .. 15 /\ PeerMask \in 0 .. 1
      BY <1>0, <1>2
    <3>4. zero \in 0 .. 1 /\ one \in 0 .. 1 /\ code \in 0 .. 15
      BY <3>1
    <3>5. Encodes(b, x, op, zero)
      BY <2>3, <3>2, <3>3, <3>4, ForeignIsFrame, ZenonT(90)
    <3>6. Encodes(f, y, code, one)
      BY <2>4, <3>2, <3>3, <3>4, ForeignIsFrame, ZenonT(90)
    <3> QED
      BY <3>1, <3>5, <3>6
  <2>7. Path(sent', c, At(k - 1, cut, pings, ends), At(k - 1, cut, pings', ends))
    <3>0. k - 1 \in Nat /\ cut \in Nat
      BY <1>7, <2>2
    <3>1. CASE ping
      <4> DEFINE g == ForeignFrame(<<7>>, PING, 1, PeerMask, 7)
      <4> DEFINE z == <<7>>
      <4>1. z \in Seq(Byte) /\ Len(z) \in 1 .. 125
        BY DEF Byte
      <4> HIDE DEF z
      <4>2. PICK one \in 0 .. 1, code \in 0 .. 15, seven \in {7, 16, 64} : one = 1 /\ code = PING /\ seven = 7
        BY <1>2
      <4>3. g = ForeignFrame(z, code, one, PeerMask, seven)
        BY <4>2 DEF z
      <4> HIDE DEF g
      <4>4. PeerMask \in 0 .. 1
        BY <1>0
      <4>5. Encodes(g, z, code, one)
        BY <4>1, <4>3, <4>4, ForeignIsFrame, ZenonT(90)
      <4>6. Whole(g) /\ OpCode(g[1]) = PING
        BY <4>1, <4>2, <4>5, EncodesWhole
      <4>7. Path(sent', g, At(k - 1, cut, pings, ends), At(k - 1, cut, pings + 1, ends))
        BY <1>6, <3>0, <4>6, ControlCarries
      <4>8. c = g /\ pings' = pings + 1
        BY <1>3, <3>1 DEF g
      <4> HIDE DEF c
      <4> QED
        BY <4>7, <4>8
    <3>2. CASE ~ ping
      <4>1. c = <<>> /\ pings' = pings
        BY <1>3, <3>2
      <4>2. At(k - 1, cut, pings, ends) \in Position
        BY <1>6, <3>0 DEF At, Position
      <4> HIDE DEF c
      <4> QED
        BY <4>1, <4>2, PathNone
    <3> QED
      BY <3>1, <3>2
  <2> HIDE DEF b, c, f
  <2>8. /\ Path(sent', b, At(k - 1, 0, pings, ends), At(k - 1, cut, pings, ends))
        /\ Path(sent', f, At(k - 1, cut, pings', ends), At(k, 0, pings', ends))
    <3>1. Encodes(b, SubSeq(d, 1, cut), op, 0) /\ Encodes(f, SubSeq(d, cut + 1, n), CONTINUE, 1)
      BY <2>5, <2>6, Zenon
    <3>2. n = Len(d) /\ d \in Seq(Byte) /\ cut \in 1 .. n - 1
      BY <1>1, <2>2
    <3>3. pings \in Nat /\ pings' \in Nat /\ ends \in Nat
      BY <1>6
    <3>4. n = Len(d) /\ d \in Seq(Byte)
      BY <1>1
    <3>5. cut \in 1 .. n - 1
      BY <2>2
    <3>6. \A i \in Nat, j \in Nat, e \in Nat :
             /\ Path(sent', b, At(k - 1, 0, i, e), At(k - 1, cut, i, e))
             /\ Path(sent', f, At(k - 1, cut, j, e), At(k, 0, j, e))
      <4> SUFFICES ASSUME NEW i \in Nat, NEW j \in Nat, NEW e \in Nat
                   PROVE  /\ Path(sent', b, At(k - 1, 0, i, e), At(k - 1, cut, i, e))
                          /\ Path(sent', f, At(k - 1, cut, j, e), At(k, 0, j, e))
        OBVIOUS
      <4> QED
        BY <1>7, <3>1, <3>4, <3>5, TwoFrames, ZenonT(60)
    <3> QED
      BY <3>3, <3>6, Zenon
  <2> DEFINE bytes == (b \o c) \o f
  <2>10. Path(sent', bytes, At(k - 1, 0, pings, ends), At(k, 0, pings', ends))
    BY <2>7, <2>8, PathConcat, Zenon
  <2>11. Put(bytes)
    BY <2>1
  <2> HIDE DEF bytes
  <2>12. Path(sent', bytes, At(Len(sent), 0, pings, ends), At(Len(sent'), 0, pings', ends'))
    BY <1>3, <1>7, <2>10, Zenon
  <2>13. bytes \in Seq(Byte)
    BY <2>12, PathType
  <2>14. Appends(bytes)
    BY <1>3, <1>5, <1>6, <2>11, <2>12, <2>13, PutSends, Zenon DEF Appends
  <2> QED
    BY <2>14
<1> QED
  BY <1>8, <1>9

\* A frame that is no part of a message.
LEMMA ControlFrameAppends ==
    ASSUME PeerType, sent' = sent, NEW b, Put(b), Whole(b),
           \/ OpCode(b[1]) = PING /\ pings' = pings + 1 /\ ends' = ends
           \/ OpCode(b[1]) = PONG /\ pings' = pings /\ ends' = ends
           \/ OpCode(b[1]) = CLOSE /\ pings' = pings /\ ends' = ends + 1
    PROVE  Appends(b)
<1> DEFINE k == Len(sent)
<1>1. k \in Nat /\ Len(sent') = k
  BY DEF PeerType
<1>2. pings \in Nat /\ ends \in Nat
  BY DEF PeerType
<1>3. pings' \in Nat /\ ends' \in Nat /\ ends <= ends'
  BY <1>2
<1>4. b \in Seq(Byte)
  BY WholeFacts
<1>k. k = Len(sent)
  OBVIOUS
<1> HIDE DEF k
<1>5. PICK a \in Nat : a = 0
  OBVIOUS
<1>6. /\ OpCode(b[1]) = PING => Path(sent', b, At(k, a, pings, ends), At(k, a, pings + 1, ends))
      /\ OpCode(b[1]) = PONG => Path(sent', b, At(k, a, pings, ends), At(k, a, pings, ends))
      /\ OpCode(b[1]) = CLOSE => Path(sent', b, At(k, a, pings, ends), At(k, a, pings, ends + 1))
  <2>1. a \in Nat
    BY <1>5
  <2>2. \A i \in Nat, e \in Nat :
           /\ OpCode(b[1]) = PING => Path(sent', b, At(k, a, i, e), At(k, a, i + 1, e))
           /\ OpCode(b[1]) = PONG => Path(sent', b, At(k, a, i, e), At(k, a, i, e))
           /\ OpCode(b[1]) = CLOSE => Path(sent', b, At(k, a, i, e), At(k, a, i, e + 1))
    BY <1>1, <2>1, ControlCarries, Zenon
  <2> QED
    BY <1>2, <2>2, Zenon
<1>7. Path(sent', b, At(k, a, pings, ends), At(k, a, pings', ends'))
  BY <1>6, Zenon
<1>8. Path(sent', b, At(Len(sent), 0, pings, ends), At(Len(sent'), 0, pings', ends'))
  BY <1>1, <1>5, <1>7, <1>k
<1> QED
  BY <1>3, <1>4, <1>8, PutSends, Zenon DEF Appends

\* The control frames of another implementation.
LEMMA ForeignControl ==
    ASSUME NEW byte \in Byte, NEW code \in 0 .. 15, NEW b, b = ForeignFrame(<<byte>>, code, 1, PeerMask, 7)
    PROVE  Whole(b) /\ OpCode(b[1]) = code
<1> DEFINE z == <<byte>>
<1>1. z \in Seq(Byte) /\ Len(z) \in 1 .. 125
  OBVIOUS
<1>2. b = ForeignFrame(z, code, 1, PeerMask, 7)
  OBVIOUS
<1> HIDE DEF z
<1>3. PICK one \in 0 .. 1, seven \in {7, 16, 64} : one = 1 /\ seven = 7
  OBVIOUS
<1>4. b = ForeignFrame(z, code, one, PeerMask, seven)
  BY <1>2, <1>3
<1>5. PeerMask \in 0 .. 1
  BY StreamAssumption, Zenon
<1>6. one \in 0 .. 1 /\ seven \in {7, 16, 64}
  BY <1>3
<1>7. Encodes(b, z, code, one)
  BY <1>1, <1>4, <1>5, <1>6, ForeignIsFrame, ZenonT(90)
<1> QED
  BY <1>1, <1>7, EncodesWhole, Zenon

\* An empty ping that is not masked.
LEMMA EmptyPing ==
    ASSUME NEW b, b = ForeignFrame(<<>>, PING, 1, 0, 7)
    PROVE  Whole(b) /\ OpCode(b[1]) = PING
<1>1. b = <<137>> \o <<0>> \o <<>>
  BY DEF ForeignFrame, PING
<1>2. b = <<137, 0>>
  BY <1>1
<1>3. b \in Seq(Byte) /\ Len(b) = 2 /\ b[1] = 137 /\ b[2] = 0
  <2>1. PICK x \in Byte, y \in Byte : x = 137 /\ y = 0
    BY DEF Byte
  <2>2. b = <<x, y>>
    BY <1>2, <2>1
  <2>3. x \in Byte /\ y \in Byte
    BY <2>1
  <2>4. b \in Seq(Byte) /\ Len(b) = 2 /\ b[1] = x /\ b[2] = y
    <3>1. <<x, y>> \in Seq(Byte)
      BY <2>3
    <3>2. Len(<<x, y>>) = 2 /\ <<x, y>>[1] = x /\ <<x, y>>[2] = y
      OBVIOUS
    <3> QED
      BY <2>2, <3>1, <3>2, Zenon
  <2> QED
    BY <2>1, <2>4
<1>4. Len7(b[2]) = 0 /\ OpCode(b[1]) = PING
  BY <1>3 DEF Len7, OpCode, PING
<1> QED
  BY <1>3, <1>4 DEF Whole, Content, IsEmptyFrame

LEMMA PingAppends ==
    ASSUME PeerType, Understood, Ping PROVE \E bytes : Appends(bytes)
<1>1. PICK b \in PingFrames : Put(b)
  BY DEF Ping
<1>2. pings' = pings + 1 /\ sent' = sent /\ ends' = ends
  BY DEF Ping
<1>3. PICK data \in {<<>>, <<7>>} : b = ForeignFrame(data, PING, 1, PeerMask, 7)
                                    /\ (data = <<>> => "empty ping" \in Traffic)
  <2>1. \A data \in PingPayloads : data \in {<<>>, <<7>>} /\ (data = <<>> => "empty ping" \in Traffic)
    <3>1. PingPayloads = IF "empty ping" \in Traffic THEN {<<>>, <<7>>} ELSE {<<7>>}
      BY DEF PingPayloads
    <3>2. <<7>> # <<>>
      OBVIOUS
    <3> QED
      BY <3>1, <3>2, Zenon
  <2>2. \E data \in PingPayloads : b = ForeignFrame(data, PING, 1, PeerMask, 7)
    BY <1>1, Zenon DEF PingFrames, Understood
  <2> QED
    BY <2>1, <2>2, Zenon
<1>4. Whole(b) /\ OpCode(b[1]) = PING
  <2>1. CASE data = <<>>
    BY <1>3, <2>1, EmptyPing, Zenon DEF Understood
  <2>2. CASE data = <<7>>
    <3>1. 7 \in Byte /\ PING \in 0 .. 15
      BY DEF Byte, PING
    <3> QED
      BY <1>3, <2>2, <3>1, ForeignControl, Zenon
  <2> QED
    BY <1>3, <2>1, <2>2
<1>5. Appends(b)
  BY <1>1, <1>2, <1>4, ControlFrameAppends, Zenon
<1> QED
  BY <1>5

LEMMA PongAppends ==
    ASSUME PeerType, ForeignPong PROVE \E bytes : Appends(bytes)
<1> DEFINE b == ForeignFrame(<<5>>, PONG, 1, PeerMask, 7)
<1>1. Put(b) /\ sent' = sent /\ pings' = pings /\ ends' = ends
  BY DEF ForeignPong
<1>2. 5 \in Byte /\ PONG \in 0 .. 15
  BY DEF Byte, PONG
<1>3. Whole(b) /\ OpCode(b[1]) = PONG
  BY <1>2, ForeignControl, Zenon
<1> HIDE DEF b
<1>4. Appends(b)
  BY <1>1, <1>3, ControlFrameAppends, Zenon
<1> QED
  BY <1>4

LEMMA CloseAppends ==
    ASSUME PeerType, ForeignClose PROVE \E bytes : Appends(bytes)
<1> DEFINE b == ForeignFrame(<<3>>, CLOSE, 1, PeerMask, 7)
<1>1. Put(b) /\ sent' = sent /\ pings' = pings /\ ends' = ends + 1
  BY DEF ForeignClose, End
<1>2. 3 \in Byte /\ CLOSE \in 0 .. 15
  BY DEF Byte, CLOSE
<1>3. Whole(b) /\ OpCode(b[1]) = CLOSE
  BY <1>2, ForeignControl, Zenon
<1> HIDE DEF b
<1>4. Appends(b)
  BY <1>1, <1>3, ControlFrameAppends, Zenon
<1> QED
  BY <1>4

LEMMA HugeAppends ==
    ASSUME PeerType, HugeFrame PROVE \E bytes : Appends(bytes)
<1> DEFINE b == HugeBytes
<1> DEFINE k == Len(sent)
<1>1. Put(b) /\ sent' = sent /\ pings' = pings /\ ends' = ends + 1
  BY DEF HugeFrame, End, HugeBytes
<1>2. k \in Nat /\ Len(sent') = k /\ k = Len(sent)
  BY <1>1 DEF PeerType
<1>3. pings \in Nat /\ ends \in Nat
  BY DEF PeerType
<1>4. pings' \in Nat /\ ends' \in Nat /\ ends <= ends'
  BY <1>1, <1>3
<1> HIDE DEF k
<1>5. Path(sent', b, At(k, 0, pings, ends), At(k, 0, pings, ends + 1))
  BY <1>2, <1>3, HugeCarries, Zenon
<1>6. Path(sent', b, At(Len(sent), 0, pings, ends), At(Len(sent'), 0, pings', ends'))
  BY <1>1, <1>2, <1>5, Zenon
<1>7. b \in Seq(Byte)
  BY HugeFacts
<1> HIDE DEF b
<1>8. Appends(b)
  BY <1>1, <1>4, <1>6, <1>7, PutSends, Zenon DEF Appends
<1> QED
  BY <1>8

\* Whatever the peer does, it appends frames that take a reader who has read all
\* it sent before to the end of what it has sent now, or it sends no more.
LEMMA PeerAppends ==
    ASSUME PeerType, Understood, Peer PROVE SplitHangs \/ \E bytes : Appends(bytes)
<1>1. Ops \subseteq {TEXT, BIN} /\ Formats \subseteq {7, 16, 64}
  BY StreamAssumption, Zenon
<1>2. CASE \E n \in OwnLens, op \in Ops : OwnMessage(n, op) \/ OwnFrame(n, op)
  BY <1>1, <1>2, OwnMessageAppends, OwnFrameAppends, Zenon
<1>3. CASE \E n \in ForeignLens, op \in Ops, format \in Formats :
              \E cut \in (0 .. n - 1) \cup {0}, ping \in BOOLEAN :
                 ForeignMessage(n, op, cut, ping, PeerMask, format)
  <2>1. PICK n \in ForeignLens, op \in Ops, format \in Formats :
             \E cut \in (0 .. n - 1) \cup {0}, ping \in BOOLEAN :
                ForeignMessage(n, op, cut, ping, PeerMask, format)
    BY <1>3, Zenon
  <2>2. PICK cut \in (0 .. n - 1) \cup {0}, ping \in BOOLEAN : ForeignMessage(n, op, cut, ping, PeerMask, format)
    BY <2>1, Zenon
  <2>3. op \in {TEXT, BIN} /\ format \in {7, 16, 64} /\ n \in ForeignLens
    BY <1>1, <2>1, Zenon
  <2>4. cut \in (0 .. n - 1) \cup {0} /\ ping \in BOOLEAN
    BY <2>2, Zenon
  <2>5. cut \in (0 .. n - 1) \cup {0}
    BY <2>2, Zenon
  <2> QED
    BY <2>2, <2>3, <2>4, <2>5, ForeignMessageAppends
<1> QED
  BY <1>2, <1>3, PingAppends, PongAppends, CloseAppends, HugeAppends, Zenon DEF Peer

-----------------------------------------------------------------------------
(* Where one string of bytes is cut in two ways.                           *)

LEMMA TwoCuts ==
    ASSUME NEW x \in Seq(Byte), NEW w \in Seq(Byte), NEW b \in Seq(Byte), NEW y \in Seq(Byte), x \o w = b \o y
    PROVE  /\ \A i \in 1 .. Len(b) : i <= Len(x) => x[i] = b[i]
           /\ Len(b) <= Len(x) => y = SubSeq(x, Len(b) + 1, Len(x)) \o w
<1> DEFINE m == Len(b)
<1> DEFINE k == Len(x)
<1> DEFINE z == x \o w
<1>1. k \in Nat /\ m \in Nat /\ Len(w) \in Nat /\ Len(y) \in Nat
  OBVIOUS
<1>2. /\ Len(z) = k + Len(w) /\ \A i \in 1 .. k : z[i] = x[i]
      /\ \A i \in k + 1 .. k + Len(w) : z[i] = w[i - k]
  BY Concats, Zenon
<1>3. /\ Len(z) = m + Len(y) /\ \A i \in 1 .. m : z[i] = b[i]
      /\ \A i \in m + 1 .. m + Len(y) : z[i] = y[i - m]
  <2>1. /\ Len(b \o y) = Len(b) + Len(y) /\ \A i \in 1 .. Len(b) : (b \o y)[i] = b[i]
        /\ \A i \in Len(b) + 1 .. Len(b) + Len(y) : (b \o y)[i] = y[i - Len(b)]
    BY Concats, Zenon
  <2> QED
    BY <2>1, Zenon
<1>d. m = Len(b) /\ k = Len(x)
  OBVIOUS
<1> HIDE DEF z, m, k
<1>4. \A i \in 1 .. m : i <= k => x[i] = b[i]
  <2> SUFFICES ASSUME NEW i \in 1 .. m, i <= k PROVE x[i] = b[i]
    OBVIOUS
  <2>1. i \in 1 .. k
    BY <1>1
  <2> QED
    BY <1>2, <1>3, <2>1, Zenon
<1>5. ASSUME m <= k PROVE y = SubSeq(x, m + 1, k) \o w
  <2> DEFINE u == SubSeq(x, m + 1, k)
  <2>1. u \in Seq(Byte) /\ Len(u) = k - m /\ \A i \in 1 .. k - m : u[i] = x[m + i]
    <3>1. \A i \in 1 .. k : x[i] \in Byte
      BY <1>d
    <3>2. \A i \in m + 1 .. k : x[i] \in Byte
      BY <1>1, <3>1
    <3>3. /\ u \in Seq(Byte) /\ Len(u) = (IF m + 1 <= k THEN k - (m + 1) + 1 ELSE 0)
          /\ \A i \in 1 .. k - (m + 1) + 1 : u[i] = x[(m + 1) + i - 1]
      <4>1. m + 1 \in Nat /\ k \in Nat
        BY <1>1
      <4> QED
        BY <3>2, <4>1, SubSeqProperties, SMTT(40)
    <3> QED
      BY <1>1, <1>5, <3>3
  <2> HIDE DEF u
  <2> DEFINE v == u \o w
  <2>2. /\ v \in Seq(Byte) /\ Len(v) = Len(u) + Len(w) /\ \A i \in 1 .. Len(u) : v[i] = u[i]
        /\ \A i \in Len(u) + 1 .. Len(u) + Len(w) : v[i] = w[i - Len(u)]
    BY <2>1, Concats, Zenon
  <2> HIDE DEF v
  <2>3. k - m \in Nat /\ Len(y) = (k - m) + Len(w)
    <3>1. k + Len(w) = m + Len(y)
      BY <1>2, <1>3, Zenon
    <3> DEFINE r == Len(w)
    <3> DEFINE t == Len(y)
    <3>2. r \in Nat /\ t \in Nat /\ k + r = m + t /\ k \in Nat /\ m \in Nat
      BY <1>1, <3>1, Zenon
    <3> HIDE DEF r, t
    <3>3. k - m \in Nat /\ t = (k - m) + r
      BY <1>5, <3>2
    <3> QED
      BY <3>3 DEF r, t
  <2>4. Len(v) = Len(y)
    BY <2>1, <2>2, <2>3
  <2>5. ASSUME NEW i \in 1 .. Len(y) PROVE v[i] = y[i]
    <3>1. m + i \in m + 1 .. m + Len(y) /\ (m + i) - m = i
      BY <1>1, <2>5
    <3>2. z[m + i] = y[i]
      BY <1>3, <3>1
    <3>3. CASE i <= k - m
      <4>1. i \in 1 .. k - m /\ m + i \in 1 .. k
        BY <1>1, <2>5, <3>3
      <4>2. v[i] = u[i] /\ u[i] = x[m + i]
        BY <2>1, <2>2, <4>1, Zenon
      <4>3. z[m + i] = x[m + i]
        BY <1>2, <4>1, Zenon
      <4> QED
        BY <3>2, <4>2, <4>3, Zenon
    <3>4. CASE ~ (i <= k - m)
      <4>1. /\ i \in (k - m) + 1 .. (k - m) + Len(w) /\ m + i \in k + 1 .. k + Len(w)
            /\ i - (k - m) = (m + i) - k
        BY <1>1, <2>3, <2>5, <3>4
      <4>2. v[i] = w[i - (k - m)]
        BY <2>1, <2>2, <4>1, Zenon
      <4>3. z[m + i] = w[(m + i) - k]
        BY <1>2, <4>1, Zenon
      <4> QED
        BY <3>2, <4>1, <4>2, <4>3, Zenon
    <3> QED
      BY <3>3, <3>4
  <2>6. v = y
    BY <2>2, <2>4, <2>5, SeqEqual
  <2> QED
    BY <2>6 DEF v, u
<1> QED
  BY <1>4, <1>5, <1>d

\* What is left of g \o c after the first n bytes, n of them at least in g.
LEMMA Rest ==
    ASSUME NEW g \in Seq(Byte), NEW c \in Seq(Byte), NEW n \in Nat, Len(g) <= n, n <= Len(g \o c)
    PROVE  /\ SubSeq(g \o c, n + 1, Len(g \o c)) = SubSeq(c, (n - Len(g)) + 1, Len(c))
           /\ SubSeq(c, (n - Len(g)) + 1, Len(c)) \in Seq(Byte)
<1> DEFINE k == Len(g)
<1> DEFINE l == Len(c)
<1> DEFINE x == g \o c
<1>1. k \in Nat /\ l \in Nat
  OBVIOUS
<1>2. /\ x \in Seq(Byte) /\ Len(x) = k + l
      /\ \A i \in k + 1 .. k + l : x[i] = c[i - k]
  BY Concats, Zenon
<1>3. /\ \A i \in 1 .. l : c[i] \in Byte
      /\ k <= n /\ n <= Len(x) /\ l = Len(c) /\ k = Len(g)
  OBVIOUS
<1> HIDE DEF x, k, l
<1>4. \A i \in n + 1 .. k + l : i - k \in 1 .. l /\ i \in k + 1 .. k + l
  BY <1>1, <1>3
<1>5. \A i \in n + 1 .. k + l : x[i] \in Byte
  BY <1>2, <1>3, <1>4, Zenon
<1>6. \A i \in (n - k) + 1 .. l : c[i] \in Byte
  <2>1. \A i \in (n - k) + 1 .. l : i \in 1 .. l
    BY <1>1, <1>3
  <2> QED
    BY <1>3, <2>1, Zenon
<1> DEFINE u == SubSeq(x, n + 1, k + l)
<1> DEFINE v == SubSeq(c, (n - k) + 1, l)
<1>7. u \in Seq(Byte) /\ Len(u) = k + l - n /\ \A i \in 1 .. k + l - n : u[i] = x[n + i]
  <2>1. n + 1 \in Nat /\ k + l \in Nat
    BY <1>1
  <2>2. /\ u \in Seq(Byte) /\ Len(u) = (IF n + 1 <= k + l THEN (k + l) - (n + 1) + 1 ELSE 0)
        /\ \A i \in 1 .. (k + l) - (n + 1) + 1 : u[i] = x[(n + 1) + i - 1]
    BY <1>5, <2>1, SubSeqProperties
  <2>3. n <= k + l
    BY <1>2, <1>3
  <2> HIDE DEF u
  <2>4. Len(u) = k + l - n
    <3>1. Len(u) = (IF n + 1 <= k + l THEN (k + l) - (n + 1) + 1 ELSE 0)
      BY <2>2, Zenon
    <3>2. k <= n
      BY <1>3
    <3> QED
      BY <1>1, <2>3, <3>1, <3>2
  <2>5. \A i \in 1 .. k + l - n : i \in 1 .. (k + l) - (n + 1) + 1 /\ (n + 1) + i - 1 = n + i
    BY <1>1, <2>3
  <2> QED
    BY <2>2, <2>4, <2>5, Zenon
<1>8. v \in Seq(Byte) /\ Len(v) = k + l - n /\ \A i \in 1 .. k + l - n : v[i] = c[(n - k) + i]
  <2>1. (n - k) + 1 \in Nat /\ l \in Nat
    BY <1>1, <1>3
  <2>2. /\ v \in Seq(Byte) /\ Len(v) = (IF (n - k) + 1 <= l THEN l - ((n - k) + 1) + 1 ELSE 0)
        /\ \A i \in 1 .. l - ((n - k) + 1) + 1 : v[i] = c[((n - k) + 1) + i - 1]
    BY <1>6, <2>1, SubSeqProperties
  <2>3. n <= k + l
    BY <1>2, <1>3
  <2> HIDE DEF v
  <2>4. Len(v) = k + l - n
    <3>1. Len(v) = (IF (n - k) + 1 <= l THEN l - ((n - k) + 1) + 1 ELSE 0)
      BY <2>2, Zenon
    <3>2. k <= n
      BY <1>3
    <3> QED
      BY <1>1, <2>3, <3>1, <3>2
  <2>5. \A i \in 1 .. k + l - n : i \in 1 .. l - ((n - k) + 1) + 1 /\ ((n - k) + 1) + i - 1 = (n - k) + i
    BY <1>1, <1>3, <2>3
  <2> QED
    BY <2>2, <2>4, <2>5, Zenon
<1> HIDE DEF u, v
<1>9. \A i \in 1 .. k + l - n : u[i] = v[i]
  <2> SUFFICES ASSUME NEW i \in 1 .. k + l - n PROVE u[i] = v[i]
    OBVIOUS
  <2>1. n + i \in k + 1 .. k + l /\ (n + i) - k = (n - k) + i
    BY <1>1, <1>3
  <2>2. x[n + i] = c[(n + i) - k]
    BY <1>2, <2>1, Zenon
  <2> QED
    BY <1>7, <1>8, <2>1, <2>2, Zenon
<1>10. u = v
  BY <1>7, <1>8, <1>9, SeqEqual
<1>11. u = SubSeq(x, n + 1, Len(x)) /\ v = SubSeq(c, (n - Len(g)) + 1, Len(c))
  BY <1>2, <1>3 DEF u, v
<1> QED
  BY <1>8, <1>10, <1>11 DEF x

\* Two pieces in a row are one.
LEMMA TwoPieces ==
    ASSUME NEW d \in Seq(Byte), NEW a \in Nat \ {0}, NEW n \in Nat \ {0}, NEW l, l = Len(d), a + n <= l
    PROVE  SubSeq(d, 1, a) \o SubSeq(d, a + 1, a + n) = SubSeq(d, 1, a + n)
<1>1. l \in Nat
  OBVIOUS
<1>2. a + 1 \in Nat /\ a + n \in Nat /\ 1 \in Nat /\ a \in Nat
  OBVIOUS
<1>3. \A i \in 1 .. l : d[i] \in Byte
  OBVIOUS
<1>4. \A i \in 1 .. a + n : i \in 1 .. l
  BY <1>1
<1>5. \A i \in 1 .. a + n : d[i] \in Byte
  BY <1>3, <1>4, Zenon
<1> DEFINE u == SubSeq(d, 1, a)
<1> DEFINE v == SubSeq(d, a + 1, a + n)
<1> DEFINE z == SubSeq(d, 1, a + n)
<1>6. u \in Seq(Byte) /\ Len(u) = a /\ \A i \in 1 .. a : u[i] = d[i]
  <2>1. \A i \in 1 .. a : d[i] \in Byte
    BY <1>5
  <2>2. /\ u \in Seq(Byte) /\ Len(u) = (IF 1 <= a THEN a - 1 + 1 ELSE 0)
        /\ \A i \in 1 .. a - 1 + 1 : u[i] = d[1 + i - 1]
    BY <1>2, <2>1, SubSeqProperties
  <2> QED
    BY <2>2
<1>7. v \in Seq(Byte) /\ Len(v) = n /\ \A i \in 1 .. n : v[i] = d[a + i]
  <2>1. \A i \in a + 1 .. a + n : d[i] \in Byte
    BY <1>5
  <2>2. /\ v \in Seq(Byte) /\ Len(v) = (IF a + 1 <= a + n THEN (a + n) - (a + 1) + 1 ELSE 0)
        /\ \A i \in 1 .. (a + n) - (a + 1) + 1 : v[i] = d[(a + 1) + i - 1]
    BY <1>2, <2>1, SubSeqProperties
  <2> QED
    BY <2>2
<1>8. z \in Seq(Byte) /\ Len(z) = a + n /\ \A i \in 1 .. a + n : z[i] = d[i]
  <2>2. /\ z \in Seq(Byte) /\ Len(z) = (IF 1 <= a + n THEN (a + n) - 1 + 1 ELSE 0)
        /\ \A i \in 1 .. (a + n) - 1 + 1 : z[i] = d[1 + i - 1]
    BY <1>2, <1>5, SubSeqProperties
  <2> QED
    BY <2>2
<1> HIDE DEF u, v, z
<1> DEFINE w == u \o v
<1>9. /\ w \in Seq(Byte) /\ Len(w) = Len(u) + Len(v) /\ \A i \in 1 .. Len(u) : w[i] = u[i]
      /\ \A i \in Len(u) + 1 .. Len(u) + Len(v) : w[i] = v[i - Len(u)]
  BY <1>6, <1>7, Concats, Zenon
<1> HIDE DEF w
<1>10. Len(w) = a + n
  BY <1>6, <1>7, <1>9
<1>11. ASSUME NEW i \in 1 .. a + n PROVE w[i] = z[i]
  <2>1. CASE i \in 1 .. a
    BY <1>6, <1>8, <1>9, <1>11, <2>1, Zenon
  <2>2. CASE i \in a + 1 .. a + n
    <3>1. i - a \in 1 .. n /\ a + (i - a) = i
      BY <2>2
    <3>2. w[i] = v[i - a]
      BY <1>6, <1>7, <1>9, <2>2, Zenon
    <3>3. v[i - a] = d[a + (i - a)]
      BY <1>7, <3>1, Zenon
    <3> QED
      BY <1>8, <1>11, <3>1, <3>2, <3>3, Zenon
  <2> QED
    BY <1>11, <2>1, <2>2
<1>12. w = z
  BY <1>8, <1>9, <1>10, <1>11, SeqEqual
<1> QED
  BY <1>12 DEF u, v, w, z

-----------------------------------------------------------------------------
(* The invariant.                                                          *)

\* The types of the first k messages that were sent.
FlagsUpTo(k) == {FlagOf(sent[j].op) : j \in 1 .. k}

\* What onData was given so far.
Delivered ==
    /\ Len(got) <= Len(sent)
    /\ \A k \in 1 .. Len(got) :
          /\ got[k].data = sent[k].data
          /\ FlagOf(sent[k].op) \in got[k].flag /\ got[k].flag \subseteq FlagsUpTo(k)

\* The end of what was sent.
Sent == At(Len(sent), 0, pings, ends)

\* The bytes that were not made messages of yet: those of the handle, of the
\* read under way and of the wire.
Unread == (Begun(hd) \o chunk) \o wire

\* The handle and the application have what comes before p.
Holding(p) ==
    /\ p.msgs = Len(got) /\ p.pings = pongs /\ (closing <=> p.ends > 0)
    /\ hd.protoFlag \subseteq FlagsUpTo(IF p.bytes = 0 THEN p.msgs ELSE p.msgs + 1)
    /\ hd.mergeFlag \subseteq FlagsUpTo(IF p.bytes = 0 THEN p.msgs ELSE p.msgs + 1)
    /\ p.bytes > 0 =>
          /\ p.msgs + 1 \in 1 .. Len(sent)
          /\ p.bytes <= Len(sent[p.msgs + 1].data)
          /\ hd.merge = SubSeq(sent[p.msgs + 1].data, 1, p.bytes)
          /\ FlagOf(sent[p.msgs + 1].op) \in hd.mergeFlag

\* The reader has come to p, and the rest of the bytes takes it to the end.
Following(p) ==
    /\ hd.state # "failed"
    /\ hd.state = "incomplete" => hd.buf # <<>> /\ Unfinished(hd.buf)
    /\ p \in Position /\ Holding(p) /\ Path(sent, Unread, p, Sent)

\* The parser was given an impossible length, and stays where it is.
Stuck ==
    /\ hd.state = "failed" /\ Len(hd.buf) = 6 /\ BadLength(hd.buf)
    /\ closing /\ ends > 0

StreamInv == TypeOK /\ Delivered /\ (Stuck \/ \E p : Following(p))

LEMMA InitInv == ASSUME Init PROVE StreamInv
<1>1. MaxSends \in Nat
  BY StreamAssumption, Zenon
<1>2. TypeOK
  <2>1. <<>> \in Seq(Byte) /\ {} \in SUBSET Flags
    OBVIOUS
  <2>2. hd \in [state : {"complete", "failed", "incomplete"}, buf : Seq(Byte),
                merge : Seq(Byte), protoFlag : SUBSET Flags, mergeFlag : SUBSET Flags]
    BY <2>1, Zenon DEF Init
  <2>3. sent \in Seq([op : {TEXT, BIN}, data : Seq(Byte)]) /\ got \in Seq([data : Seq(Byte), flag : SUBSET Flags])
    BY DEF Init
  <2>4. pings \in Nat /\ ends \in Nat /\ pongs \in Nat /\ sends \in 0 .. MaxSends
    BY <1>1 DEF Init
  <2>6. closing \in BOOLEAN
    BY Zenon DEF Init
  <2>5. wire \in Seq(Byte) /\ chunk \in Seq(Byte)
    BY <2>1 DEF Init
  <2> QED
    BY <2>2, <2>3, <2>4, <2>5, <2>6, Zenon DEF TypeOK
<1>3. Delivered
  BY DEF Init, Delivered
<1> DEFINE p == At(0, 0, 0, 0)
<1>4. p \in Position
  BY DEF At, Position
<1>5. Sent = p
  BY DEF Init, Sent
<1>6. Unread = <<>>
  <2>1. Begun(hd) = <<>>
    BY DEF Init, Begun
  <2>2. Unread = (<<>> \o <<>>) \o <<>>
    BY <2>1 DEF Init, Unread
  <2> QED
    BY <2>2
<1>7. p.msgs = 0 /\ p.bytes = 0 /\ p.pings = 0 /\ p.ends = 0
  BY DEF At
<1> HIDE DEF p
<1>8. Path(sent, Unread, p, Sent)
  BY <1>4, <1>5, <1>6, PathNone
<1>9. Following(p)
  BY <1>4, <1>7, <1>8 DEF Init, Following, Holding
<1> QED
  BY <1>2, <1>3, <1>9 DEF StreamInv

\* What the steps of the reader start from.
LEMMA Typed ==
    ASSUME TypeOK
    PROVE  /\ PeerType /\ sent \in Seq(Message) /\ Len(sent) \in Nat
           /\ chunk \in Seq(Byte) /\ wire \in Seq(Byte) /\ Begun(hd) \in Seq(Byte) /\ hd.buf \in Seq(Byte)
           /\ Begun(hd) \o chunk \in Seq(Byte) /\ Unread \in Seq(Byte) /\ Len(got) \in Nat
<1>1. sent \in Seq(Message) /\ wire \in Seq(Byte) /\ chunk \in Seq(Byte) /\ Len(sent) \in Nat /\ Len(got) \in Nat
  BY DEF TypeOK, Message
<1>2. PeerType
  BY <1>1 DEF TypeOK, PeerType
<1>3. hd.buf \in Seq(Byte)
  BY DEF TypeOK
<1>4. <<>> \in Seq(Byte)
  OBVIOUS
<1>5. Begun(hd) \in Seq(Byte)
  BY <1>3, <1>4, Zenon DEF Begun
<1>6. Begun(hd) \o chunk \in Seq(Byte)
  BY <1>1, <1>5, Concats, Zenon
<1>7. Unread \in Seq(Byte)
  BY <1>1, <1>6, Concats, Zenon DEF Unread
<1> QED
  BY <1>1, <1>2, <1>3, <1>5, <1>6, <1>7

LEMMA MoreSent ==
    ASSUME sent \in Seq(Message), sent' = sent \/ \E m \in Message : sent' = Append(sent, m)
    PROVE  /\ sent' \in Seq(Message) /\ Len(sent) \in Nat /\ Len(sent') \in Nat /\ Len(sent) <= Len(sent')
           /\ \A k \in 1 .. Len(sent) : k \in 1 .. Len(sent') /\ sent'[k] = sent[k]
           /\ \A x, p, q : Path(sent, x, p, q) => Path(sent', x, p, q)
<1>1. CASE sent' = sent
  <2>1. Len(sent) \in Nat
    OBVIOUS
  <2> QED
    BY <1>1, <2>1
<1>2. CASE \E m \in Message : sent' = Append(sent, m)
  <2>1. PICK m \in Message : sent' = Append(sent, m)
    BY <1>2
  <2>2. \A x, p, q : Path(sent, x, p, q) => Path(Append(sent, m), x, p, q)
    BY <2>1, PathGrows, Zenon
  <2>3. \A x, p, q : Path(sent, x, p, q) => Path(sent', x, p, q)
    BY <2>1, <2>2, Zenon
  <2>4. /\ sent' \in Seq(Message) /\ Len(sent) \in Nat /\ Len(sent') \in Nat /\ Len(sent) <= Len(sent')
        /\ \A k \in 1 .. Len(sent) : k \in 1 .. Len(sent') /\ sent'[k] = sent[k]
    BY <2>1
  <2> QED
    BY <2>3, <2>4, Zenon
<1> QED
  BY <1>1, <1>2

\* A step that says nothing to the reader.
LEMMA StutterStep ==
    ASSUME StreamInv, UNCHANGED vars \/ SplitHangs PROVE StreamInv'
<1>1. /\ sent' = sent /\ pings' = pings /\ ends' = ends /\ wire' = wire /\ chunk' = chunk
      /\ hd' = hd /\ got' = got /\ pongs' = pongs /\ closing' = closing
  BY DEF vars, SplitHangs
<1>2. TypeOK'
  <2>1. sends' \in 0 .. MaxSends
    <3>1. sends \in 0 .. MaxSends /\ MaxSends \in Nat
      BY StreamAssumption, Zenon DEF StreamInv, TypeOK
    <3>2. sends' = sends \/ sends' = MaxSends
      BY DEF vars, SplitHangs
    <3> QED
      BY <3>1, <3>2
  <2> QED
    BY <1>1, <2>1, Zenon DEF StreamInv, TypeOK
<1>3. \A j : FlagsUpTo(j)' = FlagsUpTo(j)
  BY <1>1 DEF FlagsUpTo
<1>4. Delivered'
  BY <1>1, <1>3, Zenon DEF StreamInv, Delivered
<1>5. Stuck => Stuck'
  BY <1>1 DEF Stuck
<1>6. ASSUME NEW p, Following(p) PROVE Following(p)'
  <2>1. Sent' = Sent /\ Unread' = Unread
    BY <1>1, Zenon DEF Sent, Unread
  <2> QED
    BY <1>1, <1>3, <1>6, <2>1, Zenon DEF Following, Holding
<1> QED
  BY <1>2, <1>4, <1>5, <1>6, Zenon DEF StreamInv

LEMMA PeerStep ==
    ASSUME Understood, StreamInv, Peer, ~ SplitHangs PROVE StreamInv'
<1>1. TypeOK /\ Delivered
  BY DEF StreamInv
<1>2. PICK bytes : Appends(bytes)
  BY <1>1, Typed, PeerAppends, Zenon
<1>3. /\ sent' \in Seq(Message) /\ Len(sent) \in Nat /\ Len(sent') \in Nat /\ Len(sent) <= Len(sent')
      /\ \A k \in 1 .. Len(sent) : k \in 1 .. Len(sent') /\ sent'[k] = sent[k]
      /\ \A x, p, q : Path(sent, x, p, q) => Path(sent', x, p, q)
  <2>1. sent' = sent \/ \E m \in Message : sent' = Append(sent, m)
    BY <1>2, Zenon DEF Appends
  <2> QED
    BY <1>1, <2>1, MoreSent, Typed, Zenon
<1>4. /\ bytes \in Seq(Byte) /\ wire' = wire \o bytes /\ UNCHANGED <<chunk, hd, got, pongs, closing>>
      /\ sends' \in 0 .. MaxSends /\ pings' \in Nat /\ ends' \in Nat /\ ends <= ends'
  BY <1>2 DEF Appends
<1>5. TypeOK'
  <2>1. wire' \in Seq(Byte)
    BY <1>1, <1>4, Concats, Typed, Zenon
  <2>2. /\ chunk' \in Seq(Byte) /\ pongs' \in Nat /\ closing' \in BOOLEAN
        /\ hd' \in [state : {"complete", "failed", "incomplete"}, buf : Seq(Byte),
                    merge : Seq(Byte), protoFlag : SUBSET Flags, mergeFlag : SUBSET Flags]
        /\ got' \in Seq([data : Seq(Byte), flag : SUBSET Flags])
    BY <1>1, <1>4, Zenon DEF TypeOK
  <2> QED
    BY <1>3, <1>4, <2>1, <2>2, Zenon DEF TypeOK, Message
<1>6. \A k \in 0 .. Len(sent) : FlagsUpTo(k)' = FlagsUpTo(k)
  <2> SUFFICES ASSUME NEW k \in 0 .. Len(sent) PROVE FlagsUpTo(k)' = FlagsUpTo(k)
    OBVIOUS
  <2>1. \A j \in 1 .. k : sent'[j] = sent[j]
    BY <1>3
  <2> QED
    BY <2>1 DEF FlagsUpTo
<1>7. Len(got) \in Nat /\ Len(got) <= Len(sent)
  BY <1>1, Typed DEF Delivered
<1>8. Delivered'
  <2>1. Len(got') <= Len(sent')
    BY <1>3, <1>4, <1>7
  <2>2. ASSUME NEW k \in 1 .. Len(got')
        PROVE  /\ got'[k].data = sent'[k].data /\ FlagOf(sent'[k].op) \in got'[k].flag
               /\ got'[k].flag \subseteq FlagsUpTo(k)'
    <3>1. k \in 1 .. Len(got) /\ k \in 1 .. Len(sent) /\ k \in 0 .. Len(sent)
      BY <1>3, <1>4, <1>7, <2>2
    <3>2. got[k].data = sent[k].data /\ FlagOf(sent[k].op) \in got[k].flag /\ got[k].flag \subseteq FlagsUpTo(k)
      BY <1>1, <3>1, Zenon DEF Delivered
    <3>3. sent'[k] = sent[k] /\ got' = got /\ FlagsUpTo(k)' = FlagsUpTo(k)
      BY <1>3, <1>4, <1>6, <3>1, Zenon
    <3> QED
      BY <3>2, <3>3, Zenon
  <2> QED
    BY <2>1, <2>2 DEF Delivered
<1>9. ASSUME Stuck PROVE Stuck'
  <2>1. ends \in Nat
    BY <1>1 DEF TypeOK
  <2> QED
    BY <1>4, <1>9, <2>1 DEF Stuck
<1>10. ASSUME NEW p, Following(p) PROVE Following(p)'
  <2>1. Path(sent, Unread, p, Sent)
    BY <1>10 DEF Following, Holding
  <2>2. Path(sent', Unread, p, Sent)
    BY <1>3, <2>1, Zenon
  <2>3. Path(sent', bytes, Sent, Sent')
    BY <1>2, Zenon DEF Appends, Sent
  <2>4. Path(sent', Unread \o bytes, p, Sent')
    BY <2>2, <2>3, PathConcat, Zenon
  <2>5. Unread' = Unread \o bytes
    <3> DEFINE x == Begun(hd) \o chunk
    <3>1. x \in Seq(Byte) /\ wire \in Seq(Byte)
      BY <1>1, Typed, Zenon
    <3>2. Unread' = x \o (wire \o bytes)
      BY <1>4, Zenon DEF Unread
    <3>3. Unread = x \o wire
      BY DEF Unread
    <3> HIDE DEF x
    <3> QED
      BY <1>4, <3>1, <3>2, <3>3, Associates, Zenon
  <2>6. Path(sent', Unread', p, Sent')
    BY <2>4, <2>5, Zenon
  <2>7. p \in Position /\ p.msgs = Len(got)
    BY <1>10 DEF Following, Holding
  <2>8. p.msgs \in Nat /\ p.bytes \in Nat
    BY <2>7 DEF Position
  <2> DEFINE k == IF p.bytes = 0 THEN p.msgs ELSE p.msgs + 1
  <2>9. FlagsUpTo(k)' = FlagsUpTo(k)
    <3>1. k \in 0 .. Len(sent)
      <4>1. CASE p.bytes = 0
        BY <1>3, <1>7, <2>7, <2>8, <4>1
      <4>2. CASE p.bytes # 0
        <5>1. p.bytes > 0
          BY <2>8, <4>2
        <5>2. p.msgs + 1 \in 1 .. Len(sent)
          BY <1>10, <5>1, Zenon DEF Following, Holding
        <5> QED
          BY <1>3, <4>2, <5>2
      <4> QED
        BY <4>1, <4>2
    <3> QED
      BY <1>6, <3>1, Zenon
  <2>10. hd'.protoFlag \subseteq FlagsUpTo(k)' /\ hd'.mergeFlag \subseteq FlagsUpTo(k)'
    <3>1. hd.protoFlag \subseteq FlagsUpTo(k) /\ hd.mergeFlag \subseteq FlagsUpTo(k)
      BY <1>10, Zenon DEF Following, Holding
    <3>2. hd' = hd
      BY <1>4
    <3> QED
      BY <2>9, <3>1, <3>2, Zenon
  <2>11. ASSUME p.bytes > 0
         PROVE  /\ p.msgs + 1 \in 1 .. Len(sent')
                /\ p.bytes <= Len(sent'[p.msgs + 1].data)
                /\ hd'.merge = SubSeq(sent'[p.msgs + 1].data, 1, p.bytes)
                /\ FlagOf(sent'[p.msgs + 1].op) \in hd'.mergeFlag
    <3>1. /\ p.msgs + 1 \in 1 .. Len(sent)
          /\ p.bytes <= Len(sent[p.msgs + 1].data)
          /\ hd.merge = SubSeq(sent[p.msgs + 1].data, 1, p.bytes)
          /\ FlagOf(sent[p.msgs + 1].op) \in hd.mergeFlag
      BY <1>10, <2>11, Zenon DEF Following, Holding
    <3>2. p.msgs + 1 \in 1 .. Len(sent') /\ sent'[p.msgs + 1] = sent[p.msgs + 1] /\ hd' = hd
      BY <1>3, <1>4, <3>1, Zenon
    <3> QED
      BY <3>1, <3>2, Zenon
  <2>12. /\ hd'.state # "failed" /\ (hd'.state = "incomplete" => hd'.buf # <<>> /\ Unfinished(hd'.buf))
         /\ p \in Position /\ p.msgs = Len(got') /\ p.pings = pongs' /\ (closing' <=> p.ends > 0)
    BY <1>4, <1>10, Zenon DEF Following, Holding
  <2> QED
    BY <2>6, <2>10, <2>11, <2>12, Zenon DEF Following, Holding
<1> QED
  BY <1>5, <1>8, <1>9, <1>10, Zenon DEF StreamInv

\* Reading cuts the wire in two, and loses nothing.
LEMMA CutInTwo ==
    ASSUME NEW x \in Seq(Byte), NEW w \in Seq(Byte), NEW n \in 1 .. Len(w)
    PROVE  /\ SubSeq(w, 1, n) \in Seq(Byte) /\ SubSeq(w, n + 1, Len(w)) \in Seq(Byte)
           /\ (x \o SubSeq(w, 1, n)) \o SubSeq(w, n + 1, Len(w)) = (x \o <<>>) \o w
<1> DEFINE l == Len(w)
<1>1. l \in Nat /\ n \in Nat \ {0} /\ n <= l /\ l = Len(w)
  OBVIOUS
<1> HIDE DEF l
<1> DEFINE u == SubSeq(w, 1, n)
<1> DEFINE v == SubSeq(w, n + 1, l)
<1>2. PICK z \in Nat : z = 0
  OBVIOUS
<1>3. u \in Seq(Byte)
  <2>1. z + n <= l /\ u = SubSeq(w, z + 1, z + n) /\ z \in Nat
    BY <1>1, <1>2
  <2> HIDE DEF u
  <2> QED
    BY <1>1, <2>1, Slice
<1>4. v \in Seq(Byte) /\ u \o v = w
  <2>1. CASE n = l
    <3>1. v = <<>>
      BY <1>1, <2>1
    <3>2. u = w
      BY <1>1, <2>1, SubSeqFull
    <3> HIDE DEF u, v
    <3> QED
      BY <3>1, <3>2, ConcatEmptySeq
  <2>2. CASE n # l
    <3>1. l - n \in Nat \ {0} /\ n + (l - n) = l /\ n + (l - n) <= l
      BY <1>1, <2>2
    <3>2. PICK k \in Nat \ {0} : n + k = l
      BY <3>1
    <3>3. k \in Nat \ {0} /\ n + k <= l /\ n \in Nat
      BY <1>1, <3>2
    <3>4. v = SubSeq(w, n + 1, n + k)
      BY <3>2
    <3>5. v \in Seq(Byte)
      <4> HIDE DEF v
      <4> QED
        BY <1>1, <3>3, <3>4, Slice
    <3>6. u \o v = SubSeq(w, 1, n + k)
      BY <1>1, <3>3, <3>4, TwoPieces, Zenon
    <3>7. SubSeq(w, 1, Len(w)) = w
      BY SubSeqFull
    <3> QED
      BY <1>1, <3>2, <3>5, <3>6, <3>7, Zenon
  <2> QED
    BY <2>1, <2>2
<1> HIDE DEF u, v
<1>5. (x \o u) \o v = x \o (u \o v)
  BY <1>3, <1>4, Associates, ZenonT(90)
<1>6. x \o <<>> = x
  BY ConcatEmptySeq
<1>7. (x \o u) \o v = (x \o <<>>) \o w
  BY <1>4, <1>5, <1>6, Zenon
<1> QED
  BY <1>1, <1>3, <1>4, <1>7 DEF u, v

LEMMA ReadStep ==
    ASSUME StreamInv, NEW n \in 1 .. Len(wire), Read(n) PROVE StreamInv'
<1>1. TypeOK /\ Delivered
  BY DEF StreamInv
<1>2. /\ chunk = <<>> /\ chunk' = SubSeq(wire, 1, n) /\ wire' = SubSeq(wire, n + 1, Len(wire))
      /\ UNCHANGED <<sent, pings, ends, sends, hd, got, pongs, closing>>
  BY DEF Read
<1>3. chunk' \in Seq(Byte) /\ wire' \in Seq(Byte) /\ Unread' = Unread
  <2>1. Begun(hd) \in Seq(Byte) /\ wire \in Seq(Byte)
    BY <1>1, Typed, Zenon
  <2>2. /\ SubSeq(wire, 1, n) \in Seq(Byte) /\ SubSeq(wire, n + 1, Len(wire)) \in Seq(Byte)
        /\ (Begun(hd) \o SubSeq(wire, 1, n)) \o SubSeq(wire, n + 1, Len(wire)) = (Begun(hd) \o <<>>) \o wire
    BY <2>1, CutInTwo, Zenon
  <2>3. Begun(hd') = Begun(hd)
    BY <1>2
  <2> QED
    BY <1>2, <2>2, <2>3, Zenon DEF Unread
<1>4. TypeOK'
  <2>1. /\ sent' \in Seq([op : {TEXT, BIN}, data : Seq(Byte)])
        /\ pings' \in Nat /\ ends' \in Nat /\ pongs' \in Nat /\ sends' \in 0 .. MaxSends
        /\ hd' \in [state : {"complete", "failed", "incomplete"}, buf : Seq(Byte),
                    merge : Seq(Byte), protoFlag : SUBSET Flags, mergeFlag : SUBSET Flags]
        /\ got' \in Seq([data : Seq(Byte), flag : SUBSET Flags]) /\ closing' \in BOOLEAN
    BY <1>1, <1>2, Zenon DEF TypeOK
  <2> QED
    BY <1>3, <2>1, Zenon DEF TypeOK
<1>5. \A k : FlagsUpTo(k)' = FlagsUpTo(k)
  BY <1>2 DEF FlagsUpTo
<1>6. Delivered'
  BY <1>1, <1>2, <1>5, Zenon DEF Delivered
<1>7. Stuck => Stuck'
  BY <1>2 DEF Stuck
<1>8. ASSUME NEW p, Following(p) PROVE Following(p)'
  <2>1. Sent' = Sent
    BY <1>2, Zenon DEF Sent
  <2> QED
    BY <1>2, <1>3, <1>5, <1>8, <2>1, Zenon DEF Following, Holding
<1> QED
  BY <1>4, <1>6, <1>7, <1>8, Zenon DEF StreamInv

-----------------------------------------------------------------------------
(* What on_read_websocket does with a frame.                               *)

Keep(r) == [hd EXCEPT !.state = r.state, !.buf = r.buf]

LEMMA ParseIs ==
    ASSUME Parse, NEW r, r = TryParse(hd, chunk)
    PROVE  /\ chunk # <<>> /\ chunk' = SubSeq(chunk, r.used + 1, Len(chunk))
           /\ UNCHANGED <<sent, pings, ends, sends, wire>>
           /\ \/ r.state = "complete" /\ Dispatch(r, Keep(r))
              \/ r.state = "failed" /\ closing' = TRUE /\ hd' = Keep(r) /\ UNCHANGED <<got, pongs>>
              \/ r.state = "incomplete" /\ hd' = Keep(r) /\ UNCHANGED <<got, pongs, closing>>
<1>1. r \in {TryParse(hd, chunk)} /\ \A x \in {TryParse(hd, chunk)} : x = r
  OBVIOUS
<1> QED
  BY <1>1, Zenon DEF Parse, InHand, Remaining, Keep

LEMMA FlagFacts ==
    ASSUME TypeOK, NEW k \in 1 .. Len(sent)
    PROVE  /\ FlagOf(sent[k].op) \in FlagsUpTo(k) /\ FlagsUpTo(k - 1) \subseteq FlagsUpTo(k)
           /\ FlagsUpTo(k) \subseteq Flags
<1>1. Len(sent) \in Nat
  BY Typed
<1>2. k \in 1 .. k /\ \A j \in 1 .. k - 1 : j \in 1 .. k
  BY <1>1
<1> QED
  BY <1>2, Zenon DEF FlagsUpTo, FlagOf, Flags

LEMMA SetTwo ==
    ASSUME NEW a, NEW b, NEW c, NEW d, NEW e, NEW x, NEW y, NEW h,
           h = [state |-> a, buf |-> b, merge |-> c, protoFlag |-> d, mergeFlag |-> e],
           NEW g, g = [h EXCEPT !.state = x, !.buf = y]
    PROVE  g = [state |-> x, buf |-> y, merge |-> c, protoFlag |-> d, mergeFlag |-> e]
  OBVIOUS

\* The handle after the parse.
LEMMA KeepIs ==
    ASSUME TypeOK, NEW r
    PROVE  Keep(r) = [state |-> r.state, buf |-> r.buf, merge |-> hd.merge,
                      protoFlag |-> hd.protoFlag, mergeFlag |-> hd.mergeFlag]
<1>1. hd \in [state : {"complete", "failed", "incomplete"}, buf : Seq(Byte),
              merge : Seq(Byte), protoFlag : SUBSET Flags, mergeFlag : SUBSET Flags]
  BY Zenon DEF TypeOK
<1>2. hd = [state |-> hd.state, buf |-> hd.buf, merge |-> hd.merge,
            protoFlag |-> hd.protoFlag, mergeFlag |-> hd.mergeFlag]
  BY <1>1
<1>3. Keep(r) = [hd EXCEPT !.state = r.state, !.buf = r.buf]
  BY DEF Keep
<1> QED
  BY <1>2, <1>3, SetTwo, Zenon

\* A message is handed over.
LEMMA Handover ==
    ASSUME TypeOK, Delivered, sent' = sent, NEW k \in 1 .. Len(sent), k = Len(got) + 1,
           NEW F, FlagOf(sent[k].op) \in F, F \subseteq FlagsUpTo(k),
           got' = Append(got, [data |-> sent[k].data, flag |-> F])
    PROVE  Delivered' /\ got' \in Seq([data : Seq(Byte), flag : SUBSET Flags]) /\ Len(got') = k
<1> DEFINE call == [data |-> sent[k].data, flag |-> F]
<1> DEFINE Call == [data : Seq(Byte), flag : SUBSET Flags]
<1>1. sent \in Seq(Message) /\ Len(sent) \in Nat /\ Len(got) \in Nat
  BY Typed
<1>2. sent[k].data \in Seq(Byte) /\ F \subseteq Flags
  <2>1. sent[k] \in Message
    BY <1>1
  <2>2. F \subseteq Flags
    BY FlagFacts, Zenon
  <2> QED
    BY <2>1, <2>2 DEF Message
<1>3. call \in Call /\ call.data = sent[k].data /\ call.flag = F
  BY <1>2
<1>4. got \in Seq(Call)
  BY DEF TypeOK
<1>5. got' = Append(got, call)
  OBVIOUS
<1> HIDE DEF call, Call
<1>6. got' \in Seq(Call) /\ Len(got') = k /\ got'[k] = call /\ \A j \in 1 .. Len(got) : got'[j] = got[j]
  BY <1>1, <1>3, <1>4, <1>5
<1>7. \A j : FlagsUpTo(j)' = FlagsUpTo(j)
  BY DEF FlagsUpTo
<1>8. ASSUME NEW j \in 1 .. Len(got')
      PROVE  /\ got'[j].data = sent'[j].data /\ FlagOf(sent'[j].op) \in got'[j].flag
             /\ got'[j].flag \subseteq FlagsUpTo(j)'
  <2>1. CASE j = k
    BY <1>3, <1>6, <1>7, <2>1, Zenon
  <2>2. CASE j # k
    <3>1. j \in 1 .. Len(got)
      BY <1>1, <1>6, <1>8, <2>2
    <3>2. got'[j] = got[j] /\ sent' = sent
      BY <1>6, <3>1, Zenon
    <3> QED
      BY <1>7, <3>1, <3>2, Zenon DEF Delivered
  <2> QED
    BY <2>1, <2>2
<1>9. Len(got') <= Len(sent')
  BY <1>1, <1>6
<1>10. Delivered'
  BY <1>8, <1>9, Zenon DEF Delivered
<1> QED
  BY <1>6, <1>10 DEF Call

\* What a frame of message k leaves: all of it up to byte n is in the handle, or
\* was handed over.
Outcome(r, k, n) ==
    /\ hd' \in [state : {"complete", "failed", "incomplete"}, buf : Seq(Byte),
                merge : Seq(Byte), protoFlag : SUBSET Flags, mergeFlag : SUBSET Flags]
    /\ hd'.state = r.state /\ hd'.buf = r.buf
    /\ hd'.protoFlag \subseteq FlagsUpTo(k) /\ hd'.mergeFlag \subseteq FlagsUpTo(k)
    /\ r.fin = 1 => \E F : /\ got' = Append(got, [data |-> SubSeq(sent[k].data, 1, n), flag |-> F])
                           /\ FlagOf(sent[k].op) \in F /\ F \subseteq FlagsUpTo(k)
    /\ r.fin # 1 => /\ got' = got /\ hd'.merge = SubSeq(sent[k].data, 1, n)
                    /\ FlagOf(sent[k].op) \in hd'.mergeFlag
    /\ UNCHANGED <<pongs, closing>>

LEMMA FirstOfMessage ==
    ASSUME TypeOK, NEW k \in 1 .. Len(sent), NEW n \in Nat, NEW r, r.state = "complete", r.buf \in Seq(Byte),
           hd.protoFlag \subseteq FlagsUpTo(k), hd.mergeFlag \subseteq FlagsUpTo(k),
           r.op = sent[k].op, r.buf = SubSeq(sent[k].data, 1, n), Dispatch(r, Keep(r))
    PROVE  Outcome(r, k, n)
<1> DEFINE f == FlagOf(sent[k].op)
<1>1. r.op \in {TEXT, BIN}
  <2>1. sent \in Seq(Message)
    BY Typed
  <2>2. sent[k] \in Message
    BY <2>1
  <2> QED
    BY <2>2 DEF Message
<1>2. DataFrame(r, Keep(r), f) /\ UNCHANGED <<pongs, closing>>
  <2>1. TEXT # CONTINUE /\ TEXT # BIN /\ TEXT # CLOSE /\ TEXT # PING
        /\ BIN # CONTINUE /\ BIN # CLOSE /\ BIN # PING
    BY DEF TEXT, BIN, CONTINUE, CLOSE, PING
  <2>2. CASE r.op = TEXT
    <3>1. f = "text"
      BY <2>2 DEF FlagOf
    <3>2. DataFrame(r, Keep(r), "text") /\ UNCHANGED <<pongs, closing>>
      BY <2>1, <2>2, Zenon DEF Dispatch
    <3> HIDE DEF f
    <3> QED
      BY <3>1, <3>2, Zenon
  <2>3. CASE r.op = BIN
    <3>1. f = "bin"
      BY <2>1, <2>3 DEF FlagOf
    <3>2. DataFrame(r, Keep(r), "bin") /\ UNCHANGED <<pongs, closing>>
      BY <2>1, <2>3, Zenon DEF Dispatch
    <3> HIDE DEF f
    <3> QED
      BY <3>1, <3>2, Zenon
  <2> QED
    BY <1>1, <2>2, <2>3
<1>3. f \in FlagsUpTo(k) /\ FlagsUpTo(k) \subseteq Flags
  BY FlagFacts
<1> DEFINE proto == hd.protoFlag \cup {f}
<1>4. proto \subseteq FlagsUpTo(k) /\ f \in proto /\ proto \subseteq Flags
  BY <1>3
<1>f. f = FlagOf(sent[k].op)
  OBVIOUS
<1> HIDE DEF f
<1>5. CASE r.fin = 1
  <2>1. hd' = [Keep(r) EXCEPT !.protoFlag = @ \cup {f}] /\ OnData(r.buf, proto)
    BY <1>2, <1>5, Zenon DEF DataFrame
  <2>2. hd' = [state |-> r.state, buf |-> r.buf, merge |-> hd.merge, protoFlag |-> proto, mergeFlag |-> hd.mergeFlag]
    <3> DEFINE e == [state |-> r.state, buf |-> r.buf, merge |-> hd.merge,
               protoFlag |-> hd.protoFlag, mergeFlag |-> hd.mergeFlag]
    <3>1. hd' = [e EXCEPT !.protoFlag = @ \cup {f}]
      BY <2>1, KeepIs, Zenon
    <3> QED
      BY <3>1
  <2>3. hd.merge \in Seq(Byte) /\ hd.mergeFlag \subseteq Flags
    BY DEF TypeOK
  <2> HIDE DEF proto
  <2>4. /\ hd'.state = r.state /\ hd'.buf = r.buf /\ hd'.protoFlag = proto /\ hd'.mergeFlag = hd.mergeFlag
        /\ hd' \in [state : {"complete", "failed", "incomplete"}, buf : Seq(Byte),
                    merge : Seq(Byte), protoFlag : SUBSET Flags, mergeFlag : SUBSET Flags]
    BY <1>4, <2>2, <2>3
  <2>5. got' = Append(got, [data |-> SubSeq(sent[k].data, 1, n), flag |-> proto])
    BY <2>1, Zenon DEF OnData
  <2> QED
    BY <1>2, <1>4, <1>5, <1>f, <2>4, <2>5, Zenon DEF Outcome
<1>6. CASE r.fin # 1
  <2> DEFINE mflag == hd.mergeFlag \cup {f}
  <2>1. hd' = [Keep(r) EXCEPT !.protoFlag = @ \cup {f}, !.mergeFlag = @ \cup {f}, !.merge = r.buf] /\ got' = got
    BY <1>2, <1>6, Zenon DEF DataFrame
  <2>2. hd' = [state |-> r.state, buf |-> r.buf, merge |-> r.buf, protoFlag |-> proto, mergeFlag |-> mflag]
    <3> DEFINE e == [state |-> r.state, buf |-> r.buf, merge |-> hd.merge,
               protoFlag |-> hd.protoFlag, mergeFlag |-> hd.mergeFlag]
    <3>1. hd' = [e EXCEPT !.protoFlag = @ \cup {f}, !.mergeFlag = @ \cup {f}, !.merge = r.buf]
      BY <2>1, KeepIs, Zenon
    <3> QED
      BY <3>1
  <2>3. mflag \subseteq FlagsUpTo(k) /\ f \in mflag /\ mflag \subseteq Flags
    BY <1>3
  <2> HIDE DEF proto, mflag
  <2>4. /\ hd'.state = r.state /\ hd'.buf = r.buf /\ hd'.protoFlag = proto /\ hd'.mergeFlag = mflag
        /\ hd'.merge = r.buf
        /\ hd' \in [state : {"complete", "failed", "incomplete"}, buf : Seq(Byte),
                    merge : Seq(Byte), protoFlag : SUBSET Flags, mergeFlag : SUBSET Flags]
    BY <1>4, <2>2, <2>3
  <2> QED
    BY <1>2, <1>4, <1>6, <1>f, <2>1, <2>3, <2>4, Zenon DEF Outcome
<1> QED
  BY <1>5, <1>6

LEMMA RestOfMessage ==
    ASSUME TypeOK, NEW k \in 1 .. Len(sent), NEW n \in Nat, NEW r, r.state = "complete", r.buf \in Seq(Byte),
           hd.protoFlag \subseteq FlagsUpTo(k), hd.mergeFlag \subseteq FlagsUpTo(k),
           FlagOf(sent[k].op) \in hd.mergeFlag,
           r.op = CONTINUE, hd.merge \o r.buf = SubSeq(sent[k].data, 1, n), Dispatch(r, Keep(r))
    PROVE  Outcome(r, k, n)
<1> DEFINE m == hd.merge \o r.buf
<1>1. ContinuationFrame(r, Keep(r)) /\ UNCHANGED <<pongs, closing>>
  <2>1. TEXT # CONTINUE /\ BIN # CONTINUE /\ CLOSE # CONTINUE /\ PING # CONTINUE
    BY DEF TEXT, BIN, CONTINUE, CLOSE, PING
  <2> QED
    BY <2>1, Zenon DEF Dispatch
<1>2. hd.merge \in Seq(Byte) /\ hd.protoFlag \subseteq Flags /\ hd.mergeFlag \subseteq Flags
  BY DEF TypeOK
<1>3. m \in Seq(Byte)
  BY <1>2, Concats, Zenon
<1>4. hd' = [Keep(r) EXCEPT !.merge = @ \o r.buf]
  BY <1>1, Zenon DEF ContinuationFrame
<1>5. hd' = [state |-> r.state, buf |-> r.buf, merge |-> m, protoFlag |-> hd.protoFlag, mergeFlag |-> hd.mergeFlag]
  <2> DEFINE e == [state |-> r.state, buf |-> r.buf, merge |-> hd.merge,
               protoFlag |-> hd.protoFlag, mergeFlag |-> hd.mergeFlag]
  <2>1. hd' = [e EXCEPT !.merge = @ \o r.buf]
    BY <1>4, KeepIs, Zenon
  <2> QED
    BY <2>1
<1>6. IF r.fin = 1 THEN got' = Append(got, [data |-> m, flag |-> hd.mergeFlag]) ELSE got' = got
  BY <1>1, Zenon DEF ContinuationFrame, OnData
<1>m. m = SubSeq(sent[k].data, 1, n)
  OBVIOUS
<1> HIDE DEF m
<1>7. /\ hd'.state = r.state /\ hd'.buf = r.buf /\ hd'.protoFlag = hd.protoFlag /\ hd'.mergeFlag = hd.mergeFlag
      /\ hd'.merge = m
      /\ hd' \in [state : {"complete", "failed", "incomplete"}, buf : Seq(Byte),
                  merge : Seq(Byte), protoFlag : SUBSET Flags, mergeFlag : SUBSET Flags]
  BY <1>2, <1>3, <1>5
<1>8. CASE r.fin = 1
  <2>1. got' = Append(got, [data |-> SubSeq(sent[k].data, 1, n), flag |-> hd.mergeFlag])
    BY <1>6, <1>8, <1>m, Zenon
  <2> QED
    BY <1>1, <1>7, <1>8, <2>1, Zenon DEF Outcome
<1>9. CASE r.fin # 1
  BY <1>1, <1>6, <1>7, <1>9, <1>m, Zenon DEF Outcome
<1> QED
  BY <1>8, <1>9

\* What a frame that takes the reader to q leaves behind.
Handled(q) ==
    /\ Delivered' /\ Holding(q)' /\ hd'.state = "complete"
    /\ hd' \in [state : {"complete", "failed", "incomplete"}, buf : Seq(Byte),
                merge : Seq(Byte), protoFlag : SUBSET Flags, mergeFlag : SUBSET Flags]
    /\ got' \in Seq([data : Seq(Byte), flag : SUBSET Flags]) /\ pongs' \in Nat /\ closing' \in BOOLEAN

\* A frame of a message.
LEMMA DataStep ==
    ASSUME TypeOK, Delivered, NEW p \in Position, Holding(p), NEW q \in Position,
           NEW b, Whole(b), CarriesData(sent, b, p, q), sent' = sent, NEW r, r.state = "complete", r.buf = Content(b),
           r.fin = HighBit(b[1]), r.op = OpCode(b[1]), Dispatch(r, Keep(r))
    PROVE  Handled(q)
<1> DEFINE k == p.msgs + 1
<1> DEFINE a == p.bytes
<1> DEFINE d == sent[k].data
<1>1. PICK n \in Nat \ {0} :
        /\ IsFrame(b) /\ k \in 1 .. Len(sent)
        /\ OpCode(b[1]) = IF a = 0 THEN sent[k].op ELSE CONTINUE
        /\ a + n <= Len(d) /\ Body(b) = SubSeq(d, a + 1, a + n)
        /\ \/ /\ HighBit(b[1]) = 1 /\ a + n = Len(d)
              /\ q = [p EXCEPT !.msgs = @ + 1, !.bytes = 0]
           \/ HighBit(b[1]) = 0 /\ q = [p EXCEPT !.bytes = @ + n]
  BY Zenon DEF CarriesData
<1>2. a \in Nat /\ p.msgs \in Nat /\ a + n \in Nat /\ k - 1 = p.msgs /\ n \in Nat \ {0}
  <2>1. a \in Nat /\ p.msgs \in Nat
    BY DEF Position
  <2>2. n \in Nat \ {0}
    BY <1>1, Zenon
  <2> QED
    BY <2>1, <2>2
<1>3. d \in Seq(Byte) /\ Len(sent) \in Nat /\ Len(got) \in Nat
  <2>1. sent \in Seq(Message) /\ Len(sent) \in Nat /\ Len(got) \in Nat
    BY Typed
  <2>2. sent[k] \in Message
    BY <1>1, <2>1
  <2> QED
    BY <2>1, <2>2 DEF Message
<1>4. r.buf = SubSeq(d, a + 1, a + n) /\ r.buf \in Seq(Byte)
  <2>1. Content(b) = Body(b)
    BY <1>1, FrameFacts DEF Content
  <2> QED
    BY <1>1, <2>1, Zenon DEF Whole
<1>5. FlagOf(sent[k].op) \in FlagsUpTo(k) /\ FlagsUpTo(p.msgs) \subseteq FlagsUpTo(k)
  BY <1>1, <1>2, FlagFacts, Zenon
<1>6. hd.protoFlag \subseteq FlagsUpTo(k) /\ hd.mergeFlag \subseteq FlagsUpTo(k)
  BY <1>5, Zenon DEF Holding
<1>7. Outcome(r, k, a + n)
  <2>1. CASE a = 0
    <3>1. r.buf = SubSeq(sent[k].data, 1, a + n)
      <4>1. a + 1 = 1
        BY <2>1
      <4> QED
        BY <1>4, <4>1, Zenon
    <3>2. r.op = sent[k].op
      BY <1>1, <2>1, Zenon
    <3> HIDE DEF k, a, d
    <3> QED
      BY <1>1, <1>2, <1>4, <1>6, <3>1, <3>2, FirstOfMessage, Zenon
  <2>2. CASE a # 0
    <3>1. a > 0 /\ a \in Nat \ {0}
      BY <1>2, <2>2
    <3>2. hd.merge = SubSeq(d, 1, a) /\ FlagOf(sent[k].op) \in hd.mergeFlag
      BY <3>1, Zenon DEF Holding
    <3>3. SubSeq(d, 1, a) \o SubSeq(d, a + 1, a + n) = SubSeq(d, 1, a + n)
      <4> DEFINE l == Len(d)
      <4>1. l = Len(d) /\ a + n <= l
        BY <1>1
      <4> HIDE DEF k, a, d, l
      <4> QED
        BY <1>1, <1>3, <3>1, <4>1, TwoPieces, Zenon
    <3>4. hd.merge \o r.buf = SubSeq(sent[k].data, 1, a + n)
      BY <1>4, <3>2, <3>3, Zenon
    <3>5. r.op = CONTINUE
      BY <1>1, <2>2, Zenon
    <3> HIDE DEF k, a, d
    <3> QED
      BY <1>1, <1>2, <1>4, <1>6, <3>2, <3>4, <3>5, RestOfMessage, Zenon
  <2> QED
    BY <2>1, <2>2
<1>8. /\ hd' \in [state : {"complete", "failed", "incomplete"}, buf : Seq(Byte),
                  merge : Seq(Byte), protoFlag : SUBSET Flags, mergeFlag : SUBSET Flags]
      /\ hd'.state = "complete"
      /\ hd'.protoFlag \subseteq FlagsUpTo(k) /\ hd'.mergeFlag \subseteq FlagsUpTo(k)
      /\ pongs' = pongs /\ closing' = closing
  BY <1>7, Zenon DEF Outcome
<1>9. pongs' \in Nat /\ closing' \in BOOLEAN
  BY <1>8, Zenon DEF TypeOK
<1>10. \A j : FlagsUpTo(j)' = FlagsUpTo(j)
  BY DEF FlagsUpTo
<1>11. p.msgs = Len(got) /\ p.pings = pongs /\ (closing <=> p.ends > 0)
  BY DEF Holding
<1>12. CASE r.fin = 1
  <2>1. a + n = Len(d) /\ q = [p EXCEPT !.msgs = @ + 1, !.bytes = 0]
    BY <1>1, <1>12
  <2>2. q.msgs = k /\ q.bytes = 0 /\ q.pings = p.pings /\ q.ends = p.ends
    BY <2>1 DEF Position
  <2>3. PICK F : /\ got' = Append(got, [data |-> SubSeq(sent[k].data, 1, a + n), flag |-> F])
                 /\ FlagOf(sent[k].op) \in F /\ F \subseteq FlagsUpTo(k)
    BY <1>7, <1>12, Zenon DEF Outcome
  <2>4. SubSeq(sent[k].data, 1, a + n) = sent[k].data
    <3>1. SubSeq(d, 1, Len(d)) = d
      <4> HIDE DEF d
      <4> QED
        BY <1>3, SubSeqFull
    <3> QED
      BY <2>1, <3>1, Zenon
  <2>5. k = Len(got) + 1
    BY <1>11
  <2>6. Delivered' /\ got' \in Seq([data : Seq(Byte), flag : SUBSET Flags]) /\ Len(got') = k
    BY <1>1, <2>3, <2>4, <2>5, Handover, Zenon
  <2>7. ~ (q.bytes > 0)
    BY <2>2
  <2>8. Holding(q)'
    BY <1>8, <1>10, <1>11, <2>2, <2>6, <2>7, Zenon DEF Holding
  <2> QED
    BY <1>8, <1>9, <2>6, <2>8, Zenon DEF Handled
<1>13. CASE r.fin # 1
  <2>1. q = [p EXCEPT !.bytes = @ + n]
    BY <1>1, <1>13
  <2>2. q.msgs = p.msgs /\ q.bytes = a + n /\ q.pings = p.pings /\ q.ends = p.ends
    BY <2>1 DEF Position
  <2>3. got' = got /\ hd'.merge = SubSeq(d, 1, a + n) /\ FlagOf(sent[k].op) \in hd'.mergeFlag
    BY <1>7, <1>13, Zenon DEF Outcome
  <2>4. Delivered' /\ got' \in Seq([data : Seq(Byte), flag : SUBSET Flags])
    BY <1>10, <2>3, Zenon DEF Delivered, TypeOK
  <2>5. q.bytes # 0
    BY <1>2, <2>2
  <2>6. Holding(q)'
    BY <1>1, <1>8, <1>10, <1>11, <2>2, <2>3, <2>5, Zenon DEF Holding
  <2> QED
    BY <1>8, <1>9, <2>4, <2>6, Zenon DEF Handled
<1> QED
  BY <1>12, <1>13

\* A control frame.
LEMMA ControlStep ==
    ASSUME TypeOK, Delivered, NEW p \in Position, Holding(p), NEW q \in Position,
           NEW b, CarriesControl(b, p, q), sent' = sent, NEW r, r.state = "complete", r.buf = Content(b),
           r.op = OpCode(b[1]), Dispatch(r, Keep(r))
    PROVE  Handled(q)
<1>1. /\ p.msgs \in Nat /\ p.bytes \in Nat /\ p.pings \in Nat /\ p.ends \in Nat
      /\ p.msgs = Len(got) /\ p.pings = pongs /\ (closing <=> p.ends > 0)
  BY DEF Position, Holding
<1>2. r.buf \in Seq(Byte)
  BY Zenon DEF CarriesControl, Whole
<1>3. /\ CLOSE \notin {CONTINUE, TEXT, BIN, PING, PONG} /\ PING \notin {CONTINUE, TEXT, BIN, CLOSE, PONG}
      /\ PONG \notin {CONTINUE, TEXT, BIN, CLOSE, PING}
  BY DEF CONTINUE, TEXT, BIN, CLOSE, PING, PONG
<1>4. /\ hd' = Keep(r) /\ got' = got
      /\ \/ r.op = PING /\ pongs' = pongs + 1 /\ closing' = closing /\ q = [p EXCEPT !.pings = @ + 1]
         \/ r.op = PONG /\ pongs' = pongs /\ closing' = closing /\ q = p
         \/ r.op = CLOSE /\ pongs' = pongs /\ closing' = TRUE /\ q = [p EXCEPT !.ends = @ + 1]
  <2>1. CASE r.op = PING
    BY <1>3, <2>1, Zenon DEF Dispatch, CarriesControl
  <2>2. CASE r.op = PONG
    BY <1>3, <2>2, Zenon DEF Dispatch, CarriesControl
  <2>3. CASE r.op = CLOSE
    BY <1>3, <2>3, Zenon DEF Dispatch, CarriesControl
  <2> QED
    BY <2>1, <2>2, <2>3, Zenon DEF CarriesControl
<1>5. hd' = [state |-> r.state, buf |-> r.buf, merge |-> hd.merge,
             protoFlag |-> hd.protoFlag, mergeFlag |-> hd.mergeFlag]
  BY <1>4, KeepIs, Zenon
<1>6. hd.merge \in Seq(Byte) /\ hd.protoFlag \subseteq Flags /\ hd.mergeFlag \subseteq Flags
  BY DEF TypeOK
<1>7. /\ hd'.state = "complete" /\ hd'.merge = hd.merge
      /\ hd'.protoFlag = hd.protoFlag /\ hd'.mergeFlag = hd.mergeFlag
      /\ hd' \in [state : {"complete", "failed", "incomplete"}, buf : Seq(Byte),
                  merge : Seq(Byte), protoFlag : SUBSET Flags, mergeFlag : SUBSET Flags]
  BY <1>2, <1>5, <1>6
<1>8. \A j : FlagsUpTo(j)' = FlagsUpTo(j)
  BY DEF FlagsUpTo
<1>9. /\ q.msgs = p.msgs /\ q.bytes = p.bytes /\ q.pings = pongs' /\ (closing' <=> q.ends > 0)
      /\ pongs' \in Nat
  <2>1. CASE pongs' = pongs + 1 /\ closing' = closing /\ q = [p EXCEPT !.pings = @ + 1]
    BY <1>1, <2>1 DEF Position
  <2>2. CASE pongs' = pongs /\ closing' = closing /\ q = p
    BY <1>1, <2>2
  <2>3. CASE pongs' = pongs /\ closing' = TRUE /\ q = [p EXCEPT !.ends = @ + 1]
    <3>1. q.msgs = p.msgs /\ q.bytes = p.bytes /\ q.pings = p.pings /\ q.ends = p.ends + 1
      BY <2>3 DEF Position
    <3>2. q.ends > 0
      BY <1>1, <3>1
    <3>3. pongs' \in Nat /\ q.pings = pongs'
      BY <1>1, <2>3, <3>1
    <3> QED
      BY <2>3, <3>1, <3>2, <3>3, Zenon
  <2> QED
    BY <1>4, <2>1, <2>2, <2>3, Zenon
<1>10. closing' \in BOOLEAN
  BY <1>4, Zenon DEF TypeOK
<1>11. Delivered' /\ got' \in Seq([data : Seq(Byte), flag : SUBSET Flags])
  BY <1>4, <1>8, Zenon DEF Delivered, TypeOK
<1>12. Holding(q)'
  BY <1>1, <1>4, <1>7, <1>8, <1>9, Zenon DEF Holding
<1> QED
  BY <1>7, <1>9, <1>10, <1>11, <1>12, Zenon DEF Handled

LEMMA TypeAfter ==
    ASSUME TypeOK, UNCHANGED <<sent, pings, ends, sends, wire>>, chunk' \in Seq(Byte),
           hd' \in [state : {"complete", "failed", "incomplete"}, buf : Seq(Byte),
                    merge : Seq(Byte), protoFlag : SUBSET Flags, mergeFlag : SUBSET Flags],
           got' \in Seq([data : Seq(Byte), flag : SUBSET Flags]), pongs' \in Nat, closing' \in BOOLEAN
    PROVE  TypeOK'
<1>1. /\ sent' \in Seq([op : {TEXT, BIN}, data : Seq(Byte)])
      /\ pings' \in Nat /\ ends' \in Nat /\ sends' \in 0 .. MaxSends /\ wire' \in Seq(Byte)
  BY Zenon DEF TypeOK
<1> QED
  BY <1>1, Zenon DEF TypeOK

\* The frame at the head of the stream was all there.
LEMMA WholeStep ==
    ASSUME TypeOK, Delivered, NEW p, Following(p), Parse,
           NEW b, NEW y \in Seq(Byte), NEW q \in Position, Unread = b \o y, Whole(b), Path(sent, y, q, Sent),
           CarriesData(sent, b, p, q) \/ CarriesControl(b, p, q),
           Len(Begun(hd)) <= Len(b), Len(b) <= Len(Begun(hd) \o chunk)
    PROVE  StreamInv'
<1> DEFINE g == Begun(hd)
<1> DEFINE x == g \o chunk
<1>1. g \in Seq(Byte) /\ chunk \in Seq(Byte) /\ wire \in Seq(Byte) /\ x \in Seq(Byte) /\ b \in Seq(Byte)
  BY Typed, WholeFacts, Zenon
<1>2. x \o wire = b \o y
  BY DEF Unread
<1>3. Len(g) <= Len(b) /\ Len(b) <= Len(x) /\ Len(b) \in Nat
  BY <1>1
<1>4. \A i \in 1 .. Len(b) : i <= Len(x) => x[i] = b[i]
  BY <1>1, <1>2, TwoCuts, Zenon
<1>5. y = SubSeq(x, Len(b) + 1, Len(x)) \o wire
  BY <1>1, <1>2, <1>3, TwoCuts, Zenon
<1>6. \A i \in 1 .. Len(b) : x[i] = b[i]
  <2>1. Len(x) \in Nat
    BY <1>1
  <2> HIDE DEF x
  <2>2. \A i \in 1 .. Len(b) : i <= Len(x)
    BY <1>3, <2>1
  <2> QED
    BY <1>4, <2>2, Zenon
<1>7. Joined(hd, chunk, x)
  BY DEF Joined
<1> DEFINE r == TryParse(hd, chunk)
<1>8. r = [state |-> "complete", buf |-> Content(b), used |-> Len(b) - Len(g),
           fin |-> HighBit(b[1]), op |-> OpCode(b[1])]
  BY <1>1, <1>3, <1>6, <1>7, TakeWhole, Zenon
<1>9. /\ SubSeq(x, Len(b) + 1, Len(x)) = SubSeq(chunk, (Len(b) - Len(g)) + 1, Len(chunk))
      /\ SubSeq(chunk, (Len(b) - Len(g)) + 1, Len(chunk)) \in Seq(Byte)
  BY <1>1, <1>3, Rest, Zenon
<1>10. r = TryParse(hd, chunk)
  OBVIOUS
<1> HIDE DEF r, x, g
<1>11. /\ r.state = "complete" /\ r.buf = Content(b) /\ r.used = Len(b) - Len(g)
       /\ r.fin = HighBit(b[1]) /\ r.op = OpCode(b[1])
  BY <1>8
<1>12. /\ chunk' = SubSeq(chunk, r.used + 1, Len(chunk)) /\ UNCHANGED <<sent, pings, ends, sends, wire>>
       /\ Dispatch(r, Keep(r))
  BY <1>10, <1>11, ParseIs, Zenon
<1>13. chunk' \in Seq(Byte) /\ y = chunk' \o wire
  BY <1>5, <1>9, <1>11, <1>12, Zenon
<1>14. p \in Position /\ Holding(p)
  BY DEF Following
<1>15. Handled(q)
  <2>1. sent' = sent
    BY <1>12
  <2>2. CASE CarriesData(sent, b, p, q)
    BY <1>11, <1>12, <1>14, <2>1, <2>2, DataStep, Zenon
  <2>3. CASE CarriesControl(b, p, q)
    BY <1>11, <1>12, <1>14, <2>1, <2>3, ControlStep, Zenon
  <2> QED
    BY <2>2, <2>3
<1>16. TypeOK'
  BY <1>12, <1>13, <1>15, TypeAfter, Zenon DEF Handled
<1>17. Path(sent', Unread', q, Sent')
  <2>1. Begun(hd') = <<>>
    BY <1>15, Zenon DEF Handled, Begun
  <2>2. <<>> \o chunk' = chunk'
    BY <1>13, ConcatEmptySeq
  <2>3. Unread' = y
    BY <1>12, <1>13, <2>1, <2>2, Zenon DEF Unread
  <2>4. Sent' = Sent /\ sent' = sent
    BY <1>12, Zenon DEF Sent
  <2> QED
    BY <2>3, <2>4, Zenon
<1>18. Following(q)'
  <2>1. hd'.state # "failed" /\ hd'.state # "incomplete"
    BY <1>15 DEF Handled
  <2> QED
    BY <1>15, <1>17, <2>1, Zenon DEF Handled, Following
<1> QED
  BY <1>15, <1>16, <1>18, Zenon DEF Handled, StreamInv

\* The frame at the head of the stream has not come whole.
LEMMA PartStep ==
    ASSUME TypeOK, Delivered, NEW p, Following(p), Parse,
           TryParse(hd, chunk) = Parsed("incomplete", Begun(hd) \o chunk, Len(chunk), Begun(hd) \o chunk),
           Unfinished(Begun(hd) \o chunk)
    PROVE  StreamInv'
<1> DEFINE x == Begun(hd) \o chunk
<1> DEFINE r == TryParse(hd, chunk)
<1>1. Begun(hd) \in Seq(Byte) /\ chunk \in Seq(Byte) /\ wire \in Seq(Byte) /\ x \in Seq(Byte)
  BY Typed, Zenon
<1>2. r.state = "incomplete" /\ r.buf = x /\ r.used = Len(chunk)
  <2>1. r = Parsed("incomplete", x, Len(chunk), x)
    BY Zenon
  <2> HIDE DEF x, r
  <2> QED
    BY <2>1 DEF Parsed
<1>3. r = TryParse(hd, chunk)
  OBVIOUS
<1> HIDE DEF r
<1>4. /\ chunk # <<>> /\ chunk' = SubSeq(chunk, r.used + 1, Len(chunk))
      /\ UNCHANGED <<sent, pings, ends, sends, wire>>
      /\ hd' = Keep(r) /\ UNCHANGED <<got, pongs, closing>>
  <2>1. "incomplete" # "complete" /\ "incomplete" # "failed"
    OBVIOUS
  <2> QED
    BY <1>2, <1>3, <2>1, ParseIs, Zenon
<1>5. chunk' = <<>> /\ chunk' \in Seq(Byte)
  <2>1. chunk' = SubSeq(chunk, Len(chunk) + 1, Len(chunk))
    BY <1>2, <1>4, Zenon
  <2>2. SubSeq(chunk, Len(chunk) + 1, Len(chunk)) = <<>>
    BY <1>1
  <2> QED
    BY <2>1, <2>2
<1>6. hd' = [state |-> "incomplete", buf |-> x, merge |-> hd.merge,
             protoFlag |-> hd.protoFlag, mergeFlag |-> hd.mergeFlag]
  BY <1>2, <1>4, KeepIs, Zenon
<1>7. hd.merge \in Seq(Byte) /\ hd.protoFlag \subseteq Flags /\ hd.mergeFlag \subseteq Flags
  BY DEF TypeOK
<1>8. x # <<>>
  BY <1>1, <1>4
<1>9. Unfinished(x)
  OBVIOUS
<1>x. x = Begun(hd) \o chunk
  OBVIOUS
<1> HIDE DEF x
<1>10. /\ hd'.state = "incomplete" /\ hd'.buf = x /\ hd'.merge = hd.merge
       /\ hd'.protoFlag = hd.protoFlag /\ hd'.mergeFlag = hd.mergeFlag
       /\ hd' \in [state : {"complete", "failed", "incomplete"}, buf : Seq(Byte),
                   merge : Seq(Byte), protoFlag : SUBSET Flags, mergeFlag : SUBSET Flags]
  BY <1>1, <1>6, <1>7
<1>11. \A j : FlagsUpTo(j)' = FlagsUpTo(j)
  BY <1>4 DEF FlagsUpTo
<1>12. TypeOK'
  <2>1. /\ got' \in Seq([data : Seq(Byte), flag : SUBSET Flags]) /\ pongs' \in Nat /\ closing' \in BOOLEAN
    BY <1>4, Zenon DEF TypeOK
  <2> QED
    BY <1>4, <1>5, <1>10, <2>1, TypeAfter, Zenon
<1>13. Delivered'
  BY <1>4, <1>11, Zenon DEF Delivered
<1>14. Unread' = Unread
  <2>1. Begun(hd') = x
    <3>1. hd'.state # "complete"
      BY <1>10
    <3> QED
      BY <1>10, <3>1, Zenon DEF Begun
  <2>2. x \o <<>> = x
    BY <1>1, ConcatEmptySeq
  <2>3. Unread' = (x \o <<>>) \o wire
    BY <1>4, <1>5, <2>1, Zenon DEF Unread
  <2> QED
    BY <1>x, <2>2, <2>3, Zenon DEF Unread
<1>15. Following(p)'
  <2>1. Path(sent', Unread', p, Sent')
    <3>1. Sent' = Sent /\ sent' = sent
      BY <1>4, Zenon DEF Sent
    <3> QED
      BY <1>14, <3>1, Zenon DEF Following
  <2>2. Holding(p)'
    BY <1>4, <1>10, <1>11, Zenon DEF Following, Holding
  <2>3. hd'.state # "failed"
    BY <1>10
  <2> QED
    BY <1>8, <1>9, <1>10, <2>1, <2>2, <2>3, Zenon DEF Following
<1> QED
  BY <1>12, <1>13, <1>15, Zenon DEF StreamInv

\* The parser finds a length that cannot be, for the first time or again.
LEMMA RejectStep ==
    ASSUME TypeOK, Delivered, Parse, ends > 0, NEW x, x = Begun(hd) \o chunk, BadLength(x), Len(Begun(hd)) <= 6
    PROVE  StreamInv'
<1> DEFINE g == Begun(hd)
<1> DEFINE r == TryParse(hd, chunk)
<1> DEFINE z == SubSeq(x, 1, 6)
<1>1. g \in Seq(Byte) /\ chunk \in Seq(Byte) /\ x \in Seq(Byte)
  BY Typed, Zenon
<1>2. /\ r = Parsed("failed", z, 6 - Len(g), x) /\ BadLength(z) /\ Len(z) = 6 /\ z \in Seq(Byte)
  <2>1. Joined(hd, chunk, x)
    BY DEF Joined
  <2>2. x \in Seq(Byte)
    BY <1>1
  <2> HIDE DEF g, r, z
  <2>3. /\ TryParse(hd, chunk) = Parsed("failed", SubSeq(x, 1, 6), 6 - Len(Begun(hd)), x)
        /\ BadLength(SubSeq(x, 1, 6)) /\ Len(SubSeq(x, 1, 6)) = 6 /\ SubSeq(x, 1, 6) \in Seq(Byte)
    BY <2>1, <2>2, TakeHuge, Zenon
  <2> QED
    BY <2>3, Zenon DEF g, r, z
<1> HIDE DEF z
<1>3. r.state = "failed" /\ r.buf = z /\ r.used = 6 - Len(g)
  <2> HIDE DEF r, g
  <2> QED
    BY <1>2 DEF Parsed
<1>4. r = TryParse(hd, chunk)
  OBVIOUS
<1> HIDE DEF r
<1>5. /\ chunk' = SubSeq(chunk, r.used + 1, Len(chunk)) /\ UNCHANGED <<sent, pings, ends, sends, wire>>
      /\ hd' = Keep(r) /\ closing' = TRUE /\ UNCHANGED <<got, pongs>>
  <2>1. "failed" # "complete" /\ "incomplete" # "failed"
    OBVIOUS
  <2> QED
    BY <1>3, <1>4, <2>1, ParseIs, Zenon
<1>6. chunk' \in Seq(Byte)
  <2>1. PICK n \in Nat : n = 6
    OBVIOUS
  <2>0. 6 <= Len(x)
    BY Zenon DEF BadLength
  <2>2. Len(g) <= n /\ n <= Len(g \o chunk) /\ n \in Nat
    BY <2>0, <2>1
  <2>3. SubSeq(chunk, (n - Len(g)) + 1, Len(chunk)) \in Seq(Byte)
    <3> HIDE DEF g
    <3> QED
      BY <1>1, <2>2, Rest, Zenon
  <2>4. chunk' = SubSeq(chunk, (n - Len(g)) + 1, Len(chunk))
    BY <1>3, <1>5, <2>1, Zenon
  <2> QED
    BY <2>3, <2>4, Zenon
<1>7. hd' = [state |-> "failed", buf |-> z, merge |-> hd.merge,
             protoFlag |-> hd.protoFlag, mergeFlag |-> hd.mergeFlag]
  BY <1>3, <1>5, KeepIs, Zenon
<1>8. hd.merge \in Seq(Byte) /\ hd.protoFlag \subseteq Flags /\ hd.mergeFlag \subseteq Flags
  BY DEF TypeOK
<1>9. /\ hd'.state = "failed" /\ hd'.buf = z
      /\ hd' \in [state : {"complete", "failed", "incomplete"}, buf : Seq(Byte),
                  merge : Seq(Byte), protoFlag : SUBSET Flags, mergeFlag : SUBSET Flags]
  <2>1. z \in Seq(Byte)
    BY <1>2, Zenon
  <2> QED
    BY <1>7, <1>8, <2>1
<1>10. TypeOK'
  <2>1. /\ got' \in Seq([data : Seq(Byte), flag : SUBSET Flags]) /\ pongs' \in Nat /\ closing' \in BOOLEAN
    BY <1>5, Zenon DEF TypeOK
  <2> QED
    BY <1>5, <1>6, <1>9, <2>1, TypeAfter, Zenon
<1>11. \A j : FlagsUpTo(j)' = FlagsUpTo(j)
  BY <1>5 DEF FlagsUpTo
<1>12. Delivered'
  BY <1>5, <1>11, Zenon DEF Delivered
<1>13. Stuck'
  BY <1>2, <1>5, <1>9, Zenon DEF Stuck
<1> QED
  BY <1>10, <1>12, <1>13, Zenon DEF StreamInv

LEMMA DataWhole ==
    ASSUME TypeOK, NEW p \in Position, NEW b, NEW q, CarriesData(sent, b, p, q) PROVE Whole(b)
<1> DEFINE k == p.msgs + 1
<1> DEFINE a == p.bytes
<1> DEFINE d == sent[k].data
<1>1. PICK n \in Nat \ {0} : /\ IsFrame(b) /\ k \in 1 .. Len(sent)
                             /\ a + n <= Len(d) /\ Body(b) = SubSeq(d, a + 1, a + n)
  BY Zenon DEF CarriesData
<1>2. d \in Seq(Byte)
  <2>1. sent \in Seq(Message) /\ Len(sent) \in Nat
    BY Typed
  <2>2. sent[k] \in Message
    BY <1>1, <2>1
  <2> QED
    BY <2>2 DEF Message
<1>3. a \in Nat
  BY DEF Position
<1>4. n \in Nat \ {0}
  BY <1>1, Zenon
<1>5. SubSeq(d, a + 1, a + n) \in Seq(Byte)
  <2> DEFINE l == Len(d)
  <2>1. l \in Nat /\ l = Len(d) /\ a + n <= l
    BY <1>1, <1>2
  <2> HIDE DEF l, a, d
  <2> QED
    BY <1>2, <1>3, <1>4, <2>1, Slice, Zenon
<1>6. Body(b) \in Seq(Byte) /\ IsFrame(b)
  BY <1>1, <1>5, Zenon
<1>7. Content(b) = Body(b)
  BY <1>6, FrameFacts DEF Content
<1> QED
  BY <1>6, <1>7, Zenon DEF Whole

\* b and g are the same as far as both go.
Agree(b, g) == \A i \in 1 .. Len(b) : i <= Len(g) => g[i] = b[i]

\* What is cut in two ways has the same beginning.
LEMMA CutsAgree ==
    ASSUME NEW g \in Seq(Byte), NEW w \in Seq(Byte), NEW b \in Seq(Byte), NEW y \in Seq(Byte), g \o w = b \o y
    PROVE  Agree(b, g)
<1>1. \A i \in 1 .. Len(b) : i <= Len(g) => g[i] = b[i]
  BY TwoCuts, ZenonT(90)
<1> QED
  BY <1>1, Zenon DEF Agree

\* The same where the first cut leaves three parts.
LEMMA ThreeParts ==
    ASSUME NEW g \in Seq(Byte), NEW c \in Seq(Byte), NEW w \in Seq(Byte), NEW b \in Seq(Byte), NEW y \in Seq(Byte),
           (g \o c) \o w = b \o y
    PROVE  Agree(b, g)
<1> DEFINE v == c \o w
<1>1. v \in Seq(Byte)
  BY Concats, Zenon
<1>2. g \o v = b \o y
  BY Associates, ZenonT(90)
<1> HIDE DEF v
<1> QED
  BY <1>1, <1>2, CutsAgree, Zenon

\* What the handle keeps is the beginning of the stream.
LEMMA HeldFirst ==
    ASSUME TypeOK, NEW b \in Seq(Byte), NEW y \in Seq(Byte), Unread = b \o y
    PROVE  \A i \in 1 .. Len(b) : i <= Len(Begun(hd)) => Begun(hd)[i] = b[i]
<1>1. Begun(hd) \in Seq(Byte) /\ chunk \in Seq(Byte) /\ wire \in Seq(Byte)
  BY Typed, Zenon
<1>2. (Begun(hd) \o chunk) \o wire = b \o y
  BY DEF Unread
<1>3. Agree(b, Begun(hd))
  BY <1>1, <1>2, ThreeParts, Zenon
<1> QED
  BY <1>3, Zenon DEF Agree

\* It keeps less than a whole frame, and less than a parser needs to reject one.
LEMMA HeldLess ==
    ASSUME TypeOK, NEW p, Following(p), NEW b \in Seq(Byte), NEW y \in Seq(Byte), Unread = b \o y
    PROVE  /\ Whole(b) => Len(Begun(hd)) < Len(b)
           /\ b = HugeBytes => Len(Begun(hd)) < 6
<1> DEFINE g == Begun(hd)
<1>1. g \in Seq(Byte) /\ \A i \in 1 .. Len(b) : i <= Len(g) => g[i] = b[i]
  BY HeldFirst, Typed, Zenon
<1>2. g = <<>> \/ Unfinished(g)
  <2>1. hd.state \in {"complete", "incomplete", "failed"} /\ hd.state # "failed"
    BY DEF TypeOK, Following
  <2>2. CASE hd.state = "complete"
    BY <2>2, Zenon DEF Begun
  <2>3. CASE hd.state = "incomplete"
    <3>1. hd.state # "complete"
      BY <2>3
    <3>2. Unfinished(hd.buf)
      BY <2>3, Zenon DEF Following
    <3> QED
      BY <3>1, <3>2, Zenon DEF Begun
  <2> QED
    BY <2>1, <2>2, <2>3
<1> HIDE DEF g
<1>3. CASE g = <<>>
  <2>1. Len(g) = 0
    BY <1>3
  <2>2. Whole(b) => Len(b) \in Nat /\ Len(b) >= 2
    BY WholeFacts
  <2> QED
    BY <2>1, <2>2 DEF g
<1>4. CASE Unfinished(g)
  <2>1. Whole(b) => Len(g) < Len(b)
    BY <1>1, <1>4, HeldShort, Zenon
  <2>2. ASSUME b = HugeBytes PROVE Len(g) < 6
    <3>1. \A i \in 1 .. 10 : i <= Len(g) => g[i] = HugeBytes[i]
      <4>1. Len(b) = 10
        BY <2>2, HugeFacts
      <4> QED
        BY <1>1, <2>2, <4>1, Zenon
    <3> QED
      BY <1>1, <1>4, <3>1, HeldHuge, Zenon
  <2> QED
    BY <2>1, <2>2, Zenon DEF g
<1> QED
  BY <1>2, <1>3, <1>4

LEMMA HugeStep ==
    ASSUME TypeOK, Delivered, NEW p, Following(p), Parse,
           NEW y \in Seq(Byte), NEW q \in Position, Unread = HugeBytes \o y, CarriesHuge(HugeBytes, p, q),
           Path(sent, y, q, Sent)
    PROVE  StreamInv'
<1> DEFINE x == Begun(hd) \o chunk
<1> DEFINE b == HugeBytes
<1>1. x \in Seq(Byte) /\ wire \in Seq(Byte) /\ b \in Seq(Byte)
  BY HugeFacts, Typed, Zenon
<1>2. x \o wire = b \o y
  BY DEF Unread
<1>3. \A i \in 1 .. Len(b) : i <= Len(x) => x[i] = b[i]
  BY <1>1, <1>2, TwoCuts, Zenon
<1>4. Len(b) = 10 /\ Len(x) \in Nat
  BY <1>1, HugeFacts
<1>x. x = Begun(hd) \o chunk
  OBVIOUS
<1>5. Len(Begun(hd)) < 6 /\ Len(Begun(hd)) \in Nat
  <2>1. Len(Begun(hd)) < 6
    BY <1>1, HeldLess, Zenon
  <2>2. Begun(hd) \in Seq(Byte)
    BY Typed, Zenon
  <2> HIDE DEF x, b
  <2> QED
    BY <2>1, <2>2
<1> HIDE DEF x
<1>6. CASE Len(x) < 6
  <2>1. \A i \in 1 .. Len(x) : x[i] = HugeBytes[i]
    <3>1. \A i \in 1 .. Len(x) : i \in 1 .. Len(b) /\ i <= Len(x)
      BY <1>4, <1>6
    <3> QED
      BY <1>3, <3>1, Zenon
  <2>2. Joined(hd, chunk, x)
    BY <1>x DEF Joined
  <2>3. /\ TryParse(hd, chunk) = Parsed("incomplete", x, Len(chunk), x)
        /\ Unfinished(x)
    BY <1>1, <1>6, <2>1, <2>2, PartHuge, Zenon
  <2> QED
    BY <1>x, <2>3, PartStep, Zenon
<1>7. CASE ~ (Len(x) < 6)
  <2>1. 2 \in 1 .. Len(b) /\ 2 <= Len(x) /\ 6 \in 1 .. Len(b) /\ 6 <= Len(x)
    BY <1>4, <1>7
  <2>2. x[2] = b[2] /\ x[6] = b[6]
    BY <1>3, <2>1, Zenon
  <2>3. x[2] = 127 /\ x[6] = 1
    BY <2>2, HugeFacts
  <2>4. BadLength(x)
    <3>1. Len7(x[2]) = 127 /\ x[6] # 0 /\ 6 \in 3 .. 6
      BY <2>3, HugeFacts
    <3>2. Len(x) >= 6
      BY <2>1
    <3> QED
      BY <3>1, <3>2 DEF BadLength
  <2>5. ends > 0
    <3>1. q.ends <= Sent.ends
      BY PathForth, Zenon
    <3>2. q.ends = p.ends + 1 /\ p.ends \in Nat
      BY DEF CarriesHuge, Following, Position
    <3>3. Sent.ends = ends /\ ends \in Nat
      BY DEF Sent, At, TypeOK
    <3> QED
      BY <3>1, <3>2, <3>3
  <2>6. Len(Begun(hd)) <= 6
    <3> DEFINE m == Len(Begun(hd))
    <3>1. m < 6 /\ m \in Nat
      BY <1>5, Zenon
    <3> HIDE DEF m
    <3>2. m <= 6
      BY <3>1
    <3> QED
      BY <3>2 DEF m
  <2> QED
    BY <1>x, <2>4, <2>5, <2>6, RejectStep, Zenon
<1> QED
  BY <1>6, <1>7

LEMMA ParseStep ==
    ASSUME StreamInv, Parse PROVE StreamInv'
<1>1. TypeOK /\ Delivered
  BY DEF StreamInv
<1>2. chunk # <<>> /\ chunk \in Seq(Byte) /\ Begun(hd) \in Seq(Byte) /\ wire \in Seq(Byte)
      /\ Begun(hd) \o chunk \in Seq(Byte) /\ hd.buf \in Seq(Byte)
  BY <1>1, ParseIs, Typed, Zenon
<1>3. CASE Stuck
  <2>1. ends > 0 /\ hd.state = "failed" /\ Len(hd.buf) = 6 /\ BadLength(hd.buf)
    BY <1>3 DEF Stuck
  <2>2. Begun(hd) = hd.buf
    <3>1. hd.state # "complete"
      BY <2>1
    <3> QED
      BY <3>1, Zenon DEF Begun
  <2> DEFINE x == Begun(hd) \o chunk
  <2>3. /\ Len(x) = Len(hd.buf) + Len(chunk) /\ \A i \in 1 .. Len(hd.buf) : x[i] = hd.buf[i]
    <3>1. /\ Len(x) = Len(Begun(hd)) + Len(chunk) /\ \A i \in 1 .. Len(Begun(hd)) : x[i] = Begun(hd)[i]
      BY <1>2, Concats, Zenon
    <3> QED
      BY <2>2, <3>1, Zenon
  <2>4. x = Begun(hd) \o chunk
    OBVIOUS
  <2> HIDE DEF x
  <2>5. BadLength(x)
    <3>1. PICK k \in 3 .. 6 : hd.buf[k] # 0
      BY <2>1 DEF BadLength
    <3>2. x[k] = hd.buf[k] /\ x[2] = hd.buf[2]
      BY <2>1, <2>3, <3>1
    <3>3. Len(x) >= 6
      <4>1. Len(chunk) \in Nat
        BY <1>2
      <4> QED
        BY <2>1, <2>3, <4>1
    <3>4. Len7(hd.buf[2]) = 127
      BY <2>1 DEF BadLength
    <3> QED
      BY <3>1, <3>2, <3>3, <3>4 DEF BadLength
  <2>6. Len(Begun(hd)) <= 6
    <3> DEFINE m == Len(Begun(hd))
    <3>1. m = 6
      BY <2>1, <2>2, Zenon
    <3> HIDE DEF m
    <3>2. m <= 6
      BY <3>1
    <3> QED
      BY <3>2 DEF m
  <2> QED
    BY <1>1, <2>1, <2>4, <2>5, <2>6, RejectStep, Zenon
<1>4. ASSUME NEW p, Following(p) PROVE StreamInv'
  <2>1. p \in Position /\ Path(sent, Unread, p, Sent)
    BY <1>4, Zenon DEF Following
  <2>2. Unread # <<>>
    <3> DEFINE x == Begun(hd) \o chunk
    <3>1. Len(x) = Len(Begun(hd)) + Len(chunk) /\ Len(x \o wire) = Len(x) + Len(wire)
      BY <1>2, Concats, Zenon
    <3>2. Len(chunk) \in Nat /\ Len(chunk) # 0 /\ Len(Begun(hd)) \in Nat /\ Len(wire) \in Nat
      BY <1>2
    <3>u. Unread = x \o wire
      BY DEF Unread
    <3> HIDE DEF x
    <3>3. Len(Unread) # 0
      BY <3>1, <3>2, <3>u
    <3> QED
      BY <3>3
  <2>3. PICK b \in Seq(Byte), y \in Seq(Byte), q \in Position :
           Unread = b \o y /\ Carries(sent, b, p, q) /\ Path(sent, y, q, Sent)
    BY <2>1, <2>2, PathFirst, Zenon
  <2>t. b \in Seq(Byte) /\ y \in Seq(Byte) /\ q \in Position
    BY <2>3, Zenon
  <2>4. CASE CarriesData(sent, b, p, q) \/ CarriesControl(b, p, q)
    <3>1. Whole(b)
      BY <1>1, <2>1, <2>4, DataWhole, Zenon DEF CarriesControl
    <3> DEFINE x == Begun(hd) \o chunk
    <3> DEFINE m == Len(Begun(hd))
    <3>2. m < Len(b)
      BY <1>1, <1>4, <2>3, <2>t, <3>1, HeldLess, Zenon
    <3>3. m \in Nat /\ Len(b) \in Nat /\ Len(x) \in Nat
      BY <1>2, <2>t
    <3>x. x = Begun(hd) \o chunk /\ m = Len(Begun(hd))
      OBVIOUS
    <3> HIDE DEF x, m
    <3>4. CASE Len(b) <= Len(x)
      <4>1. m <= Len(b)
        BY <3>2, <3>3
      <4> QED
        BY <1>1, <1>4, <2>3, <2>4, <2>t, <3>1, <3>4, <3>x, <4>1, WholeStep, Zenon
    <3>5. CASE ~ (Len(b) <= Len(x))
      <4>1. Len(x) < Len(b)
        BY <3>3, <3>5
      <4>2. x \o wire = b \o y
        BY <2>3, <3>x, Zenon DEF Unread
      <4>3. x \in Seq(Byte)
        BY <1>2, <3>x, Zenon
      <4>4. \A i \in 1 .. Len(b) : i <= Len(x) => x[i] = b[i]
        BY <1>2, <2>t, <4>2, <4>3, TwoCuts, ZenonT(90)
      <4>5. \A i \in 1 .. Len(x) : i \in 1 .. Len(b) /\ i <= Len(x)
        BY <3>3, <4>1
      <4>6. \A i \in 1 .. Len(x) : x[i] = b[i]
        BY <4>4, <4>5, Zenon
      <4>7. Joined(hd, chunk, x)
        BY <3>x, Zenon DEF Joined
      <4>8. TryParse(hd, chunk) = Parsed("incomplete", x, Len(chunk), x) /\ Unfinished(x)
        BY <3>1, <4>1, <4>3, <4>6, <4>7, TakePart, Zenon
      <4> QED
        BY <1>1, <1>4, <3>x, <4>8, PartStep, Zenon
    <3> QED
      BY <3>4, <3>5
  <2>5. CASE CarriesHuge(b, p, q)
    <3>1. b = HugeBytes
      BY <2>5, Zenon DEF CarriesHuge
    <3> QED
      BY <1>1, <1>4, <2>3, <2>5, <2>t, <3>1, HugeStep, Zenon
  <2> QED
    BY <2>3, <2>4, <2>5, Zenon DEF Carries
<1> QED
  BY <1>3, <1>4, Zenon DEF StreamInv

-----------------------------------------------------------------------------
(* The theorems.                                                           *)

LEMMA StreamInvariant == ASSUME Understood PROVE Spec => []StreamInv
<1>1. Init => StreamInv
  BY InitInv, Zenon
<1>2. StreamInv /\ [Next]_vars => StreamInv'
  <2> SUFFICES ASSUME StreamInv, [Next]_vars PROVE StreamInv'
    OBVIOUS
  <2>1. CASE Peer
    BY <2>1, PeerStep, StutterStep, Zenon
  <2>2. CASE Parse
    BY <2>2, ParseStep, Zenon
  <2>3. CASE \E n \in 1 .. Len(wire) : Read(n)
    BY <2>3, ReadStep, Zenon
  <2>4. CASE UNCHANGED vars
    BY <2>4, StutterStep, Zenon
  <2> QED
    BY <2>1, <2>2, <2>3, <2>4, Zenon DEF Next
<1> QED
  BY <1>1, <1>2, PTL DEF Spec

\* Whatever frames come, the handle and the calls of onData have the types the
\* code gives them (wsutil.h).
THEOREM StreamTypes == ASSUME Understood PROVE Spec => []TypeOK
<1>1. StreamInv => TypeOK
  BY DEF StreamInv
<1> QED
  BY <1>1, StreamInvariant, PTL

LEMMA DeliveredIntact == ASSUME TypeOK, Delivered PROVE Intact
<1> DEFINE S == Seq(Byte)
<1>1. Len(got) \in Nat /\ Len(sent) \in Nat /\ Len(got) <= Len(sent)
  BY Typed DEF Delivered
<1>2. DOMAIN got = 1 .. Len(got) /\ DOMAIN sent = 1 .. Len(sent)
  BY DEF TypeOK
<1>3. \A k \in 1 .. Len(sent) : sent[k].data \in S
  <2> SUFFICES ASSUME NEW k \in 1 .. Len(sent) PROVE sent[k].data \in S
    OBVIOUS
  <2>1. sent \in Seq(Message)
    BY Typed
  <2>2. sent[k] \in Message
    BY <2>1
  <2> QED
    BY <2>2 DEF Message
<1>4. \A k \in 1 .. Len(got) : k \in 1 .. Len(sent) /\ got[k].data = sent[k].data
  <2>1. \A k \in 1 .. Len(got) : k \in 1 .. Len(sent)
    BY <1>1
  <2> QED
    BY <2>1, Zenon DEF Delivered
<1>5. \A k \in 1 .. Len(got) : got[k].data \in S
  BY <1>3, <1>4, Zenon
<1> HIDE DEF S
<1>6. PayloadsGot = [k \in 1 .. Len(got) |-> got[k].data] /\ PayloadsSent = [k \in 1 .. Len(sent) |-> sent[k].data]
  BY <1>2, Zenon DEF PayloadsGot, PayloadsSent
<1> DEFINE a == PayloadsGot
<1> DEFINE b == PayloadsSent
<1>7. a \in Seq(S) /\ Len(a) = Len(got) /\ \A k \in 1 .. Len(got) : a[k] = got[k].data
  BY <1>1, <1>5, <1>6
<1>8. b \in Seq(S) /\ Len(b) = Len(sent) /\ \A k \in 1 .. Len(sent) : b[k] = sent[k].data
  BY <1>1, <1>3, <1>6
<1>9. \A k \in 1 .. Len(got) : a[k] = b[k]
  BY <1>4, <1>7, <1>8, Zenon
<1> DEFINE n == Len(got)
<1>n. n = Len(got) /\ n \in Nat /\ n <= Len(sent)
  BY <1>1
<1> HIDE DEF a, b, n
<1>10. SubSeq(a, 1, n) = SubSeq(b, 1, n)
  <2>1. n <= Len(a) /\ n <= Len(b) /\ \A k \in 1 .. n : a[k] = b[k]
    BY <1>7, <1>8, <1>9, <1>n
  <2> QED
    BY <1>7, <1>8, <1>n, <2>1, SamePiece
<1>11. Len(a) <= Len(b) /\ SubSeq(a, 1, Len(a)) = SubSeq(b, 1, Len(a))
  BY <1>7, <1>8, <1>10, <1>n
<1> QED
  BY <1>11, Zenon DEF Intact, IsPrefix, a, b

\* However the stream is cut, onData gets the payloads that were sent, whole, in
\* their order and each once (wsutil.cpp:155-263).
THEOREM MessagesIntact == ASSUME Understood PROVE Spec => []Intact
<1>1. StreamInv => Intact
  BY DeliveredIntact DEF StreamInv
<1> QED
  BY <1>1, StreamInvariant, PTL

\* A peer that may use one type only does.
LEMMA OneType ==
    ASSUME NEW op, Ops = {op}, StreamInv, [Next]_vars, \A k \in 1 .. Len(sent) : sent[k].op = op
    PROVE  \A k \in 1 .. Len(sent') : sent'[k].op = op
<1>0. sent \in Seq(Message)
  BY Typed DEF StreamInv
<1>1. CASE sent' = sent
  BY <1>1
<1>2. ASSUME NEW data, NEW o \in Ops, sent' = Append(sent, [op |-> o, data |-> data])
      PROVE  \A k \in 1 .. Len(sent') : sent'[k].op = op
  <2>1. o = op
    OBVIOUS
  <2> QED
    BY <1>0, <1>2, <2>1
<1>3. \/ sent' = sent
      \/ \E o \in Ops : \E data : sent' = Append(sent, [op |-> o, data |-> data])
  <2>1. CASE UNCHANGED vars \/ Parse \/ \E n \in 1 .. Len(wire) : Read(n)
    BY <2>1, Zenon DEF vars, Parse, Read
  <2>2. CASE Peer
    <3>1. CASE \E n \in OwnLens, o \in Ops : OwnMessage(n, o) \/ OwnFrame(n, o)
      BY <3>1, Zenon DEF OwnMessage, OwnFrame
    <3>2. CASE \E n \in ForeignLens, o \in Ops, format \in Formats :
                  \E cut \in (0 .. n - 1) \cup {0}, ping \in BOOLEAN :
                     ForeignMessage(n, o, cut, ping, PeerMask, format)
      BY <3>2, Zenon DEF ForeignMessage
    <3>3. CASE SplitHangs \/ Ping \/ ForeignPong \/ ForeignClose \/ HugeFrame
      BY <3>3, Zenon DEF SplitHangs, Ping, ForeignPong, ForeignClose, HugeFrame, End
    <3> QED
      BY <2>2, <3>1, <3>2, <3>3, Zenon DEF Peer
  <2> QED
    BY <2>1, <2>2, Zenon DEF Next
<1> QED
  BY <1>1, <1>2, <1>3, Zenon

\* The flags of each call of onData are the type of its message and nothing else, if
\* the peer never sends messages of the other type (membuf.h:31-32): after the first
\* change of type it is not so, as the flags are never cleared (CWSServer.cpp:64, 79).
THEOREM TypesTold == ASSUME Understood, NEW op, Ops = {op} PROVE Spec => []TypeFlagged
<1>1. ASSUME StreamInv, \A k \in 1 .. Len(sent) : sent[k].op = op PROVE TypeFlagged
  <2>1. DOMAIN got = 1 .. Len(got) /\ Len(got) \in Nat /\ Len(sent) \in Nat
    BY <1>1 DEF StreamInv, TypeOK
  <2>2. ASSUME NEW k \in DOMAIN got PROVE got[k].flag = {FlagOf(sent[k].op)}
    <3>1. /\ k \in 1 .. Len(sent)
          /\ FlagOf(sent[k].op) \in got[k].flag /\ got[k].flag \subseteq FlagsUpTo(k)
      BY <1>1, <2>1, <2>2 DEF StreamInv, Delivered
    <3>2. \A j \in 1 .. k : sent[j].op = op
      BY <1>1, <2>1, <3>1
    <3>3. k \in 1 .. k
      BY <3>1
    <3>4. sent[k].op = op
      BY <3>2, <3>3, Zenon
    <3>5. FlagsUpTo(k) \subseteq {FlagOf(op)}
      BY <3>2, Zenon DEF FlagsUpTo
    <3>6. {FlagOf(sent[k].op)} = {FlagOf(op)} /\ got[k].flag = {FlagOf(op)}
      BY <3>1, <3>4, <3>5, Zenon
    <3> QED
      BY <3>6, Zenon
  <2> QED
    BY <2>2, Zenon DEF TypeFlagged
<1>2. Spec => [](\A k \in 1 .. Len(sent) : sent[k].op = op)
  <2> DEFINE Same == \A k \in 1 .. Len(sent) : sent[k].op = op
  <2>1. Init => Same
    BY DEF Init
  <2>2. StreamInv /\ Same /\ [Next]_vars => Same'
    BY OneType, Zenon
  <2> QED
    BY <2>1, <2>2, StreamInvariant, PTL DEF Spec
<1> QED
  BY <1>1, <1>2, StreamInvariant, PTL

\* tw_close_client is called for nothing but a close frame or an impossible length
\* of the peer (CWSServer.cpp:95-99, 113-114).
THEOREM OnlyEndsClose == ASSUME Understood PROVE Spec => []ClosedOnRequest
<1>1. ASSUME StreamInv PROVE ClosedOnRequest
  <2>1. CASE Stuck
    BY <2>1, Zenon DEF Stuck, ClosedOnRequest
  <2>2. ASSUME NEW p, Following(p), closing PROVE ends > 0
    <3>1. p.ends > 0 /\ p \in Position
      BY <2>2, Zenon DEF Following, Holding
    <3>2. p.ends <= Sent.ends
      BY <2>2, PathForth, Zenon DEF Following
    <3>3. Sent.ends = ends /\ ends \in Nat /\ p.ends \in Nat
      BY <1>1, <3>1 DEF Sent, At, StreamInv, TypeOK, Position
    <3> QED
      BY <3>1, <3>2, <3>3
  <2> QED
    BY <1>1, <2>1, <2>2, Zenon DEF StreamInv, ClosedOnRequest
<1> QED
  BY <1>1, StreamInvariant, PTL

LEMMA NothingLeft ==
    ASSUME TypeOK, NEW p, Following(p), wire = <<>>, chunk = <<>>
    PROVE  hd.state = "complete" /\ p = Sent
<1>1. Unread = Begun(hd) /\ Begun(hd) \in Seq(Byte)
  <2>1. Begun(hd) \in Seq(Byte)
    BY Typed, Zenon
  <2>2. Begun(hd) \o <<>> = Begun(hd)
    BY <2>1, ConcatEmptySeq
  <2> QED
    BY <2>1, <2>2, Zenon DEF Unread
<1>2. Path(sent, Unread, p, Sent) /\ p \in Position
  BY Zenon DEF Following
<1>3. ASSUME NEW b \in Seq(Byte), NEW y \in Seq(Byte), NEW q, Unread = b \o y, Carries(sent, b, p, q)
      PROVE  FALSE
  <2>1. Whole(b) \/ b = HugeBytes
    <3>1. CASE CarriesData(sent, b, p, q)
      BY <1>2, <3>1, DataWhole, Zenon
    <3> QED
      BY <1>3, <3>1, Zenon DEF Carries, CarriesControl, CarriesHuge
  <2>2. /\ Whole(b) => Len(Begun(hd)) < Len(b)
        /\ b = HugeBytes => Len(Begun(hd)) < 6
    BY <1>3, HeldLess, Zenon
  <2>3. Len(b \o y) = Len(b) + Len(y)
    BY Concats, Zenon
  <2> DEFINE m == Len(Begun(hd))
  <2>4. m = Len(b) + Len(y)
    BY <1>1, <1>3, <2>3, Zenon
  <2>5. m \in Nat /\ Len(b) \in Nat /\ Len(y) \in Nat
    BY <1>1
  <2>6. b = HugeBytes => Len(b) = 10
    BY HugeFacts
  <2>7. Whole(b) => m < Len(b)
    BY <2>2, Zenon
  <2>8. b = HugeBytes => m < 6
    BY <2>2, Zenon
  <2> DEFINE i == Len(b)
  <2> DEFINE j == Len(y)
  <2>9. m = i + j /\ m \in Nat /\ i \in Nat /\ j \in Nat
    BY <2>4, <2>5, Zenon
  <2>10. CASE Whole(b)
    <3>1. m < i
      BY <2>7, <2>10, Zenon
    <3> HIDE DEF m, i, j
    <3> QED
      BY <2>9, <3>1
  <2>11. CASE b = HugeBytes
    <3>1. m < 6 /\ i = 10
      BY <2>6, <2>8, <2>11, Zenon
    <3> HIDE DEF m, i, j
    <3> QED
      BY <2>9, <3>1
  <2> QED
    BY <2>1, <2>10, <2>11, Zenon
<1>4. Unread = <<>> /\ p = Sent
  BY <1>2, <1>3, PathFirst, Zenon
<1>5. hd.state = "complete"
  <2>1. hd.state \in {"complete", "incomplete", "failed"} /\ hd.state # "failed"
    BY DEF TypeOK, Following
  <2>2. hd.state # "complete" => Begun(hd) = hd.buf
    BY Zenon DEF Begun
  <2>3. hd.state = "incomplete" => hd.buf # <<>>
    BY Zenon DEF Following
  <2> QED
    BY <1>1, <1>4, <2>1, <2>2, <2>3
<1> QED
  BY <1>4, <1>5

\* When all bytes were read, every message was handed over and every ping answered,
\* no byte is held back, and a frame that ends the connection has closed it
\* (CWSServer.cpp:39-121).
THEOREM NothingHeldBack == ASSUME Understood PROVE Spec => []Drained
<1>1. ASSUME StreamInv, wire = <<>>, chunk = <<>>
      PROVE  IF ends > 0 THEN closing ELSE Len(got) = Len(sent) /\ pongs = pings /\ hd.state = "complete"
  <2>1. CASE Stuck
    BY <2>1, Zenon DEF Stuck
  <2>2. ASSUME NEW p, Following(p)
        PROVE  IF ends > 0 THEN closing ELSE Len(got) = Len(sent) /\ pongs = pings /\ hd.state = "complete"
    <3>1. hd.state = "complete" /\ p = Sent
      BY <1>1, <2>2, NothingLeft, Zenon DEF StreamInv
    <3>2. p.msgs = Len(sent) /\ p.pings = pings /\ p.ends = ends
      BY <3>1 DEF Sent, At
    <3>3. p.msgs = Len(got) /\ p.pings = pongs /\ (closing <=> p.ends > 0)
      BY <2>2, Zenon DEF Following, Holding
    <3> QED
      BY <3>1, <3>2, <3>3, Zenon
  <2> QED
    BY <1>1, <2>1, <2>2, Zenon DEF StreamInv
<1>2. StreamInv => Drained
  BY <1>1, Zenon DEF Drained
<1> QED
  BY <1>2, StreamInvariant, PTL
=============================================================================
