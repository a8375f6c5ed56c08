-------------------------------- MODULE Sha1 --------------------------------
(***************************************************************************)
(* The buffering and padding of sha1.cpp.  A context is the record of its  *)
(* fields; in place of the five chaining values it has the blocks that     *)
(* hash1_transform was given, of which they are a function.  Sizes are     *)
(* constants, so that a few bytes reach every case.                        *)
(***************************************************************************)
EXTENDS Integers, Sequences

CONSTANTS
    Block,     \* bytes in a block          (64 in the code)
    LenBytes,  \* bytes of the bit count    (8)
    DigestLen  \* bytes in a digest         (20)

ASSUME Sha1Assumption ==
    /\ Block \in Nat /\ LenBytes \in Nat \ {0} /\ DigestLen \in Nat
    /\ LenBytes + DigestLen < Block

Least(a, b) == IF a <= b THEN a ELSE b

\* hash1_reset
Reset == [blocks |-> <<>>, buf |-> [i \in 1 .. Block |-> 0], count |-> 0, final |-> FALSE]

\* hash1_transform: its eighty rounds, a function of the block and the values so far.
Transform(hd, block) == [hd EXCEPT !.blocks = Append(@, block)]

\* hash1_write without data: a full buffer is hashed.
Flush(hd) ==
    IF hd.count = Block THEN [Transform(hd, hd.buf) EXCEPT !.count = 0] ELSE hd

\* Data that fits into the buffer.
Fill(hd, data) ==
    [hd EXCEPT !.buf = [i \in 1 .. Block |->
                           IF i > hd.count /\ i <= hd.count + Len(data)
                           THEN data[i - hd.count] ELSE hd.buf[i]],
               !.count = @ + Len(data)]

Chunks(data) == [k \in 1 .. Len(data) \div Block |-> SubSeq(data, (k - 1) * Block + 1, k * Block)]

\* How much of the data goes into a buffer that is not empty.
Room(hd, data) == IF hd.count > 0 THEN Least(Block - hd.count, Len(data)) ELSE 0

\* hash1_write: fill the buffer, hash whole blocks from the data, keep the rest.
Write(hd, data) ==
    LET begun == Flush(IF hd.final THEN Reset ELSE hd)
        first == Room(begun, data)
        full  == Flush(Fill(begun, SubSeq(data, 1, first)))
        rest  == SubSeq(data, first + 1, Len(data))
        whole == Chunks(rest)
    IN  Fill([full EXCEPT !.blocks = @ \o whole], SubSeq(rest, Len(whole) * Block + 1, Len(rest)))

BigEndian(n) == [k \in 1 .. LenBytes |-> (n \div 256 ^ (LenBytes - k)) % 256]

Enough_byOne(hd) == hd.count <= Block - LenBytes

\* Room for the bit count behind what is in the buffer.
Enough(hd) == hd.count < Block - LenBytes

\* The buffer with one bit and then zeros up to n bytes.
Pad(hd, n) == Fill(hd, [i \in 1 .. n - hd.count |-> IF i = 1 THEN 128 ELSE 0])

\* hash1_final, for a hash function whose value is then digest: it is put at the
\* start of the buffer.
Final(hd, digest) ==
    LET ready == Flush(IF hd.final THEN Reset ELSE hd)
        bits  == 8 * (Block * Len(ready.blocks) + ready.count)
        room  == Block - LenBytes
        fresh == [Flush(Pad(ready, Block)) EXCEPT !.buf = [i \in 1 .. Block |-> IF i <= room THEN 0 ELSE @[i]],
                                                  !.count = room]
        last  == IF Enough(ready) THEN Pad(ready, room) ELSE fresh
        done  == Fill(last, BigEndian(bits))
    IN  [Fill([Transform(done, done.buf) EXCEPT !.count = 0], digest)
            EXCEPT !.count = room, !.final = TRUE]

-----------------------------------------------------------------------------
\* The message as FIPS 180 pads it: a one bit, as few zeros as fill a block with the
\* length at its end, and the length.
Padded(data) ==
    LET zeros == (2 * Block - LenBytes - 1 - (Len(data) % Block)) % Block IN
    data \o <<128>> \o [i \in 1 .. zeros |-> 0] \o BigEndian(8 * Len(data))
=============================================================================
