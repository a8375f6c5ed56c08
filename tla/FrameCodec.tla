----------------------------- MODULE FrameCodec -----------------------------
(***************************************************************************)
(* The frame generator and the incremental frame parser of wsutil.cpp, on  *)
(* sequences of bytes.  The three length limits of the code are constants, *)
(* so that TLC can put small numbers for 125, 65535 and 65520.             *)
(***************************************************************************)
EXTENDS Integers, Sequences, SequencesExt

CONSTANTS
    XorByte(_, _),  \* exclusive or of two bytes
    ShortLen,       \* longest payload with a 7 bit length   (125 in the code)
    MediumLen,      \* longest payload with a 16 bit length  (65535)
    FragLen         \* DATA_FRAME_MAX_LEN                    (65520)

Byte == 0 .. 255

Mask == <<26, 43, 60, 77>>     \* the static mask {0x1a,0x2b,0x3c,0x4d}

ASSUME CodecAssumption ==
    /\ ShortLen \in 1 .. 125
    /\ MediumLen \in ShortLen .. 65535
    /\ FragLen \in 1 .. MediumLen
    /\ \A b \in Byte, k \in 1 .. 4 : XorByte(b, Mask[k]) \in Byte /\ XorByte(XorByte(b, Mask[k]), Mask[k]) = b

CONTINUE == 0
TEXT     == 1
BIN      == 2
CLOSE    == 8
PING     == 9
PONG     == 10

HighBit(b) == b \div 128       \* FIN of the first byte, MASK of the second
OpCode(b)  == b % 16
Len7(b)    == b % 128

-----------------------------------------------------------------------------
(* Generating.                                                             *)

TwoBytes(n)  == <<n \div 256, n % 256>>
FourBytes(n) == LET q == n \div 256
                    r == q \div 256 IN <<r \div 256, r % 256, q % 256, n % 256>>

\* Do and undo the mask: byte i meets mask byte i modulo 4.
Masked(data, mask) == [i \in 1 .. Len(data) |-> XorByte(data[i], mask[((i - 1) % 4) + 1])]

Header(n, op, fin, mask) ==
    LET first == 128 * fin + op IN
    IF n <= ShortLen THEN <<first, 128 * mask + n>>
    ELSE IF n <= MediumLen THEN <<first, 128 * mask + 126>> \o TwoBytes(n)
    ELSE <<first, 128 * mask + 127, 0, 0, 0, 0>> \o FourBytes(n)

FrameWithoutFragment(data, op, fin, mask) ==
    Header(Len(data), op, fin, mask) \o
        IF mask = 1 THEN Mask \o Masked(data, Mask) ELSE data

Smaller(a, b) == IF a <= b THEN a ELSE b

Fragment_dropsTail(data, k) == SubSeq(data, (k - 1) * FragLen + 1, Smaller(k * FragLen, Len(data) - 1))

\* The k-th fragment of a message.
Fragment(data, k) == SubSeq(data, (k - 1) * FragLen + 1, Smaller(k * FragLen, Len(data)))

\* generate_websocket_frame: an empty message produces nothing.
Frames(data, op) ==
    LET n == (Len(data) + FragLen - 1) \div FragLen IN
    FlattenSeq([k \in 1 .. n |->
        FrameWithoutFragment(Fragment(data, k),
                             IF k = 1 THEN op ELSE CONTINUE,
                             IF k = n THEN 1 ELSE 0,
                             0)])

\* The close, ping and pong frames: two bytes that announce a payload of two.
ControlFrame(op) == <<128 + op, 2>>

-----------------------------------------------------------------------------
(* Parsing.  A handle keeps the bytes of the frame under way in buf; every *)
(* call reads that frame again from its first byte, taking from data what  *)
(* buf does not have.                                                      *)

ExtLen(b) == IF Len7(b) = 126 THEN 2 ELSE IF Len7(b) = 127 THEN 8 ELSE 0

HeaderLen(b) == 2 + ExtLen(b) + (IF HighBit(b) = 1 THEN 4 ELSE 0)

\* The payload length that the bytes of a frame announce.
PayloadLen(all) ==
    IF Len7(all[2]) = 126 THEN 256 * all[3] + all[4]
    ELSE IF Len7(all[2]) = 127
    THEN 256 * (256 * (256 * all[7] + all[8]) + all[9]) + all[10]
    ELSE Len7(all[2])

\* What try_parse_protocol leaves in the handle, and how much of data it took.
Parsed(state, buf, used, all) ==
    [state |-> state, buf |-> buf, used |-> used,
     fin |-> HighBit(all[1]), op |-> OpCode(all[1])]

Unmask(all, from, n) ==
    LET payload == SubSeq(all, from + 1, from + n) IN
    IF HighBit(all[2]) = 1 THEN Masked(payload, SubSeq(all, from - 3, from)) ELSE payload

\* The bytes of the frame under way; a complete one is cleared by the next call.
Begun(h) == IF h.state = "complete" THEN <<>> ELSE h.buf

BadLength_shortToo(all) == Len(all) >= 6 /\ Len7(all[2]) >= 126 /\ \E k \in 3 .. 6 : all[k] # 0

\* The upper half of a 64 bit length must be zero.
BadLength(all) == Len(all) >= 6 /\ Len7(all[2]) = 127 /\ \E k \in 3 .. 6 : all[k] # 0

TryParse(h, data) ==
    LET all == Begun(h) \o data
        old == Len(Begun(h))
        hdr == HeaderLen(all[2])
        end == hdr + PayloadLen(all)
    IN  IF Len(all) < 2 THEN Parsed("incomplete", all, Len(data), all)
        \* No payload: done after two bytes, which stay in the buffer; a mask is not read.
        ELSE IF Len7(all[2]) = 0 THEN Parsed("complete", SubSeq(all, 1, 2), 2 - old, all)
        ELSE IF BadLength(all) THEN Parsed("failed", SubSeq(all, 1, 6), 6 - old, all)
        ELSE IF Len(all) < hdr \/ Len(all) < end
        THEN Parsed("incomplete", all, Len(data), all)
        ELSE Parsed("complete", Unmask(all, hdr, end - hdr), end - old, all)
=============================================================================
