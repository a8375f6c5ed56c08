------------------------------ MODULE Handshake -----------------------------
(***************************************************************************)
(* How a server answers the request for a handshake: on_read looks for the *)
(* key in what it has read, sha1_and_base64 hashes it, and base64_encode   *)
(* puts the text together in a membuf, byte by byte.  The membuf of this   *)
(* module is that one, or one that other code uses as it likes.            *)
(***************************************************************************)
EXTENDS Membuf, Sha1

CONSTANTS
    OtherCalls, \* what other code calls
    OtherMax,   \* bound: the length of its content
    KeyLens,    \* the lengths of the keys that clients send
    SuffixLen,  \* the length of WS_KEY_SUFFFIX  (36 in the code)
    AkeyLen,    \* the length of akey, where the key and the suffix are put together  (100)
    Digests     \* values of the hash function, as sequences of bytes

\* base64_encode appends letter by letter.
Put(letter) == [string!NoCall EXCEPT !.op = "append", !.data = <<letter>>]

\* Besides the types: all letters can be appended, and a uint counts the bytes that
\* base64_encode asks for.
ASSUME HandshakeAssumption ==
    /\ OtherCalls \subseteq Calls /\ OtherMax \in Nat
    /\ \A letter \in 1 .. 65 : Put(letter) \in Calls
    /\ 3 * Block < Word
    /\ KeyLens \subseteq Nat \ {0} /\ SuffixLen \in Nat /\ AkeyLen \in Nat /\ DigestLen > 0
    /\ \A d \in Digests : d \in Seq(0 .. 255) /\ Len(d) = DigestLen

VARIABLES
    phase,   \* what the server does: reads, encodes, has answered or closed, or has written
             \* behind akey, from where on its behaviour is undefined; or another user's
    key,     \* the length of the key it was sent
    hd,      \* the SHA1_CONTEXT
    answer   \* the text behind Sec-WebSocket-Accept

hsVars == <<phase, key, hd, answer>>
hsAll == <<bufVars, hsVars>>

-----------------------------------------------------------------------------
(* base64_encode, with 1 .. 64 for the letters of the alphabet and 65 for =.*)

Letter(sextet) == sextet + 1
EndMark == 65

Sextets_unmasked(a, b, c) ==
    <<a \div 4, (a % 4) * 16 + b \div 16, (b % 16) * 4 + c \div 64, c>>

Sextets(a, b, c) ==
    <<a \div 4, (a % 4) * 16 + b \div 16, (b % 16) * 4 + c \div 64, c % 64>>

\* The k-th group of three bytes, filled up with zeros.
Group(bytes, k) ==
    LET at(i) == IF 3 * k + i <= Len(bytes) THEN bytes[3 * k + i] ELSE 0 IN
    Sextets(at(1), at(2), at(3))

Letters_short(bytes, k) == Len(bytes) - 3 * k

\* How many letters the k-th group gives: one more than it has bytes.
Letters(bytes, k) == Least(Len(bytes) - 3 * k, 3) + 1

TextLen(bytes) == 4 * ((Len(bytes) + 2) \div 3)

\* The j-th byte of the text.
Encoded(bytes, j) ==
    LET k == (j - 1) \div 4
        i == ((j - 1) % 4) + 1
    IN  IF i <= Letters(bytes, k) THEN Letter(Group(bytes, k)[i]) ELSE EndMark

-----------------------------------------------------------------------------
(* Reading the request.                                                    *)

\* generate_websocket_client_handshake: the lines before the key, the key, the line
\* behind it and the end of the head.
Request(k) == <<<<"lines", 0>>, <<"key", k>>, <<"lines", 0>>, <<"end", 0>>>>

\* parse_http_heads: the keys before the end of the head.
KeysIn(read) ==
    {read[i] : i \in {i \in DOMAIN read :
        read[i][1] = "key" /\ \E j \in i .. Len(read) : read[j][1] = "end"}}

\* The key and the suffix: bytes that differ, up to 255 of them, and are not zero.
Message(k) == [i \in 1 .. k + SuffixLen |-> ((i - 1) % 255) + 1]

\* What strlen takes a binary digest to be: all up to the first zero byte of the
\* buffer it is in.
CString(buf) ==
    LET zeros == {i \in DOMAIN buf : buf[i] = 0}
    IN  IF zeros = {} THEN buf ELSE SubSeq(buf, 1, (CHOOSE i \in zeros : \A j \in zeros : i <= j) - 1)

Digest == CString(hd.buf)

\* What printf makes of NULL, "(null)": a text that is not base64.
NullText == <<EndMark, EndMark>>

HsInit ==
    /\ BufInit
    /\ phase \in {"reads", "other"}
    /\ key = 0 /\ hd = Reset /\ answer = <<>>

\* The key, the suffix and the zero behind them fit into akey.
FitsAkey(k) == k + SuffixLen < AkeyLen

\* on_read with the first n pieces of a request: it is hashed, if the message fits into
\* akey, and the membuf of base64_encode initialised with three bytes for each of the
\* digest.
ReadRequest(k, n) ==
    /\ phase = "reads" /\ stage = "none"
    /\ IF KeysIn(SubSeq(Request(k), 1, n)) = {}
       THEN phase' = "closed" /\ UNCHANGED <<bufVars, key, hd>>
       ELSE IF ~ FitsAkey(k)
       THEN phase' = "overflowed" /\ UNCHANGED <<bufVars, key, hd>>
       ELSE \E digest \in Digests :
            /\ phase' = "encodes" /\ key' = k
            /\ hd' = Final(Write(Reset, Message(k)), digest)
            /\ cap' = 3 * Len(CString(hd'.buf)) /\ mem' = Zeros(cap')
            /\ size' = 0 /\ dirty' = FALSE
            /\ UNCHANGED <<call, stage, grown>>
    /\ UNCHANGED answer

\* The next byte of the text.
Encode ==
    /\ phase = "encodes" /\ size < TextLen(Digest)
    /\ Begin(Put(Encoded(Digest, size + 1)))
    /\ UNCHANGED hsVars

\* generate_websocket_server_handshake prints the text, up to its zero; there is no text
\* at all for a digest that begins with a zero byte.
Answer ==
    /\ phase = "encodes" /\ stage = "none" /\ size = TextLen(Digest)
    /\ answer' = IF mem = <<>> THEN NullText ELSE CString(mem)
    /\ phase' = "answered"
    /\ UNCHANGED <<bufVars, key, hd>>

Other ==
    /\ phase = "other"
    /\ \E c \in OtherCalls : size + Extra(c) <= OtherMax /\ Begin(c)
    /\ UNCHANGED hsVars

HsNext ==
    \/ \E k \in KeyLens, n \in 1 .. 4 : ReadRequest(k, n)
    \/ Encode \/ Answer \/ Other
    \/ Inside /\ UNCHANGED hsVars

\* A call that was begun goes on.
HsSpec == HsInit /\ [][HsNext]_hsAll /\ WF_hsAll(Inside /\ UNCHANGED hsVars)

-----------------------------------------------------------------------------
(* Properties.                                                             *)

\* The type invariant.
HsTypeOK ==
    /\ BufTypeOK
    /\ phase \in {"reads", "encodes", "answered", "closed", "overflowed", "other"}
    /\ key \in KeyLens \cup {0}
    /\ hd.blocks \in Seq([1 .. Block -> 0 .. 255]) /\ hd.buf \in [1 .. Block -> 0 .. 255]
    /\ hd.count \in 0 .. Block /\ hd.final \in BOOLEAN
    /\ answer \in Seq(Byte)

\* The hash function is given the padded message, block by block, for every length of
\* the key that akey has room for, 63 bytes in the code (wsutil.cpp:66-69), and however a
\* caller cuts what it writes (sha1.cpp:185-280).
HashesMessage ==
    phase = "encodes" /\ size = 0 =>
        /\ key + SuffixLen < AkeyLen
        /\ hd.blocks = Chunks(Padded(Message(key)))
        /\ \A cut \in 0 .. key + SuffixLen :
              LET one == SubSeq(Message(key), 1, cut)
                  two == SubSeq(Message(key), cut + 1, key + SuffixLen)
              IN  Final(Write(Write(Reset, one), two), SubSeq(hd.buf, 1, DigestLen)) = hd

\* The j-th bit of a sequence of bytes, and base64 as RFC 4648 has it: six bits to
\* a letter.
Bit(bytes, j) ==
    IF j > 8 * Len(bytes) THEN 0
    ELSE (bytes[(j - 1) \div 8 + 1] \div 2 ^ (7 - ((j - 1) % 8))) % 2

Base64(bytes) ==
    [j \in 1 .. TextLen(bytes) |->
        LET b(i) == Bit(bytes, 6 * (j - 1) + i) IN
        IF 6 * (j - 1) >= 8 * Len(bytes) THEN EndMark
        ELSE Letter(32 * b(1) + 16 * b(2) + 8 * b(3) + 4 * b(4) + 2 * b(5) + b(6))]

\* The byte behind the digest is zero: what the hash left in the buffer, for this
\* length of the key.  For the 24 bytes that RFC 6455 prescribes it is.
ZeroBehind ==
    LET left == (key + SuffixLen) % Block IN left < DigestLen \/ left >= Block - LenBytes

\* The text in the answer is the base64 of the digest, a C string that ends where it
\* should, for a digest without a zero byte (wsutil.cpp:20-28, encode.cpp:29-69).
AcceptExact ==
    phase = "answered" /\ ZeroBehind /\ 0 \notin {hd.buf[i] : i \in 1 .. DigestLen} =>
        answer = Base64(SubSeq(hd.buf, 1, DigestLen))
=============================================================================
