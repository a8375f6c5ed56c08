----------------------------- MODULE MCHandshake ----------------------------
(***************************************************************************)
(* Instances of Handshake for TLC.                                         *)
(***************************************************************************)
EXTENDS Handshake

\* Zero, the letters of base64 and its mark.
ByteDef == 0 .. 65

NoArgs == [op |-> "none", data |-> <<>>, at |-> 0, n |-> 0]

OtherCallsDef ==
    {[NoArgs EXCEPT !.op = "append", !.data = d] : d \in {<<1>>, <<2, 1, 1, 2>>}}
    \cup {[NoArgs EXCEPT !.op = "insert", !.at = 1, !.data = d] : d \in {<<2>>, <<1, 2>>}}
    \cup {[NoArgs EXCEPT !.op = "remove", !.at = 1, !.n = n] : n \in {0, 1, 4}}
    \cup {[NoArgs EXCEPT !.op = "remove", !.n = 2],
          [NoArgs EXCEPT !.op = "clear", !.n = 3], [NoArgs EXCEPT !.op = "init"],
          [NoArgs EXCEPT !.op = "trunc"], [NoArgs EXCEPT !.op = "format", !.data = <<1>>]}

\* The letters of base64, one by one, and the calls of other code.
CallsDef == OtherCallsDef \cup {[NoArgs EXCEPT !.op = "append", !.data = <<c>>] : c \in Byte}

\* Bytes that are zero, and that put ones on both sides of each boundary of six bits.
DigestsDef == [1 .. DigestLen -> {0, 3, 90, 255}]
=============================================================================
