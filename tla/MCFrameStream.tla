---------------------------- MODULE MCFrameStream ---------------------------
(***************************************************************************)
(* Instances of FrameStream for TLC: the exclusive or of a byte and a mask *)
(* byte, from a table.                                                     *)
(***************************************************************************)
EXTENDS FrameStream, Bitwise

XorTable == [k \in {Mask[i] : i \in 1 .. 4} |-> [b \in Byte |-> b ^^ k]]
TableXor(b, k) == XorTable[k][b]
=============================================================================
