----------------------------- MODULE ByteString -----------------------------
(***************************************************************************)
(* What membuf.h says a membuf_t is to its users: a sequence of bytes.  A  *)
(* call of a membuf function begins and returns; the sequence changes in   *)
(* between.                                                                *)
(***************************************************************************)
EXTENDS Integers, Sequences

CONSTANTS
    Calls,    \* the calls that are made: records with the fields of NoCall
    MaxSize   \* bound: the length of the sequence

VARIABLES
    content,  \* the bytes
    call      \* the call under way

NoCall == [op |-> "none", data |-> <<>>, at |-> 0, n |-> 0]

\* The call c would leave no more than MaxSize bytes, and keeps the assertion of
\* membuf_insert.
Allowed(c) ==
    /\ c.op \in {"append", "insert", "format"} => Len(content) + Len(c.data) < MaxSize
    /\ c.op = "insert" => c.at < Len(content)

\* The bytes behind the first `from`.
Behind(from) == SubSeq(content, from + 1, Len(content))

\* The content after call c.
Result(c) ==
    CASE c.op \in {"append", "format"} -> content \o c.data
      [] c.op = "insert" -> SubSeq(content, 1, c.at) \o c.data \o Behind(c.at)
      [] c.op = "remove" ->
            IF c.at >= Len(content) THEN content
            ELSE SubSeq(content, 1, c.at) \o Behind(c.at + c.n)
      [] c.op \in {"clear", "init"} -> <<>>
      [] c.op = "trunc" -> content

Init == content = <<>> /\ call = NoCall

Begin(c) ==
    /\ call = NoCall /\ Allowed(c)
    /\ call' = c
    /\ UNCHANGED content

Return ==
    /\ call # NoCall
    /\ content' = Result(call)
    /\ call' = NoCall

Next == Return \/ \E c \in Calls : Begin(c)

Spec == Init /\ [][Next]_<<content, call>>
=============================================================================
