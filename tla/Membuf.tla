------------------------------- MODULE Membuf -------------------------------
(***************************************************************************)
(* The growable buffer of membuf.cpp: a block of memory, the length of the *)
(* content, and the capacity, which is the length of the block.  reserve   *)
(* computes capacities in 32 bits and finds the new one in a loop, each    *)
(* turn of which is a step here.  The byte that holds the type flags is    *)
(* left out.                                                               *)
(***************************************************************************)
EXTENDS Integers, Sequences

CONSTANTS
    Byte,      \* the values of a byte, 0 among them
    Word,      \* 2^32: the number of values of a uint
    Calls,     \* the calls that are made
    FirstSizes, \* the initial_buffer_size of membuf_init
    MaxSize    \* bound: the length of the content

\* Half the range of a uint is what the doubling of reserve is good for.  An insertion
\* of nothing is left out: it changes nothing.
ASSUME MembufAssumption ==
    /\ 0 \in Byte
    /\ Word \in Nat /\ MaxSize \in Nat /\ 2 * MaxSize <= Word /\ MaxSize + 4 < Word
    /\ FirstSizes \subseteq 0 .. Word - 1
    /\ \A c \in Calls :
        /\ c.op \in {"append", "insert", "remove", "clear", "init", "trunc", "format"}
        /\ c.data \in Seq(Byte) /\ c.at \in Nat
        /\ c.n \in Nat /\ (c.op = "init" => c.n < Word)
        /\ c.op = "clear" => c.n < Word
        /\ c.op = "insert" => c.data # <<>>

VARIABLES
    mem,    \* the block at data: <<>> when it is NULL
    size,   \* the length of the content
    cap,    \* buffer_size
    call,   \* the call under way
    stage,  \* how far it is: none, grow or apply
    grown,  \* new_buffer_size
    dirty   \* something was left behind the content since it was last cleared

bufVars == <<mem, size, cap, call, stage, grown, dirty>>

Content == SubSeq(mem, 1, size)

string == INSTANCE ByteString WITH content <- Content

Zeros(n) == [i \in 1 .. n |-> 0]

\* membuf_init
BufInit ==
    /\ \E n \in FirstSizes : mem = Zeros(n) /\ cap = n
    /\ size = 0 /\ call = string!NoCall /\ stage = "none" /\ grown = 0 /\ dirty = FALSE

-----------------------------------------------------------------------------
(* membuf_reserve.                                                         *)

\* The bytes a call asks reserve for; a formatted text is followed by a zero.
Extra(c) ==
    CASE c.op \in {"append", "insert"} -> Len(c.data)
      [] c.op = "format" -> Len(c.data) + 1
      [] OTHER -> 0

Need(c) == (size + Extra(c)) % Word

First_zero(c) == (2 * cap) % Word

\* A uint, which the capacity and the sum are cut to.
First(c) == IF cap = 0 THEN Extra(c) % Word ELSE (2 * cap) % Word

Short_byOne(c) == Extra(c) > cap - size + 1
Short(c) == Extra(c) > cap - size

Begin(c) ==
    /\ call = string!NoCall /\ string!Allowed(c)
    /\ call' = c
    /\ IF Short(c)
       THEN stage' = "grow" /\ grown' = First(c)
       ELSE stage' = "apply" /\ UNCHANGED grown
    /\ UNCHANGED <<mem, size, cap, dirty>>

\* while (new_buffer_size < new_data_size) new_buffer_size <<= 1;
Double ==
    /\ stage = "grow" /\ grown < Need(call)
    /\ grown' = (2 * grown) % Word
    /\ UNCHANGED <<mem, size, cap, call, stage, dirty>>

\* realloc, and the memory behind the content is cleared.
Realloc ==
    /\ stage = "grow" /\ grown >= Need(call)
    /\ mem' = Content \o Zeros(grown - size)
    /\ cap' = grown
    /\ stage' = "apply" /\ dirty' = FALSE
    /\ UNCHANGED <<size, call, grown>>

-----------------------------------------------------------------------------
(* What the calls do once there is room.                                   *)

\* The block with data written from index `from` on.
Overwritten(block, from, data) ==
    [i \in DOMAIN block |->
        IF i > from /\ i <= from + Len(data) THEN data[i - from] ELSE block[i]]

Return == call' = string!NoCall /\ stage' = "none" /\ UNCHANGED grown

\* membuf_append_data
Append_ ==
    /\ call.op = "append"
    /\ mem' = Overwritten(mem, size, call.data)
    /\ size' = size + Len(call.data)
    /\ UNCHANGED <<cap, dirty>>

\* A copy that starts at the front repeats the first n bytes.
Repeated(bytes, n) == [i \in 1 .. Len(bytes) |-> bytes[((i - 1) % n) + 1]]

\* What memcpy may make of bytes it moves n places on, which it is not meant for when
\* there are more than n of them.
Moved(bytes, n) == {bytes, Repeated(bytes, n)}

\* membuf_insert: two calls of memcpy, the first of which may overlap.
Insert ==
    /\ call.op = "insert"
    /\ \E moved \in Moved(SubSeq(mem, call.at + 1, size), Len(call.data)) :
          mem' = Overwritten(Overwritten(mem, call.at + Len(call.data), moved), call.at, call.data)
    /\ size' = size + Len(call.data)
    /\ UNCHANGED <<cap, dirty>>

\* membuf_append_format: the text and its zero, behind the content, whose length
\* does not change.
Format ==
    /\ call.op = "format"
    /\ mem' = Overwritten(mem, size, call.data \o <<0>>)
    /\ dirty' = TRUE
    /\ UNCHANGED <<size, cap>>

Left_offByOne(c) == IF c.at + c.n >= size - 1 THEN c.at ELSE size - c.n

\* What membuf_remove leaves.
Left(c) == IF c.at + c.n >= size THEN c.at ELSE size - c.n

\* membuf_remove, and the zero it puts behind what is left.
Remove ==
    /\ call.op = "remove"
    /\ IF call.at >= size
       THEN UNCHANGED <<mem, size, dirty>>
       ELSE /\ size' = Left(call)
            /\ mem' = Overwritten(
                          Overwritten(mem, call.at, SubSeq(mem, call.at + call.n + 1, size)),
                          Left(call), <<0>>)
            /\ dirty' = TRUE
    /\ UNCHANGED cap

\* membuf_clear keeps at most n bytes of the block, when n is more than 1.
Clear ==
    /\ call.op = "clear"
    /\ IF mem = <<>> \/ size = 0
       THEN UNCHANGED <<mem, size, cap, dirty>>
       ELSE /\ cap' = IF call.n > 1 /\ cap > call.n THEN call.n ELSE cap
            /\ mem' = Zeros(cap')
            /\ size' = 0 /\ dirty' = FALSE

\* membuf_trunc: four zero bytes behind the content, and no more.
Trunc ==
    /\ call.op = "trunc"
    /\ IF cap = size + 4
       THEN UNCHANGED <<mem, cap, dirty>>
       ELSE /\ mem' = Content \o Zeros(4)
            /\ cap' = size + 4 /\ dirty' = FALSE
    /\ UNCHANGED size

\* membuf_uninit and membuf_init
Reinit ==
    /\ call.op = "init"
    /\ mem' = Zeros(call.n) /\ cap' = call.n
    /\ size' = 0 /\ dirty' = FALSE

Apply ==
    /\ stage = "apply"
    /\ Append_ \/ Insert \/ Format \/ Remove \/ Clear \/ Trunc \/ Reinit
    /\ Return

Inside == Double \/ Realloc \/ Apply

BufNext == Inside \/ \E c \in Calls : Begin(c)

BufSpec == BufInit /\ [][BufNext]_bufVars

-----------------------------------------------------------------------------
(* Properties.                                                             *)

\* The type invariant.
BufTypeOK ==
    /\ mem \in Seq(Byte) /\ size \in 0 .. MaxSize
    /\ cap \in 0 .. Word - 1 /\ grown \in 0 .. Word - 1
    /\ call \in Calls \cup {string!NoCall}
    /\ stage \in {"none", "grow", "apply"}
    /\ dirty \in BOOLEAN

\* The capacity is that of the block, the content lies in it, and what a call
\* writes fits, though capacities are computed in 32 bits (membuf.cpp:73-90).  So does
\* the zero that membuf_remove writes, except where it removes nothing of a full block:
\* that zero goes behind the block (membuf.cpp:179-180).
CapacityHeld ==
    /\ cap = Len(mem) /\ size <= cap
    /\ stage = "apply" => size + Extra(call) <= cap
    /\ stage = "apply" /\ call.op = "remove" /\ call.at < size =>
            Left(call) < cap \/ (call.n = 0 /\ size = cap)

\* Whatever follows the content in the block is zero, for as long as nothing was
\* removed or formatted: a text put together by appends is a C string of its own
\* accord when there is room (encode.cpp:68).
TailZero == ~ dirty => \A i \in size + 1 .. Len(mem) : mem[i] = 0

\* The doubling of the capacity ends (membuf.cpp:76-79).
GrowEnds == stage = "grow" ~> stage = "apply"

\* What membuf.cpp does otherwise than membuf.h has it.  A formatted text is not
\* counted, so that the next text overwrites it, though it is said to be appended; and an
\* insertion of fewer bytes than follow the place may repeat some of those.
NotAppended == call.op = "format" /\ call' = string!NoCall /\ Content' = Content

Garbled ==
    /\ call.op = "insert" /\ size - call.at > Len(call.data)
    /\ call' = string!NoCall
    /\ Content' = SubSeq(Content, 1, call.at) \o call.data
                    \o Repeated(SubSeq(Content, call.at + 1, size), Len(call.data))

\* A membuf is the sequence of bytes that membuf.h:68-112 documents, through every grow,
\* move, cut and reuse of its block, except for those two calls, which nothing in the
\* repository makes.
ImplementsString == string!Init /\ [][string!Next \/ NotAppended \/ Garbled]_<<Content, call>>
=============================================================================
