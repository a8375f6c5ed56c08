---------------------------- MODULE FrameStream -----------------------------
(***************************************************************************)
(* One direction of a WebSocket connection after the handshake.  The peer  *)
(* writes frames to a byte stream, TCP cuts the stream anywhere, and       *)
(* on_read_websocket turns each read back into messages.  The peer is      *)
(* another endpoint of this library ("own"), which never masks, or any     *)
(* other RFC 6455 endpoint ("foreign"), which masks what it sends to a     *)
(* server.                                                                 *)
(***************************************************************************)
EXTENDS FrameCodec

CONSTANTS
    Traffic,   \* what the peer may send, see Peer below
    Ops,       \* the types of its messages
    Formats,   \* the length formats of a foreign peer: 7, 16 or 64 bits
    PeerMask,  \* whether a foreign peer masks its frames: 1 at a client
    MaxSends,  \* bound: how often the peer sends
    ForeignLens, \* bound: the lengths of a foreign peer's messages, in bytes
    OwnLens,     \* bound: those of a peer of this library
    SplitCounts  \* the numbers of parts an application asks for

\* What a message or a frame may be; lengths are those of an unsigned int.
ASSUME StreamAssumption ==
    /\ Ops \subseteq {TEXT, BIN} /\ Formats \subseteq {7, 16, 64} /\ PeerMask \in 0 .. 1
    /\ MaxSends \in Nat /\ SplitCounts \subseteq Nat /\ ForeignLens \subseteq 0 .. 125
    /\ OwnLens \subseteq Nat /\ \A n \in OwnLens : ((n \div 256) \div 256) \div 256 < 256

VARIABLES
    sent,     \* the messages the peer sent: their type and payload
    pings,    \* the number of pings it sent
    ends,     \* the number of frames it sent that end the connection
    sends,    \* how often it sent
    wire,     \* the bytes between the endpoints
    chunk,    \* what is left of the read that on_read_websocket works on
    hd,       \* the websocket_handle: parse state, protoBuf, mergeBuf, flags
    got,      \* the calls of onData: payload and flags
    pongs,    \* the pongs given to the send path
    closing   \* tw_close_client was called

vars == <<sent, pings, ends, sends, wire, chunk, hd, got, pongs, closing>>

Init ==
    /\ sent = <<>> /\ pings = 0 /\ ends = 0 /\ sends = 0
    /\ wire = <<>> /\ chunk = <<>>
    /\ hd = [state |-> "complete", buf |-> <<>>, merge |-> <<>>,
             protoFlag |-> {}, mergeFlag |-> {}]
    /\ got = <<>> /\ pongs = 0 /\ closing = FALSE

-----------------------------------------------------------------------------
(* The peer.                                                               *)

\* The payload of the peer's next message: n bytes that no message before it has.
\* Those of the first message are 126, 127, 128 and so on.
Payload(n) == [i \in 1 .. n |-> (16 * Len(sent) + 125 + i) % 256]

Put(bytes) ==
    /\ sends < MaxSends /\ sends' = sends + 1
    /\ wire' = wire \o bytes
    /\ UNCHANGED <<chunk, hd, got, pongs, closing>>

\* Into how many parts: DEFAULT_SPLIT_COUNT for 0, and MAX_SPLIT_COUNT at most.
PartCount(count) == IF count = 0 THEN 3 ELSE Smaller(count, 10)

\* The end of each part.
PartEnds(sizes) ==
    LET upTo[k \in 0 .. Len(sizes)] == IF k = 0 THEN 0 ELSE upTo[k - 1] + sizes[k] IN upTo

Total(sizes) == PartEnds(sizes)[Len(sizes)]

LastPart_average(size, drawn) == size \div (Len(drawn) + 1)

LastPart(size, drawn) == size - Total(drawn)

\* split_ont_size_to_multi_parts: every part but the last is drawn from 1 up to
\* the average, until it is not 0; there is no such number if the average is below 2.
Splits(size, count) ==
    LET n == PartCount(count) IN
    {Append(drawn, LastPart(size, drawn)) : drawn \in [1 .. n - 1 -> 1 .. (size \div n) - 1]}

\* What sendWebsocketMsg cuts off for each part.
Parts(bytes, split) ==
    LET e == PartEnds(split) IN [k \in DOMAIN split |-> SubSeq(bytes, e[k - 1] + 1, e[k])]

\* A message in one piece, or in parts that are written one after the other.
OwnMessage(n, op) ==
    /\ LET bytes == Frames(Payload(n), op) IN
       \/ Put(bytes)
       \/ \E count \in SplitCounts : \E split \in Splits(Len(bytes), count) :
             Put(FlattenSeq(Parts(bytes, split)))
    /\ sent' = Append(sent, [op |-> op, data |-> Payload(n)])
    /\ UNCHANGED <<pings, ends>>

\* A message too short for its parts: the draw never ends, or divides by 0.  The
\* sender's thread is lost before it takes an async.
SplitHangs ==
    /\ sends < MaxSends /\ sends' = MaxSends
    /\ \E n \in OwnLens, op \in Ops, count \in SplitCounts :
          Splits(Len(Frames(Payload(n), op)), count) = {}
    /\ UNCHANGED <<sent, pings, ends, wire, chunk, hd, got, pongs, closing>>

\* One masked frame of any length, as ProtolParseTest.cpp makes them.
OwnFrame(n, op) ==
    /\ Put(FrameWithoutFragment(Payload(n), op, 1, 1))
    /\ sent' = Append(sent, [op |-> op, data |-> Payload(n)])
    /\ UNCHANGED <<pings, ends>>

\* A frame of another implementation, in any of the three length formats; a
\* short payload stands for the long one the format is meant for.
ForeignFrame(data, op, fin, mask, format) ==
    LET n == Len(data)
        length == IF format = 7 THEN <<128 * mask + n>>
                  ELSE IF format = 16 THEN <<128 * mask + 126, 0, n>>
                  ELSE <<128 * mask + 127, 0, 0, 0, 0, 0, 0, 0, n>>
    IN  <<128 * fin + op>> \o length \o (IF mask = 1 THEN Mask \o Masked(data, Mask) ELSE data)

\* A message in one frame, or in two with or without a ping between them.
ForeignMessage(n, op, cut, ping, mask, format) ==
    LET data == Payload(n) IN
    /\ IF cut = 0
       THEN /\ ~ ping
            /\ Put(ForeignFrame(data, op, 1, mask, format))
       ELSE Put(ForeignFrame(SubSeq(data, 1, cut), op, 0, mask, format)
                \o (IF ping THEN ForeignFrame(<<7>>, PING, 1, mask, 7) ELSE <<>>)
                \o ForeignFrame(SubSeq(data, cut + 1, n), CONTINUE, 1, mask, format))
    /\ sent' = Append(sent, [op |-> op, data |-> data])
    /\ pings' = IF ping THEN pings + 1 ELSE pings
    /\ UNCHANGED ends

PingPayloads == IF "empty ping" \in Traffic THEN {<<>>, <<7>>} ELSE {<<7>>}

\* The ping of the heartbeat timer of CWSClient, and pings of other peers.
PingFrames ==
    (IF "own ping" \in Traffic THEN {ControlFrame(PING)} ELSE {}) \cup
    (IF "foreign ping" \in Traffic
     THEN {ForeignFrame(data, PING, 1, PeerMask, 7) : data \in PingPayloads} ELSE {})

Ping ==
    /\ \E frame \in PingFrames : Put(frame)
    /\ pings' = pings + 1
    /\ UNCHANGED <<sent, ends>>

ForeignPong ==
    /\ Put(ForeignFrame(<<5>>, PONG, 1, PeerMask, 7))
    /\ UNCHANGED <<sent, pings, ends>>

End(bytes) ==
    /\ Put(bytes)
    /\ ends' = ends + 1
    /\ UNCHANGED <<sent, pings>>

\* Any payload would do: the code does not look at it.
ForeignClose == End(ForeignFrame(<<3>>, CLOSE, 1, PeerMask, 7))

\* A length of 2^32 or more, which try_parse_protocol rejects.
HugeFrame == End(<<128 + BIN, 127, 0, 0, 0, 1, 0, 0, 0, 0>>)

\* The empty message of another implementation is a message of length 0.
Peer ==
    \/ /\ "own message" \in Traffic
       /\ \/ \E n \in OwnLens, op \in Ops : OwnMessage(n, op) \/ OwnFrame(n, op)
          \/ SplitHangs
    \/ /\ "foreign message" \in Traffic
       /\ \E n \in ForeignLens, op \in Ops, format \in Formats :
          \E cut \in (0 .. n - 1) \cup {0}, ping \in BOOLEAN :
             ForeignMessage(n, op, cut, ping, PeerMask, format)
    \/ Ping
    \/ "foreign pong" \in Traffic /\ ForeignPong
    \/ "close" \in Traffic /\ ForeignClose
    \/ "huge" \in Traffic /\ HugeFrame

-----------------------------------------------------------------------------
(* The reader.                                                             *)

\* on_read: TCP delivers the next n bytes.  uv_close stops the reading.
Read(n) ==
    /\ chunk = <<>> /\ ~ closing
    /\ chunk' = SubSeq(wire, 1, n)
    /\ wire' = SubSeq(wire, n + 1, Len(wire))
    /\ UNCHANGED <<sent, pings, ends, sends, hd, got, pongs, closing>>

OnData_handshake(data, flag) == got' = Append(got, [data |-> data, flag |-> flag \cup {"websocket"}])

\* The application's onData; the bit FLAG_WEBSOCKET of the flags is left out.
OnData(data, flag) == got' = Append(got, [data |-> data, flag |-> flag])

DataFrame_mergeKept(r, keep, flag) ==
    IF r.fin = 1
    THEN /\ OnData(r.buf, hd.protoFlag \cup {flag})
         /\ hd' = [keep EXCEPT !.protoFlag = @ \cup {flag}]
    ELSE /\ hd' = [keep EXCEPT !.protoFlag = @ \cup {flag},
                               !.mergeFlag = @ \cup {flag}, !.merge = @ \o r.buf]
         /\ UNCHANGED got

\* mergeBuf is cleared by a first fragment only; flags are only ever set.
DataFrame(r, keep, flag) ==
    IF r.fin = 1
    THEN /\ OnData(r.buf, hd.protoFlag \cup {flag})
         /\ hd' = [keep EXCEPT !.protoFlag = @ \cup {flag}]
    ELSE /\ hd' = [keep EXCEPT !.protoFlag = @ \cup {flag},
                               !.mergeFlag = @ \cup {flag}, !.merge = r.buf]
         /\ UNCHANGED got

ContinuationFrame(r, keep) ==
    /\ hd' = [keep EXCEPT !.merge = @ \o r.buf]
    /\ IF r.fin = 1 THEN OnData(hd.merge \o r.buf, hd.mergeFlag) ELSE UNCHANGED got

\* The switch on the type of a complete frame; keep is the handle after the parse.
Dispatch(r, keep) ==
    \/ r.op = CONTINUE /\ ContinuationFrame(r, keep) /\ UNCHANGED <<pongs, closing>>
    \/ r.op = TEXT /\ DataFrame(r, keep, "text") /\ UNCHANGED <<pongs, closing>>
    \/ r.op = BIN /\ DataFrame(r, keep, "bin") /\ UNCHANGED <<pongs, closing>>
    \/ r.op = CLOSE /\ closing' = TRUE /\ hd' = keep /\ UNCHANGED <<got, pongs>>
    \/ r.op = PING /\ pongs' = pongs + 1 /\ hd' = keep /\ UNCHANGED <<got, closing>>
    \/ r.op \in (0 .. 15) \ {CONTINUE, TEXT, BIN, CLOSE, PING}
       /\ hd' = keep /\ UNCHANGED <<got, pongs, closing>>

Remaining_all(r) == <<>>
Remaining(r) == SubSeq(chunk, r.used + 1, Len(chunk))

InHand_header == Len(chunk) >= 2
InHand == chunk # <<>>

\* One turn of the loop of on_read_websocket.  A frame that cannot be parsed
\* closes the connection, but the loop goes on.
Parse ==
    /\ InHand
    /\ \E r \in {TryParse(hd, chunk)} :
       LET keep == [hd EXCEPT !.state = r.state, !.buf = r.buf]
       IN  /\ chunk' = Remaining(r)
           /\ \/ r.state = "complete" /\ Dispatch(r, keep)
              \/ r.state = "failed" /\ closing' = TRUE /\ hd' = keep /\ UNCHANGED <<got, pongs>>
              \/ r.state = "incomplete" /\ hd' = keep /\ UNCHANGED <<got, pongs, closing>>
    /\ UNCHANGED <<sent, pings, ends, sends, wire>>

Next == Peer \/ Parse \/ \E n \in 1 .. Len(wire) : Read(n)

Spec == Init /\ [][Next]_vars

\* The loop thread goes on with a read it has begun.
FairSpec == Spec /\ WF_vars(Parse)

-----------------------------------------------------------------------------
(* Properties.                                                             *)

Flags == {"text", "bin"}

\* The type invariant.
TypeOK ==
    /\ sent \in Seq([op : {TEXT, BIN}, data : Seq(Byte)])
    /\ pings \in Nat /\ ends \in Nat /\ pongs \in Nat /\ sends \in 0 .. MaxSends
    /\ wire \in Seq(Byte) /\ chunk \in Seq(Byte)
    /\ hd \in [state : {"complete", "failed", "incomplete"}, buf : Seq(Byte),
               merge : Seq(Byte), protoFlag : SUBSET Flags, mergeFlag : SUBSET Flags]
    /\ got \in Seq([data : Seq(Byte), flag : SUBSET Flags])
    /\ closing \in BOOLEAN

FlagOf(op) == IF op = TEXT THEN "text" ELSE "bin"

PayloadsGot  == [k \in DOMAIN got  |-> got[k].data]
PayloadsSent == [k \in DOMAIN sent |-> sent[k].data]

\* However TCP cuts the stream, onData gets exactly the payloads that were sent,
\* byte for byte, each once and in order (wsutil.cpp:155-263).
Intact == IsPrefix(PayloadsGot, PayloadsSent)

\* Once every byte was read nothing is held back: each message was handed over
\* and each ping was answered, and the parser waits for a new frame; and a frame
\* that ends the connection did close it (CWSServer.cpp:39-121).
Drained ==
    wire = <<>> /\ chunk = <<>> =>
        IF ends > 0 THEN closing
        ELSE Len(got) = Len(sent) /\ pongs = pings /\ hd.state = "complete"

\* Only a close frame, or one with an impossible length, closes the connection,
\* however the stream is cut (CWSServer.cpp:95-99, 113-114).
ClosedOnRequest == closing => ends > 0

\* on_read_websocket returns from every read.
ReadReturns == chunk # <<>> ~> chunk = <<>>

\* It returns from every read that it does not find a frame to reject in.
ReadEnds == chunk # <<>> ~> chunk = <<>> \/ hd.state = "failed"

\* onData is told the type of each message, also of one that came in fragments: "whether
\* the data in the buffer are text or binary" (membuf.h:31-32).  The flags of a
\* connection are never cleared (CWSServer.cpp:64, 79), so that this is true of the
\* messages of a peer that uses one type only, and false after its first change.
TypeFlagged == \A k \in DOMAIN got : got[k].flag = {FlagOf(sent[k].op)}
=============================================================================
