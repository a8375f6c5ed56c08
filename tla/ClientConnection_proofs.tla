----------------------- MODULE ClientConnection_proofs -----------------------
(***************************************************************************)
(* Proofs about ClientConnection: the reconnect timer is off while the     *)
(* client is connected, and a client takes itself to be working only on    *)
(* the strength of the handshake of the connection it has.                 *)
(***************************************************************************)
EXTENDS ClientConnection, TLAPS

LEMMA Bounds == MaxAttempts \in Nat /\ MaxAttempts >= 1 /\ MaxSends \in Nat
  BY ClientAssumption

-----------------------------------------------------------------------------
(* Types.                                                                  *)

\* The parts of TypeOK that have to do with the link, and with the pool.
LinkTypes ==
    /\ tcp \in {"connecting", "broken", "failed", "open", "closing", "closed", "lost"}
    /\ attempt \in Attempts
    /\ timer \in BOOLEAN /\ reg \in BOOLEAN
    /\ greeting \in BOOLEAN /\ known \in BOOLEAN
    /\ status \in {"HANDSHAKING", "WORKING"}
    /\ server \in {"none", "waiting", "websocket", "refused", "closed", "ended", "left"}
    /\ reply \in {"none", "whole", "keyless", "split", "rest", "unasked", "lost", "missed",
                 "garbled"}

PoolTypes ==
    /\ sending \in [Apps -> Attempts \cup {Idle}] /\ sends \in 0 .. MaxSends
    /\ queued \subseteq Data /\ discarded \subseteq Data
    /\ wire \in [{"m_peer"} -> Seq(Data)]
    /\ reached \in [Attempts -> Seq({"request", "message", "ping"})]

LEMMA TypesAgree == TypeOK <=> LinkTypes /\ PoolTypes
  BY Zenon DEF TypeOK, LinkTypes, PoolTypes

\* What of the pool's state a send changes, whether it is taken or not.
LEMMA QueueTypes ==
    ASSUME PoolTypes, sends < MaxSends, NEW what \in {"request", "message", "ping"},
           NEW to \in Attempts, Queue(what, to)
    PROVE  /\ sends' \in 0 .. MaxSends /\ queued' \subseteq Data
           /\ UNCHANGED <<wire, discarded>>
<1> DEFINE d == [what |-> what, to |-> to, seq |-> sends + 1]
<1>1. d \in Data
  BY Bounds DEF PoolTypes, Data
<1>2. CASE NoneFree
  BY <1>2, Zenon DEF NoneFree, chanVars, PoolTypes
<1>3. CASE channel!Accept(d) /\ sends' = sends + 1
  <2>1. queued' = queued \cup {d} /\ UNCHANGED <<wire, discarded>>
    BY <1>3, Zenon DEF channel!Accept
  <2>2. sends' \in 0 .. MaxSends
    BY <1>3, Bounds DEF PoolTypes
  <2> QED
    BY <1>1, <2>1, <2>2 DEF PoolTypes
<1> QED
  BY <1>2, <1>3, Zenon DEF Queue, Taken

\* Room leaves room.
LEMMA RoomIsRoom == ASSUME LinkTypes, PoolTypes, Room PROVE sends < MaxSends
  BY Bounds DEF LinkTypes, PoolTypes, Room, Attempts

LEMMA DeliverTypes ==
    ASSUME LinkTypes, PoolTypes, NEW d \in queued, Deliver(d)
    PROVE  PoolTypes'
<1>1. d \in Data /\ d.what \in {"request", "message", "ping"} /\ attempt \in Attempts
  BY DEF PoolTypes, LinkTypes, Data
<1>2. CASE channel!Deliver(d) /\ reached' = [reached EXCEPT ![attempt] = Append(@, d.what)]
  <2>1. /\ queued' = queued \ {d} /\ discarded' = discarded
        /\ wire' = [wire EXCEPT !["m_peer"] = Append(@, d)]
    BY <1>2, Zenon DEF channel!Deliver
  <2>2. wire' \in [{"m_peer"} -> Seq(Data)]
    BY <1>1, <2>1 DEF PoolTypes
  <2>3. reached' \in [Attempts -> Seq({"request", "message", "ping"})]
    BY <1>1, <1>2 DEF PoolTypes
  <2> QED
    BY <2>1, <2>2, <2>3 DEF Deliver, PoolTypes
<1>3. CASE channel!Discard(d) /\ UNCHANGED reached
  <2>1. queued' = queued \ {d} /\ discarded' = discarded \cup {d} /\ UNCHANGED wire
    BY <1>3, Zenon DEF channel!Discard
  <2> QED
    BY <1>1, <1>3, <2>1 DEF Deliver, PoolTypes
<1> QED
  BY <1>2, <1>3, Zenon DEF Deliver

\* The steps that leave the pool alone.
Elsewhere ==
    \/ ReconnectTimer \/ TimerBreaks \/ Connected \/ ConnectFails \/ Closed
    \/ ReadResponse \/ ReadRest \/ ReadCloseFrame \/ ReadEnd
    \/ ServerReads \/ ServerEnds

LEMMA ElsewherePool ==
    ASSUME Elsewhere
    PROVE  UNCHANGED <<sending, sends, queued, wire, discarded, reached>>
  BY Zenon DEF Elsewhere, ReconnectTimer, TimerBreaks, Connected, ConnectFails, Closed, ReadResponse,
               ReadRest, ReadCloseFrame, ReadEnd, ServerReads, ServerEnds, chanVars

LEMMA ElsewhereTypes == ASSUME LinkTypes, Elsewhere PROVE LinkTypes'
<1> USE Bounds, ClientAssumption DEF LinkTypes, Attempts
<1>1. CASE ReconnectTimer \/ TimerBreaks
  BY <1>1 DEF ReconnectTimer, TimerBreaks
<1>2. CASE Connected \/ ConnectFails
  BY <1>2, ZenonT(60) DEF Connected, ConnectFails
<1>3. CASE Closed
  BY <1>3 DEF Closed
<1>4. CASE ReadResponse
  BY <1>4, ZenonT(60) DEF ReadResponse, HandshakeRead
<1>4a. CASE ReadRest
  BY <1>4a DEF ReadRest, HandshakeRead
<1>5. CASE ReadCloseFrame \/ ReadEnd
  BY <1>5 DEF ReadCloseFrame, ReadEnd, TimerAfterEnd, HandshakeRead
<1>6. CASE ServerReads \/ ServerEnds
  BY <1>6 DEF ServerReads, ServerEnds
<1> QED
  BY <1>1, <1>2, <1>3, <1>4, <1>4a, <1>5, <1>6, Zenon DEF Elsewhere

LEMMA LinkTypesKept == ASSUME LinkTypes, UNCHANGED <<linkVars, known>> PROVE LinkTypes'
<1>1. UNCHANGED <<tcp, attempt, timer, status, reg, greeting, server, reply>>
  BY Zenon DEF linkVars
<1> QED
  BY <1>1 DEF LinkTypes

LEMMA TypeStep == LinkTypes /\ PoolTypes /\ [Next]_vars => LinkTypes' /\ PoolTypes'
<1> SUFFICES ASSUME LinkTypes, PoolTypes, [Next]_vars PROVE LinkTypes' /\ PoolTypes'
  OBVIOUS
<1>1. ASSUME Elsewhere PROVE LinkTypes' /\ PoolTypes'
  <2>1. PoolTypes'
    BY <1>1, ElsewherePool, Zenon DEF PoolTypes
  <2> QED
    BY <1>1, <2>1, ElsewhereTypes
<1>2. CASE Greet
  <2>1. attempt \in Attempts /\ sends < MaxSends /\ Queue("request", attempt)
    BY <1>2, Zenon DEF Greet, Request, Queue, LinkTypes
  <2>2. sends' \in 0 .. MaxSends /\ queued' \subseteq Data /\ UNCHANGED <<wire, discarded>>
    BY <2>1, QueueTypes
  <2>3. LinkTypes'
    BY <1>2, ZenonT(60) DEF Greet, Request, LinkTypes
  <2> QED
    BY <1>2, <2>2, <2>3, Zenon DEF Greet, Request, PoolTypes
<1>3. CASE HeartBeat
  <2>1. attempt \in Attempts /\ sends < MaxSends
    BY <1>3, RoomIsRoom, Zenon DEF HeartBeat, LinkTypes
  <2>2. sends' \in 0 .. MaxSends /\ queued' \subseteq Data /\ UNCHANGED <<wire, discarded>>
    BY <1>3, <2>1, QueueTypes DEF HeartBeat
  <2> QED
    BY <1>3, <2>2, LinkTypesKept, Zenon DEF HeartBeat, PoolTypes
<1>4. ASSUME NEW t \in Apps, AppCheck(t) PROVE LinkTypes' /\ PoolTypes'
  <2>1. sending' \in [Apps -> Attempts \cup {Idle}]
    BY <1>4 DEF AppCheck, LinkTypes, PoolTypes
  <2> QED
    BY <1>4, <2>1, LinkTypesKept, Zenon DEF AppCheck, PoolTypes, chanVars
<1>5. ASSUME NEW t \in Apps, AppStore(t) PROVE LinkTypes' /\ PoolTypes'
  <2>1. sending[t] \in Attempts /\ sends < MaxSends
    BY <1>5, RoomIsRoom DEF AppStore, PoolTypes
  <2>2. sends' \in 0 .. MaxSends /\ queued' \subseteq Data /\ UNCHANGED <<wire, discarded>>
    BY <1>5, <2>1, QueueTypes DEF AppStore
  <2>3. sending' \in [Apps -> Attempts \cup {Idle}]
    BY <1>5 DEF AppStore, PoolTypes
  <2>4. LinkTypes'
    BY <1>5, LinkTypesKept, Zenon DEF AppStore
  <2> QED
    BY <1>5, <2>2, <2>3, <2>4, Zenon DEF AppStore, PoolTypes
<1>6. ASSUME NEW d \in queued, Deliver(d) PROVE LinkTypes' /\ PoolTypes'
  <2>1. LinkTypes'
    BY <1>6, LinkTypesKept, Zenon DEF Deliver
  <2> QED
    BY <1>6, <2>1, DeliverTypes
<1>7. CASE UNCHANGED vars
  <2>1. LinkTypes'
    BY <1>7, LinkTypesKept, Zenon DEF vars
  <2> QED
    BY <1>7, <2>1, Zenon DEF vars, chanVars, PoolTypes
<1> QED
  BY <1>1, <1>2, <1>3, <1>4, <1>5, <1>6, <1>7, Zenon DEF Next, Loop, Elsewhere
-----------------------------------------------------------------------------
(* The timer, and the handshake of the connection at hand.                 *)

\* The first thing the connection carried to the server is the request.
Agreed == reached[attempt] # <<>> /\ Head(reached[attempt]) = "request"

\* Nothing is written on an attempt that has not begun, or has not got as far as
\* sending the handshake.
Untouched ==
    /\ greeting => tcp = "open"
    /\ \A a \in Attempts : a > attempt => reached[a] = <<>>
    /\ tcp \in {"connecting", "failed"} \/ greeting => reached[attempt] = <<>>

\* There is no response yet.
Unanswered == reply \in {"none", "unasked"}

\* A response is one to the request of this connection, is not there before the
\* server has read that, and nothing else makes the server speak; a server that
\* refuses sends no other.
Answers ==
    /\ tcp \in {"connecting", "failed"} \/ greeting => reply = "none"
    /\ tcp = "open" /\ (~ Unanswered \/ server \in {"websocket", "closed"}) => Agreed
    /\ tcp = "open" /\ server = "waiting" => Unanswered
    /\ tcp = "open" /\ server \in {"websocket", "closed"} => reply # "unasked"
    /\ tcp = "open" /\ server = "refused" => reply \in {"keyless", "missed"}

Working == tcp = "open" /\ ~ greeting /\ status = "WORKING"

Settled ==
    Working => /\ reply \in {"none", "rest", "garbled"} /\ Agreed
               /\ server \notin {"waiting", "refused"}

IInv == LinkTypes /\ PoolTypes /\ NoTimerWhileOpen /\ Untouched /\ Answers /\ Settled

LEMMA InitHolds == Init => IInv
<1> SUFFICES ASSUME Init PROVE IInv
  OBVIOUS
<1>1. queued = {} /\ discarded = {} /\ wire = [p \in {"m_peer"} |-> <<>>]
  BY Zenon DEF Init, channel!Init
<1>2. LinkTypes
  <2>1. attempt \in Attempts
    BY Bounds DEF Init, Attempts
  <2>2. timer \in BOOLEAN
    BY ClientAssumption, Zenon DEF Init
  <2> QED
    BY <2>1, <2>2, Zenon DEF Init, LinkTypes
<1>3. PoolTypes
  <2>1. sending \in [Apps -> Attempts \cup {Idle}]
    BY DEF Init
  <2>2. wire \in [{"m_peer"} -> Seq(Data)]
    BY <1>1
  <2>3. reached \in [Attempts -> Seq({"request", "message", "ping"})]
    BY DEF Init
  <2>4. sends \in 0 .. MaxSends
    BY Bounds DEF Init
  <2> QED
    BY <1>1, <2>1, <2>2, <2>3, <2>4, Zenon DEF PoolTypes
<1>4. NoTimerWhileOpen /\ Untouched /\ Answers /\ Settled
  BY <1>2 DEF Init, LinkTypes, NoTimerWhileOpen, Untouched, Answers, Unanswered, Settled, Working
<1> QED
  BY <1>2, <1>3, <1>4, Zenon DEF IInv

\* A delivery appends to what the connection carried, and only to that.
LEMMA DeliverReaches ==
    ASSUME LinkTypes, PoolTypes, NEW d \in queued, Deliver(d)
    PROVE  /\ UNCHANGED linkVars
           /\ ~ greeting
           /\ \A a \in Attempts : a # attempt => reached'[a] = reached[a]
           /\ tcp # "open" => reached'[attempt] = reached[attempt]
           /\ Agreed => Agreed'
<1>1. attempt \in Attempts /\ d.what \in {"request", "message", "ping"}
  BY DEF PoolTypes, LinkTypes, Data
<1>2. UNCHANGED linkVars /\ ~ greeting /\ attempt' = attempt
  BY Zenon DEF Deliver, linkVars
<1>3. CASE tcp = "open" /\ reached' = [reached EXCEPT ![attempt] = Append(@, d.what)]
  <2>1. /\ reached'[attempt] = Append(reached[attempt], d.what)
        /\ \A a \in Attempts : a # attempt => reached'[a] = reached[a]
    BY <1>1, <1>3, Zenon DEF PoolTypes
  <2>2. reached[attempt] \in Seq({"request", "message", "ping"})
    BY <1>1 DEF PoolTypes
  <2>3. Agreed => Agreed'
    BY <1>1, <1>2, <2>1, <2>2 DEF Agreed
  <2> QED
    BY <1>2, <1>3, <2>1, <2>3, Zenon
<1>4. CASE UNCHANGED reached
  BY <1>2, <1>4, Zenon DEF Agreed
<1> QED
  BY <1>3, <1>4, Zenon DEF Deliver

\* One step of the link preserves the four parts about it.
Link == NoTimerWhileOpen /\ Untouched /\ Answers /\ Settled

LEMMA ElsewhereLink == ASSUME LinkTypes, Link, Elsewhere PROVE Link'
<1>0. UNCHANGED reached
  BY ElsewherePool, Zenon
<1> USE <1>0, Bounds DEF Link, NoTimerWhileOpen, Untouched, Answers, Unanswered, Settled, Working, Agreed
<1>1. CASE ReconnectTimer
  <2>1. /\ attempt' = attempt + 1 /\ attempt' \in Attempts
        /\ tcp' = "connecting" /\ reply' = "none"
        /\ ~ greeting' /\ \A a \in Attempts : a > attempt => reached[a] = <<>>
    BY <1>1 DEF ReconnectTimer, LinkTypes, Attempts
  <2>2. \A a \in Attempts : a > attempt + 1 => a > attempt
    BY DEF LinkTypes, Attempts
  <2>3. attempt' > attempt
    BY <2>1 DEF LinkTypes, Attempts
  <2> QED
    BY <2>1, <2>2, <2>3
<1>2. CASE Connected
  BY <1>2, Zenon DEF Connected
<1>2a. CASE TimerBreaks
  BY <1>2a DEF TimerBreaks
<1>3. CASE ConnectFails
  BY <1>3, Zenon DEF ConnectFails
<1>4. CASE Closed
  BY <1>4, Zenon DEF Closed
<1>5. CASE ReadResponse
  BY <1>5 DEF ReadResponse, Reading, HandshakeRead, LinkTypes
<1>6. CASE ReadCloseFrame
  BY <1>6 DEF ReadCloseFrame, Reading, Consumed, HandshakeRead, LinkTypes
<1>6a. CASE ReadRest
  BY <1>6a DEF ReadRest, Reading, HandshakeRead, LinkTypes
<1>7. CASE ReadEnd
  BY <1>7 DEF ReadEnd, Reading
<1>8. CASE ServerReads
  BY <1>8 DEF ServerReads
<1>9. CASE ServerEnds
  BY <1>9 DEF ServerEnds
<1> QED
  BY <1>1, <1>2, <1>2a, <1>3, <1>4, <1>5, <1>6, <1>7, <1>8, <1>9, <1>6a, Zenon DEF Elsewhere

LEMMA LinkKept == ASSUME Link, UNCHANGED <<linkVars, reached>> PROVE Link'
  BY Zenon DEF Link, NoTimerWhileOpen, Untouched, Answers, Unanswered, Settled, Working, Agreed, linkVars

LEMMA Inductive == IInv /\ [Next]_vars => IInv'
<1> SUFFICES ASSUME IInv, [Next]_vars PROVE IInv'
  OBVIOUS
<1>1. LinkTypes /\ PoolTypes /\ Link
  BY Zenon DEF IInv, Link
<1>2. LinkTypes' /\ PoolTypes'
  BY <1>1, TypeStep, Zenon
<1>3. Link'
  <2>1. CASE Elsewhere
    BY <1>1, <2>1, ElsewhereLink, Zenon
  <2>2. CASE Greet
    <3>1. /\ UNCHANGED <<tcp, attempt, timer, server, reached>>
          /\ status' = "HANDSHAKING" /\ ~ greeting'
          /\ reply' \in {reply, "unasked"} /\ greeting
      BY <2>2 DEF Greet, Request
    <3> QED
      BY <1>1, <3>1 DEF Link, NoTimerWhileOpen, Untouched, Answers, Unanswered, Settled, Working, Agreed
  <2>3. CASE HeartBeat \/ \E t \in Apps : AppCheck(t) \/ AppStore(t)
    <3>1. UNCHANGED <<linkVars, reached>>
      BY <2>3, Zenon DEF HeartBeat, AppCheck, AppStore
    <3> QED
      BY <1>1, <3>1, LinkKept, Zenon
  <2>4. ASSUME NEW d \in queued, Deliver(d) PROVE Link'
    <3>1. /\ UNCHANGED <<tcp, attempt, timer, status, greeting, server, reply>>
          /\ ~ greeting
          /\ \A a \in Attempts : a # attempt => reached'[a] = reached[a]
          /\ tcp # "open" => reached'[attempt] = reached[attempt]
          /\ Agreed => Agreed'
      BY <1>1, <2>4, DeliverReaches, Zenon DEF linkVars
    <3>2. \A a \in Attempts : a > attempt => a # attempt
      BY <1>1 DEF LinkTypes, Attempts
    <3>3. NoTimerWhileOpen' /\ Answers' /\ Settled'
      BY <1>1, <3>1, Zenon DEF Link, NoTimerWhileOpen, Answers, Unanswered, Settled, Working
    <3>4. Untouched'
      BY <1>1, <3>1, <3>2 DEF Link, Untouched
    <3> QED
      BY <3>3, <3>4, Zenon DEF Link
  <2>5. CASE UNCHANGED vars
    BY <1>1, <2>5, LinkKept, Zenon DEF vars
  <2> QED
    BY <2>1, <2>2, <2>3, <2>4, <2>5, Zenon DEF Next, Loop, Elsewhere
<1> QED
  BY <1>2, <1>3, Zenon DEF IInv, Link

-----------------------------------------------------------------------------
(* The theorems.                                                           *)

THEOREM Invariance == Spec => []IInv
<1>1. Init => IInv
  BY InitHolds
<1>2. IInv /\ [Next]_vars => IInv'
  BY Inductive
<1> QED
  BY <1>1, <1>2, PTL DEF Spec

\* The type invariant.
THEOREM ClientTypes == Spec => []TypeOK
<1>1. IInv => TypeOK
  BY TypesAgree, Zenon DEF IInv
<1> QED
  BY <1>1, Invariance, PTL

\* Through any number of lost connections and retries, the timer that would
\* initialise m_uv_tcp_t again is off while the client is connected
\* (CWSClient.cpp:249-252, 196-198).
THEOREM TimerOffWhileOpen == Spec => []NoTimerWhileOpen
<1>1. IInv => NoTimerWhileOpen
  BY Zenon DEF IInv
<1> QED
  BY <1>1, Invariance, PTL

\* A client that takes itself to be working has the server's answer to the
\* request of the connection it has now (CWSClient.cpp:170-175, 269).
THEOREM WorkingAfterHandshake == Spec => []WorkingIsAgreed
<1>1. IInv => WorkingIsAgreed
  BY Zenon DEF IInv, Settled, Working, Agreed, WorkingIsAgreed
<1> QED
  BY <1>1, Invariance, PTL
=============================================================================
