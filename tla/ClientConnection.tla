-------------------------- MODULE ClientConnection --------------------------
(***************************************************************************)
(* The connection of CWSClient: connecting, the handshake, losing the      *)
(* connection, and the timer that connects again.  There is one uv_tcp_t,  *)
(* inside the client object, so every connection has the same address; an  *)
(* attempt is one use of it.  What the client sends goes through the pool  *)
(* of asyncs, here the abstract channel of SendChannel.  The server is     *)
(* CWSServer as a client sees it, or one that refuses the handshake.       *)
(*                                                                         *)
(* A callback of the loop thread is one step, but for the part of          *)
(* onConnectInternal in which the pointer is registered and the handshake  *)
(* not yet given to the pool.                                              *)
(***************************************************************************)
EXTENDS Integers, Sequences, FiniteSets

CONSTANTS
    EnableReconnect,  \* m_enableReconnect
    EnableHeartBeat,  \* m_enableHeartBeat
    Apps,             \* application threads that send to m_peer
    Idle,             \* a thread that is not sending
    Slots,            \* the size of the pool of asyncs
    Faults,           \* what may go wrong: a connect is refused, the server goes away
                      \* (eof) or sends a close frame (close), its response is cut in two
                      \* (split), finds no async (busy) or has no accept key (keyless)
    MaxAttempts,      \* bound: calls of connect
    MaxSends          \* bound: data given to the pool

ASSUME ClientAssumption ==
    /\ EnableReconnect \in BOOLEAN /\ EnableHeartBeat \in BOOLEAN
    /\ Idle \notin Nat
    /\ Slots \in Nat /\ MaxAttempts \in Nat \ {0} /\ MaxSends \in Nat

Attempts == 1 .. MaxAttempts

Data == [what : {"request", "message", "ping"}, to : Attempts, seq : 1 .. MaxSends]

VARIABLES
    tcp,      \* m_uv_tcp_t; broken once it was initialised under a connect, which is
              \* undefined, and lost when the loop never comes back from on_read
    attempt,  \* the number of calls of connect
    timer,    \* m_reconnect_uv_timer_t is active
    status,   \* m_WSClientStatus
    reg,      \* CChecker knows the pointer
    greeting, \* onConnectInternal has not yet sent the handshake
    server,   \* the server's end: waiting for the request, websocket, refused (it answered
              \* without an accept key), closed (it sent a close frame) or ended; left once
              \* the client has acted on such a frame
    reply,    \* the response on its way: none, whole, keyless, split in two parts, or the
              \* rest of those; unasked when the request found no async, and lost when the
              \* response found none; missed when what was read of it did not end the
              \* handshake; garbled when the rest was read as frames, and the parser may
              \* be in the middle of one
    sending,  \* per thread, the attempt whose connection passed the check
    sends,    \* the number of data given to the pool
    queued, wire, discarded,  \* the channel; its one connection is each attempt in turn
    known,    \* onConnect has told the application of m_peer, in this attempt or before
    reached   \* per attempt, what was handed to uv_write on its connection

channel == INSTANCE SendChannel WITH Peers <- {"m_peer"}, PeerOf <- LAMBDA d : "m_peer"

chanVars == <<queued, wire, discarded>>
linkVars == <<tcp, attempt, timer, status, reg, greeting, server, reply>>
vars == <<linkVars, known, sending, sends, chanVars, reached>>

-----------------------------------------------------------------------------
(* connect and the reconnect timer.                                        *)

\* startup arms the timer and connects.  The status is not initialised, and not
\* read before onConnectInternal has set it.
Init ==
    /\ tcp = "connecting" /\ attempt = 1
    /\ timer = EnableReconnect
    /\ status \in {"HANDSHAKING", "WORKING"}
    /\ reg = FALSE /\ greeting = FALSE
    /\ server = "none" /\ reply = "none"
    /\ sending = [t \in Apps |-> Idle] /\ sends = 0
    /\ known = FALSE
    /\ channel!Init
    /\ reached = [a \in Attempts |-> <<>>]

\* reconnect_timer_callback.  uv_tcp_init makes a new handle of m_uv_tcp_t, whatever
\* it was before.  A handle that is closing is closed before the loop runs timers.
ReconnectTimer ==
    /\ timer /\ ~ greeting
    /\ tcp \in {"failed", "open", "closed"}
    /\ attempt < MaxAttempts /\ attempt' = attempt + 1
    /\ tcp' = "connecting"
    /\ server' = "none" /\ reply' = "none"
    /\ UNCHANGED <<timer, status, reg, greeting, sending, sends, chanVars, reached, known>>

\* A connect may take longer than the timer: then the handle it is under way on is
\* made anew, with the request of the first still in libuv.
TimerBreaks ==
    /\ timer /\ tcp = "connecting" /\ attempt < MaxAttempts
    /\ tcp' = "broken"
    /\ UNCHANGED <<attempt, timer, status, reg, greeting, server, reply,
                   sending, sends, chanVars, reached, known>>

\* onConnectInternal with a status other than 0.
ConnectFails ==
    /\ "refused" \in Faults
    /\ tcp = "connecting"
    /\ tcp' = "failed"
    /\ UNCHANGED <<attempt, timer, status, reg, greeting, server, reply,
                   sending, sends, chanVars, reached, known>>

Connected_timerKept ==
    /\ tcp = "connecting"
    /\ tcp' = "open" /\ server' = "waiting"
    /\ reg' = TRUE /\ greeting' = TRUE
    /\ UNCHANGED <<attempt, timer, status, reply, sending, sends, chanVars, reached, known>>

Connected_unregistered ==
    /\ tcp = "connecting"
    /\ tcp' = "open" /\ server' = "waiting"
    /\ timer' = FALSE
    /\ greeting' = TRUE
    /\ UNCHANGED <<attempt, reg, status, reply, sending, sends, chanVars, reached, known>>

\* onConnectInternal: the timer is stopped and the pointer registered;
Connected ==
    /\ tcp = "connecting"
    /\ tcp' = "open" /\ server' = "waiting"
    /\ timer' = FALSE
    /\ reg' = TRUE /\ greeting' = TRUE
    /\ UNCHANGED <<attempt, status, reply, sending, sends, chanVars, reached, known>>

-----------------------------------------------------------------------------
(* Sending.                                                                *)

\* A free async takes the data.
Taken(what, to) ==
    /\ Cardinality(queued) < Slots
    /\ channel!Accept([what |-> what, to |-> to, seq |-> sends + 1])
    /\ sends' = sends + 1

\* Asyncs are used in turn, so once all were used the next one may be busy: then
\* the send returns false, which the callbacks of the client ignore.
NoneFree == sends >= Slots /\ queued # {} /\ UNCHANGED <<chanVars, sends>>

Queue(what, to) == Taken(what, to) \/ NoneFree

\* generate_websocket_client_handshake, given to the pool or not.
Request ==
    /\ greeting /\ sends < MaxSends
    /\ \/ Taken("request", attempt) /\ UNCHANGED reply
       \/ NoneFree /\ reply' = "unasked"
    /\ greeting' = FALSE
    /\ UNCHANGED <<tcp, attempt, timer, reg, server, sending, reached, known>>

Greet_statusKept == Request /\ UNCHANGED status

\* the handshake is sent, and reading starts.
Greet == Request /\ status' = "HANDSHAKING"

\* Bound: enough of MaxSends is left for the handshake of every attempt.
Room == sends + (MaxAttempts - attempt) + 1 < MaxSends

\* hb_timer_callback, on the loop thread.
HeartBeat ==
    /\ EnableHeartBeat /\ ~ greeting /\ reg /\ tcp # "lost" /\ Room
    /\ Queue("ping", attempt)
    /\ UNCHANGED <<linkVars, sending, reached, known>>

\* A send of an application thread to m_peer: the check, and later the store.
\* It sends from the first onConnect on.
AppCheck(t) ==
    /\ known /\ sending[t] = Idle /\ reg /\ Room
    /\ sending' = [sending EXCEPT ![t] = attempt]
    /\ UNCHANGED <<linkVars, sends, chanVars, reached, known>>

AppStore(t) ==
    /\ sending[t] # Idle /\ Room
    /\ Queue("message", sending[t])
    /\ sending' = [sending EXCEPT ![t] = Idle]
    /\ UNCHANGED <<linkVars, reached, known>>

\* async_send_callback.
Deliver(d) ==
    /\ ~ greeting /\ tcp # "lost" /\ d \in queued
    /\ IF reg /\ tcp = "open"
       THEN /\ channel!Deliver(d)
            /\ reached' = [reached EXCEPT ![attempt] = Append(@, d.what)]
       ELSE channel!Discard(d) /\ UNCHANGED reached
    /\ UNCHANGED <<linkVars, sending, sends, known>>

-----------------------------------------------------------------------------
(* The server, as ServerConnections has it.                                *)

\* The first thing it reads must be the request.  TCP may cut the response, which is
\* lost if the server's pool has no free async; another server may send one that
\* lacks the accept key.
ServerReads ==
    /\ server = "waiting" /\ tcp = "open" /\ reached[attempt] # <<>>
    /\ LET asked == Head(reached[attempt]) = "request"
       IN  \/ asked /\ server' = "websocket" /\ reply' = "whole"
           \/ asked /\ "split" \in Faults /\ server' = "websocket" /\ reply' = "split"
           \/ asked /\ "busy" \in Faults /\ server' = "websocket" /\ reply' = "lost"
           \/ asked /\ "keyless" \in Faults /\ server' = "refused" /\ reply' = "keyless"
           \/ ~ asked /\ server' = "ended" /\ UNCHANGED reply
    /\ UNCHANGED <<tcp, attempt, timer, status, reg, greeting,
                   sending, sends, chanVars, reached, known>>

\* The server goes away, or closes with a close frame.
ServerEnds ==
    /\ server \in {"waiting", "websocket", "refused"} /\ tcp = "open"
    /\ \/ "eof" \in Faults /\ server' = "ended"
       \/ "close" \in Faults /\ server = "websocket" /\ server' = "closed"
    /\ UNCHANGED <<tcp, attempt, timer, status, reg, greeting, reply,
                   sending, sends, chanVars, reached, known>>

-----------------------------------------------------------------------------
(* on_read.                                                                *)

Reading == tcp = "open" /\ ~ greeting

\* A read in the handshake.  The read buffer is not cleared, so what one part of a
\* response lacks may be found in what the buffer holds behind it.
HandshakeRead(found) ==
    LET agreed == status = "HANDSHAKING" /\ found
    IN  /\ status' = IF agreed THEN "WORKING" ELSE status
        /\ known' = (known \/ agreed)

\* The response, or its first part.  The search in a whole one ends at its own blank
\* line; an accept key that is missing or empty ends nothing.
ReadResponse ==
    /\ Reading /\ reply \in {"whole", "keyless", "split"}
    /\ \/ reply = "whole" /\ reply' = "none" /\ HandshakeRead(TRUE)
       \/ reply = "keyless" /\ reply' = "missed" /\ HandshakeRead(FALSE)
       \/ reply = "split" /\ reply' = "rest" /\ \E found \in BOOLEAN : HandshakeRead(found)
    /\ UNCHANGED <<tcp, attempt, timer, reg, greeting, server,
                   sending, sends, chanVars, reached>>

\* The second part, which holds the key when the cut was before it.  A client that
\* works already reads it as frames, one of which may look like a close frame, or
\* like one that cannot be parsed: then on_read_websocket never returns.
ReadRest ==
    /\ Reading /\ reply = "rest"
    /\ \/ /\ status = "HANDSHAKING"
          /\ \E found \in BOOLEAN :
                HandshakeRead(found) /\ reply' = IF found THEN "none" ELSE "missed"
          /\ UNCHANGED <<tcp, server>>
       \/ /\ status = "WORKING" /\ reply' = "garbled"
          /\ \/ UNCHANGED <<tcp, server>>
             \/ tcp' = "closing" /\ server' = "left"
             \/ tcp' = "lost" /\ UNCHANGED server
          /\ UNCHANGED <<status, known>>
    /\ UNCHANGED <<attempt, timer, reg, greeting, sending, sends, chanVars, reached>>

Consumed == reply \in {"none", "unasked", "lost", "missed", "garbled"}

\* A close frame is only looked at once the handshake is over, and only if the parser
\* takes it for a frame.  No timer is started.
ReadCloseFrame ==
    /\ Reading /\ Consumed /\ server = "closed"
    /\ \/ /\ status = "WORKING"
          /\ tcp' = "closing" /\ server' = "left"
          /\ UNCHANGED <<status, known>>
       \/ /\ status = "HANDSHAKING" \/ reply = "garbled"
          /\ server' = "ended" /\ UNCHANGED tcp
          /\ \E found \in BOOLEAN : HandshakeRead(found)
    /\ reply' = IF reply \in {"missed", "lost"} /\ status' = "WORKING" THEN "none" ELSE reply
    /\ UNCHANGED <<attempt, timer, reg, greeting, sending, sends, chanVars, reached>>

TimerAfterEnd_off == FALSE
TimerAfterEnd == timer \/ EnableReconnect

\* nread < 0.
ReadEnd ==
    /\ Reading /\ Consumed /\ server = "ended"
    /\ tcp' = "closing"
    /\ timer' = TimerAfterEnd
    /\ UNCHANGED <<attempt, status, reg, greeting, server, reply,
                   sending, sends, chanVars, reached, known>>

Closed_freed ==
    /\ tcp = "closing"
    /\ tcp' = "freed"
    /\ reg' = FALSE
    /\ UNCHANGED <<attempt, timer, status, greeting, server, reply,
                   sending, sends, chanVars, reached, known>>

\* after_uv_close_client, at the end of the loop iteration.  It does not free
\* m_uv_tcp_t, which is a part of the client.
Closed ==
    /\ tcp = "closing"
    /\ tcp' = "closed"
    /\ reg' = FALSE
    /\ UNCHANGED <<attempt, timer, status, greeting, server, reply,
                   sending, sends, chanVars, reached, known>>

-----------------------------------------------------------------------------
Loop ==
    \/ ReconnectTimer \/ TimerBreaks \/ Connected \/ Greet \/ Closed
    \/ ReadResponse \/ ReadRest \/ ReadCloseFrame \/ ReadEnd
    \/ \E d \in queued : Deliver(d)

Next ==
    \/ Loop \/ ConnectFails \/ HeartBeat
    \/ \E t \in Apps : AppCheck(t) \/ AppStore(t)
    \/ ServerReads \/ ServerEnds

Spec == Init /\ [][Next]_vars

\* The loop runs its callbacks and timers, an attempt ends one way or the other,
\* and the server reads what it is sent.
FairSpec ==
    /\ Spec
    /\ WF_vars(ReconnectTimer) /\ WF_vars(Connected \/ ConnectFails)
    /\ WF_vars(Greet) /\ WF_vars(Closed)
    /\ WF_vars(ReadResponse) /\ WF_vars(ReadRest) /\ WF_vars(ReadCloseFrame) /\ WF_vars(ReadEnd)
    /\ WF_vars(\E d \in queued : Deliver(d)) /\ WF_vars(ServerReads)

-----------------------------------------------------------------------------
(* Properties.                                                             *)

\* The type invariant.
TypeOK ==
    /\ tcp \in {"connecting", "broken", "failed", "open", "closing", "closed", "lost"}
    /\ attempt \in Attempts
    /\ timer \in BOOLEAN /\ reg \in BOOLEAN
    /\ greeting \in BOOLEAN /\ known \in BOOLEAN
    /\ status \in {"HANDSHAKING", "WORKING"}
    /\ server \in {"none", "waiting", "websocket", "refused", "closed", "ended", "left"}
    /\ reply \in {"none", "whole", "keyless", "split", "rest", "unasked", "lost", "missed",
                 "garbled"}
    /\ sending \in [Apps -> Attempts \cup {Idle}] /\ sends \in 0 .. MaxSends
    /\ queued \subseteq Data /\ discarded \subseteq Data
    /\ wire \in [{"m_peer"} -> Seq(Data)]
    /\ reached \in [Attempts -> Seq({"request", "message", "ping"})]

\* The reconnect timer is off for as long as the client is connected, so it
\* never initialises m_uv_tcp_t under a connection (CWSClient.cpp:249-252, 196-198).
NoTimerWhileOpen == tcp = "open" => ~ timer

\* The client takes itself to be working only when the server has agreed to the
\* handshake of this connection and the client has read something it sent then: never
\* while an answer is still on its way, after one without a key, or on the strength of
\* an earlier connection's (CWSClient.cpp:167-178, 206, 269).
WorkingIsAgreed ==
    tcp = "open" /\ ~ greeting /\ status = "WORKING" =>
        /\ server \notin {"waiting", "refused"} /\ reply \in {"none", "rest", "garbled"}
        /\ reached[attempt] # <<>> /\ Head(reached[attempt]) = "request"

\* A client that lost its connection, or never had one, tries again, unless a
\* close frame, or what it took for one, ended it (CWSClient.cpp:196-198, 298-300): then
\* no timer is started.
Down == tcp = "failed" \/ (tcp = "closed" /\ server # "left")

Retries == EnableReconnect /\ Down /\ attempt < MaxAttempts ~> tcp = "connecting"

\* A connection comes out of the handshake: it works, or it is closed, except where
\* nothing that could end it will come, as the code has no timeout: the request found
\* no free async (CWSClient.cpp:268), the response found none (CWSServer.cpp:165), or
\* what was read of it had no key or not its end (CWSClient.cpp:170-171).
HandshakeEnds ==
    tcp = "open" ~> status = "WORKING" \/ tcp # "open" \/ reply \in {"unasked", "lost", "missed"}

\* Every connection begins with the handshake request ("the client MUST send an
\* opening handshake", rfc6455.txt:832).
HandshakeFirst == \A a \in Attempts : reached[a] # <<>> => Head(reached[a]) = "request"
=============================================================================
