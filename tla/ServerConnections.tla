-------------------------- MODULE ServerConnections --------------------------
(***************************************************************************)
(* The connections of CWSServer, from accept to free, and the registry of  *)
(* valid pointers that CChecker keeps.  A connection is known by the       *)
(* address of its uv_tcp_t, which malloc may hand out again once the       *)
(* connection is gone: a session is one use of an address.  Application    *)
(* threads remember the addresses onConnect gave them and send to them at  *)
(* any time; what they send goes through the pool of asyncs, here the      *)
(* abstract channel of SendChannel.                                        *)
(*                                                                         *)
(* A callback of the loop thread is one step; a send is two, because the   *)
(* connection may change between its check and its store.                  *)
(***************************************************************************)
EXTENDS Integers, Sequences, FiniteSets

CONSTANTS
    Addrs,        \* addresses of uv_tcp_t objects
    NoAddr,
    Apps,         \* application threads that send
    Idle,         \* a thread that is not sending
    Slots,        \* the size of the pool of asyncs
    MaxSessions,  \* bound: connections accepted
    MaxReads,     \* bound: reads per connection
    MaxSends      \* bound: data given to the pool

ASSUME ServerAssumption ==
    /\ NoAddr \notin Addrs /\ Idle \notin Addrs \X Nat
    /\ Slots \in Nat /\ MaxSessions \in Nat /\ MaxReads \in Nat /\ MaxSends \in Nat

Sessions == 1 .. MaxSessions

\* Data given to the pool: the pointer it is for, and the session meant by it.
Data == [addr : Addrs, to : Sessions, seq : 1 .. MaxSends]

VARIABLES
    phase,    \* the loop polls for events, runs the closing callbacks, or is
              \* lost: it never comes back from a read callback
    conn,     \* per session, the state of its handle
    where,    \* per session, the address of its uv_tcp_t
    hd,       \* per session, peer->data: none, or with FLAG_WEBSOCKET or not
    reads,    \* per session, the number of reads
    log,      \* per session, the callbacks of the application
    reg,      \* CChecker.m_connections
    known,    \* the pointers the application knows, and what it means by them
    sending,  \* per thread, the pointer that passed the check
    sends,    \* the number of data given to the pool
    queued, wire, discarded,  \* the channel
    reached   \* which session each written piece of data reached

channel == INSTANCE SendChannel WITH Peers <- Addrs, PeerOf <- LAMBDA d : d.addr

chanVars == <<queued, wire, discarded>>
connVars == <<conn, where, hd, reads, log, reg, known>>
vars == <<phase, connVars, sending, sends, chanVars, reached>>

Init ==
    /\ phase = "poll"
    /\ conn = [s \in Sessions |-> "unborn"]
    /\ where = [s \in Sessions |-> NoAddr]
    /\ hd = [s \in Sessions |-> "none"]
    /\ reads = [s \in Sessions |-> 0]
    /\ log = [s \in Sessions |-> <<>>]
    /\ reg = {} /\ known = {}
    /\ sending = [t \in Apps |-> Idle]
    /\ sends = 0
    /\ channel!Init
    /\ reached = {}

-----------------------------------------------------------------------------
(* Giving data to the pool.                                                *)

Given(d) == channel!Accept(d) /\ sends' = sends + 1

\* Asyncs are used in turn, so once all were used the next one may be busy.
NoneFree == sends >= Slots /\ queued # {} /\ UNCHANGED <<chanVars, sends>>

Queue_offByOne(d) == (Cardinality(queued) <= Slots /\ Given(d)) \/ NoneFree

\* A free async takes the data; with none at the head of the deque the send
\* returns false, which the callbacks of the server ignore.
Queue(d) == (Cardinality(queued) < Slots /\ Given(d)) \/ NoneFree

\* A send of the loop thread to the connection it is working for, which is registered.
Reply(s) ==
    /\ sends < MaxSends
    /\ Queue([addr |-> where[s], to |-> s, seq |-> sends + 1])

\* sendDataWithAsync on an application thread: the check,
AppCheck(t) ==
    /\ sending[t] = Idle /\ sends < MaxSends
    /\ \E k \in known : k[1] \in reg /\ sending' = [sending EXCEPT ![t] = k]
    /\ UNCHANGED <<phase, connVars, sends, chanVars, reached>>

\* and, at any later time, the store.
AppStore(t) ==
    /\ sending[t] # Idle /\ sends < MaxSends
    /\ Queue([addr |-> sending[t][1], to |-> sending[t][2], seq |-> sends + 1])
    /\ sending' = [sending EXCEPT ![t] = Idle]
    /\ UNCHANGED <<phase, connVars, reached>>

-----------------------------------------------------------------------------
(* The callbacks of the loop thread.                                       *)

Allocated == {where[s] : s \in Sessions} \ {NoAddr}

Registered_first(a, accepted) == reg \cup {a}

Registered(a, accepted) == IF accepted THEN reg \cup {a} ELSE reg

\* on_connection: malloc gives any free address.  A connection that cannot be
\* accepted is closed at once and never registered.
Accept(a, accepted) ==
    /\ phase = "poll" /\ a \notin Allocated
    /\ \E s \in Sessions :
        /\ conn[s] = "unborn" /\ \A r \in 1 .. s - 1 : conn[r] # "unborn"
        /\ where' = [where EXCEPT ![s] = a]
        /\ conn' = [conn EXCEPT ![s] = IF accepted THEN "open" ELSE "refused"]
    /\ reg' = Registered(a, accepted)
    /\ UNCHANGED <<phase, hd, reads, log, known, sending, sends, chanVars, reached>>

\* on_read runs for a handle that is not closing.
Read(s) ==
    /\ phase = "poll" /\ conn[s] = "open" /\ reads[s] < MaxReads
    /\ reads' = [reads EXCEPT ![s] = @ + 1]
    /\ UNCHANGED <<where, reg, sending, reached>>

Reading(s) == Read(s) /\ UNCHANGED phase

Log(s, events) == log' = [log EXCEPT ![s] = @ \o events]

\* tw_close_client.  on_close calls onClose only where loop->data is NULL, and
\* it never is: the application is not told.
CloseClient(s) == conn' = [conn EXCEPT ![s] = "closing"]

Handle(s, state) == hd' = [hd EXCEPT ![s] = state]

Request_flagForgotten(s) ==
    /\ Reading(s) /\ hd[s] # "websocket"
    /\ Handle(s, "fresh")
    /\ Reply(s)
    /\ Log(s, <<"connect">>)
    /\ known' = known \cup {<<where[s], s>>}
    /\ UNCHANGED conn

\* A complete handshake request.  A pool without a free async loses the response.
Request(s) ==
    /\ Reading(s) /\ hd[s] # "websocket"
    /\ Handle(s, "websocket")
    /\ Reply(s)
    /\ Log(s, <<"connect">>)
    /\ known' = known \cup {<<where[s], s>>}
    /\ UNCHANGED conn

\* Anything else before the handshake, such as a part of a request.
NoRequest(s) ==
    /\ Reading(s) /\ hd[s] # "websocket"
    /\ Handle(s, "fresh")
    /\ CloseClient(s)
    /\ UNCHANGED <<log, known, sends, chanVars>>

Message(s) ==
    /\ Reading(s) /\ hd[s] = "websocket"
    /\ Log(s, <<"data">>)
    /\ UNCHANGED <<conn, hd, known, sends, chanVars>>

Ping(s) ==
    /\ Reading(s) /\ hd[s] = "websocket"
    /\ Reply(s)
    /\ UNCHANGED <<conn, hd, log, known>>

\* A close frame; a message may follow it in the same read.
CloseFrame(s, more) ==
    /\ Reading(s) /\ hd[s] = "websocket"
    /\ CloseClient(s)
    /\ Log(s, IF more THEN <<"data">> ELSE <<>>)
    /\ UNCHANGED <<hd, known, sends, chanVars>>

\* A frame that cannot be parsed, possibly after a message in the same read: the
\* handle is closed, but the loop over the read's bytes moves on by what was read
\* of the frame, which is nothing, and so parses it again, for ever.
BadFrame(s, more) ==
    /\ Read(s) /\ hd[s] = "websocket"
    /\ CloseClient(s)
    /\ phase' = "lost"
    /\ Log(s, IF more THEN <<"data">> ELSE <<>>)
    /\ UNCHANGED <<hd, known, sends, chanVars>>

Hangup_noHandle(s, failed) ==
    /\ Reading(s)
    /\ CloseClient(s)
    /\ Log(s, IF failed THEN <<"error">> ELSE <<>>)
    /\ UNCHANGED <<hd, known, sends, chanVars>>

\* nread < 0: the end of the stream, or an error.
Hangup(s, failed) ==
    /\ Reading(s)
    /\ Handle(s, IF hd[s] = "none" THEN "fresh" ELSE hd[s])
    /\ CloseClient(s)
    /\ Log(s, IF failed THEN <<"error">> ELSE <<>>)
    /\ UNCHANGED <<known, sends, chanVars>>

Owner(a) == {s \in Sessions : where[s] = a}

\* async_send_callback: a pointer that is not registered any more drops the
\* data; so does uv_write for a handle that is closing.
Deliver(d) ==
    /\ phase = "poll" /\ d \in queued
    /\ IF d.addr \in reg /\ \A s \in Owner(d.addr) : conn[s] # "closing"
       THEN /\ channel!Deliver(d)
            /\ reached' = reached \cup {<<d, s>> : s \in Owner(d.addr)}
       ELSE channel!Discard(d) /\ UNCHANGED reached
    /\ UNCHANGED <<phase, connVars, sending, sends>>

-----------------------------------------------------------------------------
(* The end of a loop iteration: uv__run_closing_handles.                   *)

ToClose == {s \in Sessions : conn[s] \in {"closing", "refused"}}

EndPoll ==
    /\ phase = "poll" /\ ToClose # {}
    /\ phase' = "closing"
    /\ UNCHANGED <<connVars, sending, sends, chanVars, reached>>

Unregistered_kept(s) == reg

\* after_uv_close_client takes the pointer out of the registry, and frees;
\* close_client, of a refused connection, only frees.
Unregistered(s) == IF conn[s] = "closing" THEN reg \ {where[s]} ELSE reg

\* Without a websocket_handle after_uv_close_client does nothing at all.
Closed(s) ==
    /\ phase = "closing" /\ s \in ToClose
    /\ IF conn[s] = "closing" /\ hd[s] = "none"
       THEN /\ conn' = [conn EXCEPT ![s] = "stuck"]
            /\ UNCHANGED <<reg, where>>
       ELSE /\ conn' = [conn EXCEPT ![s] = "gone"]
            /\ reg' = Unregistered(s)
            /\ where' = [where EXCEPT ![s] = NoAddr]
    /\ UNCHANGED <<phase, hd, reads, log, known, sending, sends, chanVars, reached>>

EndClosing ==
    /\ phase = "closing" /\ ToClose = {}
    /\ phase' = "poll"
    /\ UNCHANGED <<connVars, sending, sends, chanVars, reached>>

-----------------------------------------------------------------------------
Next ==
    \/ \E t \in Apps : AppCheck(t) \/ AppStore(t)
    \/ \E a \in Addrs, accepted \in BOOLEAN : Accept(a, accepted)
    \/ \E s \in Sessions :
        \/ Request(s) \/ NoRequest(s) \/ Message(s) \/ Ping(s)
        \/ \E b \in BOOLEAN : CloseFrame(s, b) \/ BadFrame(s, b) \/ Hangup(s, b)
        \/ Closed(s)
    \/ \E d \in queued : Deliver(d)
    \/ EndPoll \/ EndClosing

Spec == Init /\ [][Next]_vars

\* The loop ends each iteration and runs every closing callback, unless it is lost.
FairSpec ==
    /\ Spec
    /\ WF_vars(EndPoll) /\ WF_vars(EndClosing) /\ WF_vars(\E s \in Sessions : Closed(s))

-----------------------------------------------------------------------------
(* Properties.                                                             *)

Events == {"connect", "data", "error"}

\* The type invariant.
TypeOK ==
    /\ phase \in {"poll", "closing", "lost"}
    /\ conn \in [Sessions -> {"unborn", "open", "closing", "refused", "gone", "stuck"}]
    /\ where \in [Sessions -> Addrs \cup {NoAddr}]
    /\ hd \in [Sessions -> {"none", "fresh", "websocket"}]
    /\ reads \in [Sessions -> 0 .. MaxReads]
    /\ log \in [Sessions -> Seq(Events)]
    /\ reg \subseteq Addrs
    /\ known \subseteq Addrs \X Sessions
    /\ sending \in [Apps -> (Addrs \X Sessions) \cup {Idle}]
    /\ sends \in 0 .. MaxSends
    /\ queued \subseteq Data /\ discarded \subseteq Data /\ Cardinality(queued) <= Slots
    /\ wire \in [Addrs -> Seq(Data)]
    /\ reached \subseteq Data \X Sessions

\* A pointer is registered exactly while a connection that was accepted lives at
\* it, through every close and every reuse of the address, so that a check under
\* the lock is as good as a look at the connection (uvutil.cpp:43-62,
\* CWSServer.cpp:220-230).
RegistryExact == reg = {where[s] : s \in {r \in Sessions : conn[r] \in {"open", "closing", "stuck"}}}

\* Whatever application threads do between their check and their store, uv_write
\* is only given handles that are open (CAsyncs.cpp:40-59).
WrittenToOpen ==
    [][\A d \in Data : d \in queued /\ Len(wire'[d.addr]) > Len(wire[d.addr])
         => \E s \in Owner(d.addr) : conn[s] = "open"]_vars

\* The application hears of a connection in order: onConnect once and first,
\* onData only after it, and nothing after onError (CWSServer.cpp:146-192).  A
\* message behind a close frame in the same read is still handed over.
CallbackOrder ==
    \A s \in Sessions : \A k \in DOMAIN log[s] :
        /\ log[s][k] = "connect" => k = 1
        /\ log[s][k] = "data" => log[s][1] = "connect"
        /\ log[s][k] = "error" => k = Len(log[s])

\* A connection that is closed, by whatever callback, is freed (uvutil.cpp:43-62),
\* except when the loop is lost to a frame that cannot be parsed: then none is ever
\* freed again (CWSServer.cpp:113-121).
Freed == \A s \in Sessions : s \in ToClose ~> conn[s] = "gone" \/ phase = "lost"

\* Data reaches the connection the caller meant ("检查连接对象指针有效性",
\* CChecker.cpp:49).
ReachesItsPeer == \A r \in reached : r[2] = r[1].to
=============================================================================
