---------------------- MODULE ServerConnections_proofs ----------------------
(***************************************************************************)
(* Proofs about ServerConnections: through every accept, close and reuse   *)
(* of an address the registry holds exactly the live connections, and      *)
(* nothing is handed to uv_write for one that is not open.                 *)
(***************************************************************************)
EXTENDS ServerConnections, FiniteSetTheorems, TLAPS

-----------------------------------------------------------------------------
(* The inductive invariant.                                                *)

\* A connection has an address for as long as its handle exists.
Addressed ==
    \A s \in Sessions :
        /\ conn[s] \in {"open", "closing", "refused"} => where[s] \in Addrs
        /\ conn[s] \in {"unborn", "gone"} => where[s] = NoAddr

\* Two handles are never at one address.
Distinct ==
    \A s, r \in Sessions : where[s] = where[r] /\ where[s] # NoAddr => s = r

\* A connection that is closing has its websocket_handle, so it does get freed.
Handled ==
    \A s \in Sessions : conn[s] # "stuck" /\ (conn[s] = "closing" => hd[s] # "none")

\* The part of TypeOK about connections, and the part about the pool.
ConnTypes ==
    /\ phase \in {"poll", "closing", "lost"}
    /\ conn \in [Sessions -> {"unborn", "open", "closing", "refused", "gone", "stuck"}]
    /\ where \in [Sessions -> Addrs \cup {NoAddr}]
    /\ hd \in [Sessions -> {"none", "fresh", "websocket"}]
    /\ reads \in [Sessions -> 0 .. MaxReads]
    /\ log \in [Sessions -> Seq(Events)]
    /\ reg \subseteq Addrs
    /\ known \subseteq Addrs \X Sessions
    /\ sending \in [Apps -> (Addrs \X Sessions) \cup {Idle}]

PoolTypes ==
    /\ sends \in 0 .. MaxSends
    /\ queued \subseteq Data /\ discarded \subseteq Data
    /\ IsFiniteSet(queued) /\ Cardinality(queued) <= Slots
    /\ wire \in [Addrs -> Seq(Data)]
    /\ reached \subseteq Data \X Sessions

Links == Addressed /\ Distinct /\ Handled /\ RegistryExact

IInv == ConnTypes /\ PoolTypes /\ Links

LEMMA TypesAgree == TypeOK /\ IsFiniteSet(queued) <=> ConnTypes /\ PoolTypes
  BY Zenon DEF TypeOK, ConnTypes, PoolTypes

-----------------------------------------------------------------------------
(* The channel.                                                            *)

LEMMA AcceptIs ==
    ASSUME NEW d, channel!Accept(d)
    PROVE  d \notin queued /\ queued' = queued \cup {d} /\ UNCHANGED <<wire, discarded>>
  BY Zenon DEF channel!Accept

LEMMA DeliverIs ==
    ASSUME NEW d, channel!Deliver(d)
    PROVE  /\ d \in queued /\ queued' = queued \ {d}
           /\ wire' = [wire EXCEPT ![d.addr] = Append(@, d)]
           /\ discarded' = discarded
  BY Zenon DEF channel!Deliver

LEMMA DiscardIs ==
    ASSUME NEW d, channel!Discard(d)
    PROVE  /\ d \in queued /\ queued' = queued \ {d}
           /\ discarded' = discarded \cup {d}
           /\ wire' = wire
  BY Zenon DEF channel!Discard

\* The bounds are numbers.
LEMMA Bounds == Slots \in Nat /\ MaxSends \in Nat /\ MaxReads \in Nat /\ MaxSessions \in Nat
  BY ServerAssumption, Zenon

\* Giving data to the pool, whether it is taken or not.
LEMMA QueueTypes ==
    ASSUME PoolTypes, sends < MaxSends, NEW a \in Addrs, NEW s \in Sessions,
           Queue([addr |-> a, to |-> s, seq |-> sends + 1])
    PROVE  /\ sends' \in 0 .. MaxSends
           /\ queued' \subseteq Data
           /\ IsFiniteSet(queued') /\ Cardinality(queued') <= Slots
           /\ UNCHANGED <<wire, discarded>>
<1> DEFINE d == [addr |-> a, to |-> s, seq |-> sends + 1]
<1>1. d \in Data
  BY Bounds DEF PoolTypes, Data
<1>2. CASE NoneFree
  BY <1>2, Zenon DEF NoneFree, chanVars, PoolTypes
<1>3. CASE Cardinality(queued) < Slots /\ Given(d)
  <2>1. d \notin queued /\ queued' = queued \cup {d} /\ UNCHANGED <<wire, discarded>>
    BY <1>3, AcceptIs, Zenon DEF Given
  <2>2. IsFiniteSet(queued') /\ Cardinality(queued') = Cardinality(queued) + 1
    BY <2>1, FS_AddElement, Zenon DEF PoolTypes
  <2>3. Cardinality(queued) \in Nat
    BY FS_CardinalityType, Zenon DEF PoolTypes
  <2>4. sends' \in 0 .. MaxSends
    BY <1>3, Bounds DEF Given, PoolTypes
  <2>5. Cardinality(queued') <= Slots
    BY <1>3, <2>2, <2>3, Bounds
  <2>6. queued' \subseteq Data
    BY <1>1, <2>1, Zenon DEF PoolTypes
  <2> QED
    BY <2>1, <2>2, <2>4, <2>5, <2>6, Zenon
<1> QED
  BY <1>2, <1>3, Zenon DEF Queue

-----------------------------------------------------------------------------
(* The invariant is inductive.                                             *)

LEMMA InitHolds == Init => IInv
<1> SUFFICES ASSUME Init PROVE IInv
  OBVIOUS
<1>1. queued = {} /\ discarded = {} /\ wire = [p \in Addrs |-> <<>>]
  BY Zenon DEF Init, channel!Init
<1>2. ConnTypes
  BY Bounds DEF Init, ConnTypes
<1>3. PoolTypes
  <2>1. IsFiniteSet(queued) /\ Cardinality(queued) = 0
    BY <1>1, FS_EmptySet, Zenon
  <2> QED
    BY <1>1, <2>1, Bounds DEF Init, PoolTypes
<1>4. Links
  BY ServerAssumption DEF Init, Links, Addressed, Distinct, Handled, RegistryExact
<1> QED
  BY <1>2, <1>3, <1>4, Zenon DEF IInv

\* What does not touch the handles and the registry.
LEMMA LinksKept == ASSUME Links, UNCHANGED <<conn, where, hd, reg>> PROVE Links'
  BY Zenon DEF Links, Addressed, Distinct, Handled, RegistryExact

\* A closed handle keeps its address and its place in the registry until the loop
\* has run its close callback.
LEMMA LinksClosing ==
    ASSUME ConnTypes, Links, NEW s \in Sessions, conn[s] = "open", CloseClient(s),
           hd' \in [Sessions -> {"none", "fresh", "websocket"}],
           hd'[s] # "none", \A r \in Sessions \ {s} : hd'[r] = hd[r],
           UNCHANGED <<where, reg>>
    PROVE  Links'
<1>1. conn'[s] = "closing" /\ \A r \in Sessions \ {s} : conn'[r] = conn[r]
  BY DEF CloseClient, ConnTypes
<1>2. Addressed'
  BY <1>1, Zenon DEF Links, Addressed
<1>3. Distinct'
  BY Zenon DEF Links, Distinct
<1>4. Handled'
  BY <1>1 DEF Links, Handled
<1>5. RegistryExact'
  <2>1. \A r \in Sessions : conn'[r] \in {"open", "closing", "stuck"} <=> conn[r] \in {"open", "closing", "stuck"}
    BY <1>1
  <2> QED
    BY <2>1 DEF Links, RegistryExact
<1> QED
  BY <1>2, <1>3, <1>4, <1>5, Zenon DEF Links

\* A read that leaves the handle open.
LEMMA LinksOpen ==
    ASSUME Links, NEW s \in Sessions, UNCHANGED <<conn, where, reg>>,
           conn[s] = "open", \A r \in Sessions \ {s} : hd'[r] = hd[r]
    PROVE  Links'
<1>1. Handled'
  BY DEF Links, Handled
<1> QED
  BY <1>1, Zenon DEF Links, Addressed, Distinct, RegistryExact

LEMMA AcceptLinks ==
    ASSUME ConnTypes, Links, NEW a \in Addrs, NEW accepted \in BOOLEAN, Accept(a, accepted)
    PROVE  ConnTypes' /\ Links'
<1>1. PICK s \in Sessions : /\ conn[s] = "unborn"
                            /\ where' = [where EXCEPT ![s] = a]
                            /\ conn' = [conn EXCEPT ![s] = IF accepted THEN "open" ELSE "refused"]
  BY Zenon DEF Accept
<1>2. reg' = IF accepted THEN reg \cup {a} ELSE reg
  BY Zenon DEF Accept, Registered
<1>3. /\ where'[s] = a /\ where[s] = NoAddr
      /\ conn'[s] = IF accepted THEN "open" ELSE "refused"
      /\ \A r \in Sessions \ {s} : where'[r] = where[r] /\ conn'[r] = conn[r]
  BY <1>1 DEF ConnTypes, Links, Addressed
<1>4. \A r \in Sessions : where[r] # a
  BY ServerAssumption, Zenon DEF Accept, Allocated
<1>5. ConnTypes'
  BY <1>1, <1>2 DEF ConnTypes, Accept
<1>6. Addressed'
  BY <1>1, <1>3 DEF Links, Addressed
<1>7. Distinct'
  BY <1>3, <1>4 DEF Links, Distinct
<1>8. Handled'
  BY <1>1, <1>3 DEF Links, Handled, Accept
<1>9. RegistryExact'
  <2>1. \A r \in Sessions \ {s} : conn'[r] = conn[r] /\ where'[r] = where[r]
    BY <1>3
  <2>2. reg = {where[r] : r \in {q \in Sessions \ {s} : conn[q] \in {"open", "closing", "stuck"}}}
    BY <1>1 DEF Links, RegistryExact
  <2>3. reg = {where'[r] : r \in {q \in Sessions \ {s} : conn'[q] \in {"open", "closing", "stuck"}}}
    BY <2>1, <2>2
  <2> QED
    BY <2>3, <1>2, <1>3 DEF RegistryExact
<1> QED
  BY <1>5, <1>6, <1>7, <1>8, <1>9, Zenon DEF Links

\* The close callback of one connection takes its own pointer out and no other.
LEMMA ClosedLinks ==
    ASSUME ConnTypes, Links, NEW s \in Sessions, Closed(s)
    PROVE  ConnTypes' /\ Links'
<1>1. conn[s] \in {"closing", "refused"} /\ ~ (conn[s] = "closing" /\ hd[s] = "none")
  BY DEF Closed, ToClose, Links, Handled
<1>2. /\ conn' = [conn EXCEPT ![s] = "gone"]
      /\ where' = [where EXCEPT ![s] = NoAddr]
      /\ reg' = IF conn[s] = "closing" THEN reg \ {where[s]} ELSE reg
      /\ hd' = hd
  BY <1>1, Zenon DEF Closed, Unregistered
<1>3. /\ conn'[s] = "gone" /\ where'[s] = NoAddr /\ where[s] \in Addrs
      /\ \A r \in Sessions \ {s} : where'[r] = where[r] /\ conn'[r] = conn[r] /\ where[r] # where[s]
  BY <1>1, <1>2, ServerAssumption DEF ConnTypes, Links, Addressed, Distinct
<1>4. ConnTypes'
  BY <1>2 DEF ConnTypes, Closed
<1>5. Addressed'
  BY <1>3 DEF Links, Addressed
<1>6. Distinct'
  BY <1>3 DEF Links, Distinct
<1>7. Handled'
  BY <1>2, <1>3 DEF Links, Handled
<1>8. RegistryExact'
  <2>1. reg' = {where[r] : r \in {q \in Sessions \ {s} : conn[q] \in {"open", "closing", "stuck"}}}
    <3>1. CASE conn[s] = "closing"
      BY <1>2, <1>3, <3>1 DEF Links, RegistryExact
    <3>2. CASE conn[s] = "refused"
      BY <1>2, <3>2 DEF Links, RegistryExact
    <3> QED
      BY <1>1, <3>1, <3>2
  <2> QED
    BY <2>1, <1>3 DEF RegistryExact
<1> QED
  BY <1>4, <1>5, <1>6, <1>7, <1>8, Zenon DEF Links

\* What the application is told, one event or none at a time.
LEMMA LogTypes ==
    ASSUME ConnTypes, NEW s \in Sessions, NEW e \in Events, NEW told \in BOOLEAN,
           Log(s, IF told THEN <<e>> ELSE <<>>)
    PROVE  log' \in [Sessions -> Seq(Events)]
<1>1. (IF told THEN <<e>> ELSE <<>>) \in Seq(Events)
  OBVIOUS
<1>2. log[s] \o (IF told THEN <<e>> ELSE <<>>) \in Seq(Events)
  BY <1>1 DEF ConnTypes
<1> QED
  BY <1>2 DEF Log, ConnTypes

\* Reads, by what they do to the handle.
LEMMA ReadLinks ==
    ASSUME IInv, NEW s \in Sessions, NEW b \in BOOLEAN,
           Request(s) \/ NoRequest(s) \/ Message(s) \/ Ping(s) \/ CloseFrame(s, b) \/ BadFrame(s, b) \/ Hangup(s, b)
    PROVE  ConnTypes' /\ Links'
<1>0. Read(s) /\ (UNCHANGED phase \/ phase' = "lost")
  BY DEF Reading, Request, NoRequest, Message, Ping, CloseFrame, BadFrame, Hangup
<1>1. conn[s] = "open" /\ where[s] \in Addrs
  BY <1>0 DEF IInv, Links, Addressed, Read
<1>2. /\ reads' \in [Sessions -> 0 .. MaxReads] /\ UNCHANGED <<where, reg, sending>>
      /\ phase' \in {"poll", "closing", "lost"}
  BY <1>0, Bounds DEF Read, IInv, ConnTypes
<1>3. CASE Request(s)
  <2>1. hd' = [hd EXCEPT ![s] = "websocket"] /\ UNCHANGED conn
    BY <1>3, Zenon DEF Request, Handle
  <2>2. Links'
    BY <1>1, <1>2, <2>1, LinksOpen DEF IInv
  <2>3. log' \in [Sessions -> Seq(Events)] /\ known' \subseteq Addrs \X Sessions
    BY <1>1, <1>3 DEF Request, Log, Events, IInv, ConnTypes
  <2>4. ConnTypes'
    BY <1>2, <2>1, <2>3 DEF IInv, ConnTypes
  <2> QED
    BY <2>2, <2>4
<1>4. CASE NoRequest(s)
  <2>1. hd' = [hd EXCEPT ![s] = "fresh"] /\ CloseClient(s) /\ UNCHANGED <<log, known>>
    BY <1>4, Zenon DEF NoRequest, Handle
  <2>2. /\ hd' \in [Sessions -> {"none", "fresh", "websocket"}]
        /\ hd'[s] # "none" /\ \A r \in Sessions \ {s} : hd'[r] = hd[r]
    BY <2>1 DEF IInv, ConnTypes
  <2>3. Links'
    BY <1>1, <1>2, <2>1, <2>2, LinksClosing DEF IInv
  <2>4. ConnTypes'
    BY <1>2, <2>1, <2>2 DEF IInv, ConnTypes, CloseClient
  <2> QED
    BY <2>3, <2>4
<1>5. CASE Message(s) \/ Ping(s)
  <2>1. UNCHANGED <<conn, hd, known>>
    BY <1>5, Zenon DEF Message, Ping
  <2>2. Links'
    BY <1>2, <2>1, LinksKept DEF IInv
  <2>3. log' \in [Sessions -> Seq(Events)]
    <3>1. CASE Message(s)
      BY <3>1, LogTypes DEF Message, Events, IInv
    <3>2. CASE Ping(s)
      BY <3>2, Zenon DEF Ping, IInv, ConnTypes
    <3> QED
      BY <1>5, <3>1, <3>2
  <2>4. ConnTypes'
    BY <1>2, <2>1, <2>3 DEF IInv, ConnTypes
  <2> QED
    BY <2>2, <2>4
<1>6. CASE CloseFrame(s, b) \/ BadFrame(s, b)
  <2>1. CloseClient(s) /\ hd[s] = "websocket" /\ UNCHANGED <<hd, known>>
    BY <1>6, Zenon DEF CloseFrame, BadFrame
  <2>2. Links'
    BY <1>1, <1>2, <2>1, LinksClosing DEF IInv, ConnTypes
  <2>3. log' \in [Sessions -> Seq(Events)]
    BY <1>6, LogTypes DEF CloseFrame, BadFrame, Events, IInv
  <2>4. ConnTypes'
    BY <1>2, <2>1, <2>3 DEF IInv, ConnTypes, CloseClient
  <2> QED
    BY <2>2, <2>4
<1>7. CASE Hangup(s, b)
  <2>1. /\ CloseClient(s) /\ UNCHANGED known
        /\ hd' = [hd EXCEPT ![s] = IF hd[s] = "none" THEN "fresh" ELSE hd[s]]
    BY <1>7, Zenon DEF Hangup, Handle
  <2>2. /\ hd' \in [Sessions -> {"none", "fresh", "websocket"}]
        /\ hd'[s] # "none" /\ \A r \in Sessions \ {s} : hd'[r] = hd[r]
    BY <2>1 DEF IInv, ConnTypes
  <2>3. Links'
    BY <1>1, <1>2, <2>1, <2>2, LinksClosing DEF IInv
  <2>4. log' \in [Sessions -> Seq(Events)]
    BY <1>7, LogTypes DEF Hangup, Events, IInv
  <2>5. ConnTypes'
    BY <1>2, <2>1, <2>2, <2>4 DEF IInv, ConnTypes, CloseClient
  <2> QED
    BY <2>3, <2>5
<1> QED
  BY <1>3, <1>4, <1>5, <1>6, <1>7

\* What a read gives to the pool is meant for the connection it came from.
LEMMA ReadPool ==
    ASSUME IInv, NEW s \in Sessions, NEW b \in BOOLEAN,
           Request(s) \/ NoRequest(s) \/ Message(s) \/ Ping(s) \/ CloseFrame(s, b) \/ BadFrame(s, b) \/ Hangup(s, b)
    PROVE  PoolTypes' /\ UNCHANGED wire
<1>1. where[s] \in Addrs /\ UNCHANGED reached
  BY DEF IInv, Links, Addressed, Reading, Read, Request, NoRequest, Message, Ping, CloseFrame, BadFrame, Hangup
<1>2. CASE Request(s) \/ Ping(s)
  <2>1. Reply(s)
    BY <1>2, Zenon DEF Request, Ping
  <2>2. /\ sends' \in 0 .. MaxSends /\ queued' \subseteq Data
        /\ IsFiniteSet(queued') /\ Cardinality(queued') <= Slots
        /\ UNCHANGED <<wire, discarded>>
    BY <1>1, <2>1, QueueTypes, Zenon DEF Reply, IInv
  <2> QED
    BY <1>1, <2>2, Zenon DEF PoolTypes, IInv
<1>3. CASE NoRequest(s) \/ Message(s) \/ CloseFrame(s, b) \/ BadFrame(s, b) \/ Hangup(s, b)
  BY <1>1, <1>3, Zenon DEF NoRequest, Message, CloseFrame, BadFrame, Hangup, chanVars, PoolTypes, IInv
<1> QED
  BY <1>2, <1>3, Zenon

\* The registry answers for the connection: a pointer that is in it, and whose
\* owner is not closing, is that of an open connection.
LEMMA RegisteredIsOpen ==
    ASSUME Links, NEW a \in reg, \A s \in Owner(a) : conn[s] # "closing"
    PROVE  \E s \in Owner(a) : conn[s] = "open"
  BY DEF Links, RegistryExact, Handled, Owner

LEMMA DeliverPool ==
    ASSUME PoolTypes, NEW d \in queued, Deliver(d)
    PROVE  PoolTypes'
<1>1. d \in Data /\ d.addr \in Addrs /\ UNCHANGED sends
  BY Zenon DEF PoolTypes, Data, Deliver
<1>2. queued' = queued \ {d} /\ discarded' \subseteq Data
  <2>1. channel!Deliver(d) \/ channel!Discard(d)
    BY Zenon DEF Deliver
  <2>2. queued' = queued \ {d} /\ (discarded' = discarded \/ discarded' = discarded \cup {d})
    BY <2>1, DeliverIs, DiscardIs, Zenon
  <2> QED
    BY <1>1, <2>2 DEF PoolTypes
<1>3. IsFiniteSet(queued') /\ Cardinality(queued') = Cardinality(queued) - 1
  BY <1>2, FS_RemoveElement, Zenon DEF PoolTypes
<1>4. Cardinality(queued') <= Slots
  BY <1>3, FS_CardinalityType, Bounds DEF PoolTypes
<1>5. wire' \in [Addrs -> Seq(Data)]
  <2>1. CASE wire' = wire
    BY <2>1 DEF PoolTypes
  <2>2. CASE wire' = [wire EXCEPT ![d.addr] = Append(@, d)]
    BY <1>1, <2>2 DEF PoolTypes
  <2> QED
    BY <2>1, <2>2, DeliverIs, DiscardIs, Zenon DEF Deliver
<1>6. reached' \subseteq Data \X Sessions
  BY <1>1 DEF Deliver, Owner, PoolTypes
<1> QED
  BY <1>1, <1>2, <1>3, <1>4, <1>5, <1>6, Zenon DEF PoolTypes

LEMMA Step == IInv /\ [Next]_vars => IInv'
<1> SUFFICES ASSUME IInv, [Next]_vars PROVE IInv'
  OBVIOUS
<1>1. ASSUME NEW t \in Apps, AppCheck(t) PROVE IInv'
  <2>1. PICK k \in known : sending' = [sending EXCEPT ![t] = k]
    BY <1>1, Zenon DEF AppCheck
  <2>2. ConnTypes'
    BY <1>1, <2>1 DEF AppCheck, IInv, ConnTypes, connVars
  <2>3. PoolTypes'
    BY <1>1, Zenon DEF AppCheck, IInv, PoolTypes, chanVars
  <2>4. Links'
    BY <1>1, LinksKept, Zenon DEF AppCheck, connVars, IInv
  <2> QED
    BY <2>2, <2>3, <2>4, Zenon DEF IInv
<1>2. ASSUME NEW t \in Apps, AppStore(t) PROVE IInv'
  <2>1. sending[t] \in Addrs \X Sessions
    BY <1>2 DEF AppStore, IInv, ConnTypes
  <2>2. sending[t][1] \in Addrs /\ sending[t][2] \in Sessions
    BY <2>1
  <2>3. /\ sends' \in 0 .. MaxSends /\ queued' \subseteq Data
        /\ IsFiniteSet(queued') /\ Cardinality(queued') <= Slots
        /\ UNCHANGED <<wire, discarded>>
    BY <1>2, <2>2, QueueTypes, Zenon DEF AppStore, IInv
  <2>4. PoolTypes'
    BY <1>2, <2>3, Zenon DEF AppStore, PoolTypes, IInv
  <2>5. ConnTypes'
    BY <1>2 DEF AppStore, IInv, ConnTypes, connVars
  <2>6. Links'
    BY <1>2, LinksKept, Zenon DEF AppStore, connVars, IInv
  <2> QED
    BY <2>4, <2>5, <2>6, Zenon DEF IInv
<1>3. ASSUME NEW a \in Addrs, NEW accepted \in BOOLEAN, Accept(a, accepted) PROVE IInv'
  <2>1. PoolTypes'
    BY <1>3, Zenon DEF Accept, IInv, PoolTypes, chanVars
  <2> QED
    BY <1>3, <2>1, AcceptLinks, Zenon DEF IInv
<1>4. ASSUME NEW s \in Sessions, NEW b \in BOOLEAN,
             Request(s) \/ NoRequest(s) \/ Message(s) \/ Ping(s) \/ CloseFrame(s, b) \/ BadFrame(s, b) \/ Hangup(s, b)
      PROVE  IInv'
  BY <1>4, ReadLinks, ReadPool, Zenon DEF IInv
<1>5. ASSUME NEW s \in Sessions, Closed(s) PROVE IInv'
  <2>1. PoolTypes'
    BY <1>5, Zenon DEF Closed, IInv, PoolTypes, chanVars
  <2> QED
    BY <1>5, <2>1, ClosedLinks, Zenon DEF IInv
<1>6. ASSUME NEW d \in queued, Deliver(d) PROVE IInv'
  <2>1. ConnTypes'
    BY <1>6, Zenon DEF Deliver, IInv, ConnTypes, connVars
  <2>2. Links'
    BY <1>6, LinksKept, Zenon DEF Deliver, connVars, IInv
  <2> QED
    BY <1>6, <2>1, <2>2, DeliverPool, Zenon DEF IInv
<1>7. CASE EndPoll \/ EndClosing
  <2>1. ConnTypes'
    BY <1>7, Zenon DEF EndPoll, EndClosing, IInv, ConnTypes, connVars
  <2>2. PoolTypes'
    BY <1>7, Zenon DEF EndPoll, EndClosing, IInv, PoolTypes, chanVars
  <2>3. Links'
    BY <1>7, LinksKept, Zenon DEF EndPoll, EndClosing, connVars, IInv
  <2> QED
    BY <2>1, <2>2, <2>3, Zenon DEF IInv
<1>8. CASE UNCHANGED vars
  <2>1. ConnTypes'
    BY <1>8, Zenon DEF vars, connVars, IInv, ConnTypes
  <2>2. PoolTypes'
    BY <1>8, Zenon DEF vars, chanVars, IInv, PoolTypes
  <2>3. Links'
    BY <1>8, LinksKept, Zenon DEF vars, connVars, IInv
  <2> QED
    BY <2>1, <2>2, <2>3, Zenon DEF IInv
<1> QED
  BY <1>1, <1>2, <1>3, <1>4, <1>5, <1>6, <1>7, <1>8, Zenon DEF Next

\* Only the callback of an async hands something to uv_write.
LEMMA WriteStep ==
    ASSUME IInv, [Next]_vars
    PROVE  [\A d \in Data : d \in queued /\ Len(wire'[d.addr]) > Len(wire[d.addr])
              => \E s \in Owner(d.addr) : conn[s] = "open"]_vars
<1>1. CASE UNCHANGED wire
  <2>1. \A d \in Data : Len(wire[d.addr]) \in Nat
    BY DEF IInv, PoolTypes, Data
  <2> QED
    BY <1>1, <2>1
<1>2. ASSUME NEW e \in queued, Deliver(e), NEW d \in Data,
             Len(wire'[d.addr]) > Len(wire[d.addr])
      PROVE  \E s \in Owner(d.addr) : conn[s] = "open"
  <2>1. d.addr \in Addrs /\ e.addr \in Addrs /\ Len(wire[d.addr]) \in Nat
    BY DEF IInv, PoolTypes, Data
  <2>2. e.addr \in reg /\ (\A s \in Owner(e.addr) : conn[s] # "closing") /\ channel!Deliver(e)
    <3>1. ~ channel!Discard(e)
      BY <1>2, <2>1, DiscardIs
    <3> QED
      BY <1>2, <3>1, Zenon DEF Deliver
  <2>3. wire' = [wire EXCEPT ![e.addr] = Append(@, e)]
    BY <2>2, DeliverIs, Zenon
  <2>4. d.addr = e.addr
    BY <1>2, <2>1, <2>3 DEF IInv, PoolTypes
  <2> QED
    BY <2>2, <2>4, RegisteredIsOpen, Zenon DEF IInv
<1>3. ASSUME NEW t \in Apps, AppCheck(t) PROVE UNCHANGED wire
  BY <1>3, Zenon DEF AppCheck, chanVars
<1>4. ASSUME NEW t \in Apps, AppStore(t) PROVE UNCHANGED wire
  <2>1. sending[t] \in Addrs \X Sessions
    BY <1>4 DEF AppStore, IInv, ConnTypes
  <2>2. sending[t][1] \in Addrs /\ sending[t][2] \in Sessions
    BY <2>1
  <2> QED
    BY <1>4, <2>2, QueueTypes, Zenon DEF AppStore, IInv
<1>5. ASSUME NEW a \in Addrs, NEW accepted \in BOOLEAN, Accept(a, accepted) PROVE UNCHANGED wire
  BY <1>5, Zenon DEF Accept, chanVars
<1>6. ASSUME NEW s \in Sessions, NEW b \in BOOLEAN,
             Request(s) \/ NoRequest(s) \/ Message(s) \/ Ping(s) \/ CloseFrame(s, b) \/ BadFrame(s, b) \/ Hangup(s, b)
      PROVE  UNCHANGED wire
  BY <1>6, ReadPool, Zenon
<1>7. ASSUME NEW s \in Sessions, Closed(s) PROVE UNCHANGED wire
  BY <1>7, Zenon DEF Closed, chanVars
<1>8. CASE EndPoll \/ EndClosing \/ UNCHANGED vars
  <2>1. UNCHANGED wire
    BY <1>8, Zenon DEF EndPoll, EndClosing, vars, chanVars
  <2> QED
    BY <1>1, <2>1, Zenon
<1> QED
  BY <1>1, <1>2, <1>3, <1>4, <1>5, <1>6, <1>7, <1>8, Zenon DEF Next

LEMMA Invariant == Spec => []IInv
  BY InitHolds, Step, PTL DEF Spec

-----------------------------------------------------------------------------
(* The order of callbacks.                                                 *)

\* The callbacks of one connection, in order.
InOrder(l) ==
    \A k \in DOMAIN l :
        /\ l[k] = "connect" => k = 1
        /\ l[k] = "data" => l[1] = "connect"
        /\ l[k] = "error" => k = Len(l)

\* What the application was told of an open connection follows from its handle.
OpenLog(l, h) ==
    IF h = "websocket"
    THEN l # <<>> /\ l[1] = "connect" /\ \A k \in 2 .. Len(l) : l[k] = "data"
    ELSE l = <<>>

Told ==
    \A s \in Sessions :
        /\ conn[s] \in {"unborn", "refused"} => hd[s] = "none" /\ log[s] = <<>>
        /\ conn[s] = "open" => OpenLog(log[s], hd[s])
        /\ InOrder(log[s])

\* One more callback.
LEMMA LogGrows ==
    ASSUME NEW l \in Seq(Events), NEW h \in {"none", "fresh", "websocket"}, OpenLog(l, h)
    PROVE  /\ InOrder(l) /\ InOrder(l \o <<"error">>) /\ InOrder(l \o <<>>)
           /\ h # "websocket" => OpenLog(l \o <<"connect">>, "websocket")
           /\ h = "websocket" => OpenLog(l \o <<"data">>, "websocket")
<1>1. CASE h = "websocket"
  <2>1. /\ Len(l) \in Nat /\ Len(l) >= 1 /\ l[1] = "connect" /\ DOMAIN l = 1 .. Len(l)
        /\ \A k \in 2 .. Len(l) : l[k] = "data"
    BY <1>1 DEF OpenLog
  <2>2. ASSUME NEW e PROVE /\ Len(l \o <<e>>) = Len(l) + 1
                           /\ DOMAIN (l \o <<e>>) = 1 .. Len(l) + 1
                           /\ \A k \in 1 .. Len(l) : (l \o <<e>>)[k] = l[k]
                           /\ (l \o <<e>>)[Len(l) + 1] = e
    OBVIOUS
  <2>3. InOrder(l)
    BY <2>1 DEF InOrder
  <2>4. InOrder(l \o <<"error">>)
    BY <2>1, <2>2 DEF InOrder
  <2>5. l \o <<>> = l
    OBVIOUS
  <2>6. OpenLog(l \o <<"data">>, "websocket")
    BY <2>1, <2>2 DEF OpenLog
  <2> QED
    BY <1>1, <2>3, <2>4, <2>5, <2>6
<1>2. CASE h # "websocket"
  BY <1>2 DEF OpenLog, InOrder
<1> QED
  BY <1>1, <1>2

\* An open connection's log keeps to the order whatever comes next.
LEMMA ToldStep == IInv /\ Told /\ [Next]_vars => Told'
<1> SUFFICES ASSUME IInv, Told, [Next]_vars PROVE Told'
  OBVIOUS
<1>1. ASSUME UNCHANGED <<conn, hd, log>> PROVE Told'
  BY <1>1, Zenon DEF Told
\* A read of connection s tells nothing, or e.
<1>2. ASSUME NEW s \in Sessions, NEW e, log' = [log EXCEPT ![s] = @ \o e], InOrder(log[s] \o e),
             conn'[s] \in {"open", "closing"},
             conn'[s] = "open" => OpenLog(log[s] \o e, hd'[s]),
             \A r \in Sessions \ {s} : conn'[r] = conn[r] /\ hd'[r] = hd[r]
      PROVE  Told'
  <2>1. log'[s] = log[s] \o e /\ \A r \in Sessions \ {s} : log'[r] = log[r]
    BY <1>2 DEF IInv, ConnTypes
  <2> QED
    BY <1>2, <2>1, Zenon DEF Told
<1>3. ASSUME NEW s \in Sessions, NEW b \in BOOLEAN,
             Request(s) \/ NoRequest(s) \/ Message(s) \/ Ping(s) \/ CloseFrame(s, b) \/ BadFrame(s, b) \/ Hangup(s, b)
      PROVE  Told'
  <2>1. /\ conn[s] = "open" /\ log[s] \in Seq(Events) /\ hd[s] \in {"none", "fresh", "websocket"}
        /\ OpenLog(log[s], hd[s])
    BY <1>3 DEF Told, IInv, ConnTypes, Reading, Read, Request, NoRequest, Message, Ping, CloseFrame, BadFrame, Hangup
  <2>2. /\ InOrder(log[s]) /\ InOrder(log[s] \o <<"error">>) /\ InOrder(log[s] \o <<>>)
        /\ hd[s] # "websocket" => OpenLog(log[s] \o <<"connect">>, "websocket")
        /\ hd[s] = "websocket" => OpenLog(log[s] \o <<"data">>, "websocket")
    BY <2>1, LogGrows
  <2>3. ASSUME NEW l \in Seq(Events), OpenLog(l, "websocket") PROVE InOrder(l)
    BY <2>3, LogGrows
  <2>4. CASE Request(s)
    <3>1. /\ UNCHANGED conn /\ hd' = [hd EXCEPT ![s] = "websocket"] /\ hd[s] # "websocket"
          /\ log' = [log EXCEPT ![s] = @ \o <<"connect">>]
      BY <2>4, Zenon DEF Request, Handle, Log
    <3>2. hd'[s] = "websocket" /\ \A r \in Sessions \ {s} : hd'[r] = hd[r]
      BY <3>1 DEF IInv, ConnTypes
    <3>3. log[s] \o <<"connect">> \in Seq(Events)
      BY <2>1 DEF Events
    <3> QED
      BY <1>2, <2>1, <2>2, <2>3, <3>1, <3>2, <3>3
  <2>5. CASE NoRequest(s)
    <3>1. CloseClient(s) /\ UNCHANGED log /\ hd' = [hd EXCEPT ![s] = "fresh"]
      BY <2>5, Zenon DEF NoRequest, Handle
    <3>2. /\ conn'[s] = "closing" /\ \A r \in Sessions \ {s} : conn'[r] = conn[r] /\ hd'[r] = hd[r]
      BY <3>1 DEF CloseClient, IInv, ConnTypes
    <3> QED
      BY <3>1, <3>2, Zenon DEF Told
  <2>6. CASE Message(s)
    <3>1. UNCHANGED <<conn, hd>> /\ hd[s] = "websocket" /\ log' = [log EXCEPT ![s] = @ \o <<"data">>]
      BY <2>6, Zenon DEF Message, Log
    <3>2. log[s] \o <<"data">> \in Seq(Events)
      BY <2>1 DEF Events
    <3> QED
      BY <1>2, <2>1, <2>2, <2>3, <3>1, <3>2
  <2>7. CASE Ping(s)
    BY <1>1, <2>7, Zenon DEF Ping
  <2>8. CASE CloseFrame(s, b) \/ BadFrame(s, b)
    <3>1. /\ CloseClient(s) /\ UNCHANGED hd /\ hd[s] = "websocket"
          /\ log' = [log EXCEPT ![s] = @ \o IF b THEN <<"data">> ELSE <<>>]
      BY <2>8, Zenon DEF CloseFrame, BadFrame, Log
    <3>2. conn'[s] = "closing" /\ \A r \in Sessions \ {s} : conn'[r] = conn[r] /\ hd'[r] = hd[r]
      BY <3>1 DEF CloseClient, IInv, ConnTypes
    <3>3. log[s] \o <<"data">> \in Seq(Events)
      BY <2>1 DEF Events
    <3>4. InOrder(log[s] \o IF b THEN <<"data">> ELSE <<>>)
      BY <2>2, <2>3, <3>1, <3>3, Zenon
    <3>5. PICK e : e = IF b THEN <<"data">> ELSE <<>>
      OBVIOUS
    <3>6. log' = [log EXCEPT ![s] = @ \o e] /\ InOrder(log[s] \o e)
      BY <3>1, <3>4, <3>5, Zenon
    <3> QED
      BY <1>2, <2>1, <3>2, <3>6
  <2>9. CASE Hangup(s, b)
    <3>1. /\ CloseClient(s) /\ log' = [log EXCEPT ![s] = @ \o IF b THEN <<"error">> ELSE <<>>]
          /\ hd' = [hd EXCEPT ![s] = IF hd[s] = "none" THEN "fresh" ELSE hd[s]]
      BY <2>9, Zenon DEF Hangup, Log, Handle
    <3>2. conn'[s] = "closing" /\ \A r \in Sessions \ {s} : conn'[r] = conn[r] /\ hd'[r] = hd[r]
      BY <3>1 DEF CloseClient, IInv, ConnTypes
    <3>3. InOrder(log[s] \o IF b THEN <<"error">> ELSE <<>>)
      BY <2>2, Zenon
    <3>5. PICK e : e = IF b THEN <<"error">> ELSE <<>>
      OBVIOUS
    <3>6. log' = [log EXCEPT ![s] = @ \o e] /\ InOrder(log[s] \o e)
      BY <3>1, <3>3, <3>5, Zenon
    <3> QED
      BY <1>2, <2>1, <3>2, <3>6
  <2> QED
    BY <1>3, <2>4, <2>5, <2>6, <2>7, <2>8, <2>9, Zenon
<1>4. ASSUME NEW a \in Addrs, NEW accepted \in BOOLEAN, Accept(a, accepted) PROVE Told'
  <2>1. PICK s \in Sessions : /\ conn[s] = "unborn"
                              /\ conn' = [conn EXCEPT ![s] = IF accepted THEN "open" ELSE "refused"]
    BY <1>4, Zenon DEF Accept
  <2>2. /\ conn'[s] \in {"open", "refused"} /\ hd'[s] = "none" /\ log'[s] = <<>>
        /\ \A r \in Sessions \ {s} : conn'[r] = conn[r]
        /\ UNCHANGED <<hd, log>>
    BY <1>4, <2>1 DEF Accept, Told, IInv, ConnTypes
  <2>3. OpenLog(<<>>, "none")
    BY Zenon DEF OpenLog
  <2> QED
    BY <2>2, <2>3, Zenon DEF Told
<1>5. ASSUME NEW s \in Sessions, Closed(s) PROVE Told'
  <2>1. /\ conn'[s] \in {"stuck", "gone"} /\ \A r \in Sessions \ {s} : conn'[r] = conn[r]
        /\ UNCHANGED <<hd, log>>
    BY <1>5 DEF Closed, IInv, ConnTypes
  <2> QED
    BY <2>1 DEF Told
<1>6. ASSUME NEW d \in queued, Deliver(d) PROVE Told'
  BY <1>1, <1>6, Zenon DEF Deliver, connVars
<1>7. ASSUME NEW t \in Apps, AppCheck(t) \/ AppStore(t) PROVE Told'
  BY <1>1, <1>7, Zenon DEF AppCheck, AppStore, connVars
<1>8. CASE EndPoll \/ EndClosing \/ UNCHANGED vars
  BY <1>1, <1>8, Zenon DEF EndPoll, EndClosing, vars, connVars
<1> QED
  BY <1>3, <1>4, <1>5, <1>6, <1>7, <1>8, Zenon DEF Next

-----------------------------------------------------------------------------
(* The results.                                                            *)

\* Type correctness, for any numbers of addresses, connections, threads and asyncs.
THEOREM ServerTypes == Spec => []TypeOK
<1>1. IInv => TypeOK
  BY TypesAgree, Zenon DEF IInv
<1> QED
  BY <1>1, Invariant, PTL

\* The registry holds exactly the addresses of live connections, through every close
\* and every reuse of an address (uvutil.cpp:43-62, CWSServer.cpp:220-230).
THEOREM RegistryIsExact == Spec => []RegistryExact
<1>1. IInv => RegistryExact
  BY Zenon DEF IInv, Links
<1> QED
  BY <1>1, Invariant, PTL

\* uv_write is only given handles that are open, whatever application threads do
\* between their check and their store (CAsyncs.cpp:40-59).
THEOREM NothingWrittenToClosed == Spec => WrittenToOpen
<1>1. IInv /\ [Next]_vars =>
        [\A d \in Data : d \in queued /\ Len(wire'[d.addr]) > Len(wire[d.addr])
              => \E s \in Owner(d.addr) : conn[s] = "open"]_vars
  BY WriteStep, Zenon
<1> QED
  BY <1>1, Invariant, PTL DEF Spec, WrittenToOpen

\* The application hears of a connection in order, onConnect first and nothing after
\* onError, in any order of the events of any number of connections
\* (CWSServer.cpp:146-192).
THEOREM CallbacksInOrder == Spec => []CallbackOrder
<1>1. Init => Told
  BY DEF Init, Told, OpenLog, InOrder
<1>2. Told => CallbackOrder
  BY Zenon DEF Told, InOrder, CallbackOrder
<1> QED
  BY <1>1, <1>2, ToldStep, Invariant, PTL DEF Spec
=============================================================================
