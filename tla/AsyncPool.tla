------------------------------ MODULE AsyncPool ------------------------------
(***************************************************************************)
(* The pool of uv_async_t objects of arc::CAsyncs, and the part of libuv   *)
(* that dispatches them.                                                   *)
(*                                                                         *)
(* A sender (an application thread, or a callback of the loop thread)      *)
(* takes one async, or a batch of asyncs with ascending ids, from the head *)
(* of m_asyncQueue under m_mutexLock; then, outside the lock, it stores a  *)
(* send context in async->data, raises async->pending and writes the       *)
(* loop's eventfd.  The loop thread drains the eventfd, visits every async *)
(* in initialisation order, and for each pending one runs                  *)
(* async_send_callback, which hands the data to uv_write and sets          *)
(* async->data to NULL: that NULL is what marks the async as free.         *)
(*                                                                         *)
(* A step here is one access to state that two threads share.              *)
(***************************************************************************)
EXTENDS Integers, Sequences, FiniteSets

CONSTANTS
    Size,        \* m_size, the number of asyncs of the pool
    Senders,     \* the threads that call the send operations
    LoopSenders, \* those of them that run inside callbacks of the loop thread
    NoSender,    \* m_mutexLock is free
    Peers,       \* connections (uv_stream_t *)
    NoCtx,       \* async->data == NULL
    MaxParts,    \* bound: split_result.split_count
    MaxCalls     \* bound: send calls per sender

ASSUME PoolAssumption ==
    /\ Size \in Nat \ {0}
    /\ MaxParts \in Nat \ {0}
    /\ MaxCalls \in Nat
    /\ LoopSenders \subseteq Senders
    /\ NoSender \notin Senders

Ids == 0 .. Size - 1

\* What the context of one part of one send call carries.
Ctx == [from : Senders, call : 1 .. MaxCalls, part : 1 .. MaxParts, peer : Peers]

ASSUME NoCtxAssumption == NoCtx \notin Ctx

VARIABLES
    queue,    \* m_asyncQueue, as the sequence of AsyncContext.id
    lock,     \* the holder of m_mutexLock while acquireManyUvAsync searches
    data,     \* async.data: the context, or NoCtx
    pending,  \* uv_async_t.pending
    wakeup,   \* the loop's eventfd is readable
    loopPc,   \* what the loop thread does
    cursor,   \* the async that uv__async_io visits
    conn,     \* "open", "closing" (uv_close called) or "gone" (unregistered)
    pc,       \* where each sender is in its call
    call,     \* how many calls each sender has begun
    peer,     \* the connection the call sends to
    num,      \* split_count of the call
    tried,    \* beginPos of acquireManyUvAsync
    held,     \* the asyncs the call acquired
    part,     \* the part being sent
    wire,     \* per connection, what was handed to uv_write, in order
    freed,    \* contexts whose data async_send_callback freed
    leaked    \* contexts whose data nobody frees (uv_write refused them)

poolVars   == <<queue, lock>>
senderVars == <<pc, call, peer, num, tried, held, part>>
outVars    == <<wire, freed, leaked>>
vars == <<poolVars, data, pending, wakeup, loopPc, cursor, conn, senderVars, outVars>>

Registered(p) == conn[p] # "gone"          \* CChecker::checkConnection

Init ==
    /\ queue = [k \in 1 .. Size |-> k - 1]
    /\ lock = NoSender
    /\ data = [i \in Ids |-> NoCtx]
    /\ pending = [i \in Ids |-> FALSE]
    /\ wakeup = FALSE
    /\ loopPc = "poll" /\ cursor = 0
    /\ conn = [p \in Peers |-> "open"]
    /\ pc = [s \in Senders |-> "idle"]
    /\ call = [s \in Senders |-> 0]
    /\ peer \in [Senders -> Peers]
    /\ num = [s \in Senders |-> 1]
    /\ tried = [s \in Senders |-> 0]
    /\ held = [s \in Senders |-> <<>>]
    /\ part = [s \in Senders |-> 1]
    /\ wire = [p \in Peers |-> <<>>]
    /\ freed = {} /\ leaked = {}

-----------------------------------------------------------------------------
(* The senders.                                                            *)

Goto(s, label) == pc' = [pc EXCEPT ![s] = label]

\* (Operators named X_slip are plausible slips in X.  No behaviour of the
\* specification uses them: each is there to show that some property would
\* notice it.)

Rotated_reversed(k) == SubSeq(queue, k + 1, Len(queue)) \o [j \in 1 .. k |-> queue[k + 1 - j]]

\* k elements move from the head of the deque to its tail (pop_front, push_back).
Rotated(k) == SubSeq(queue, k + 1, Len(queue)) \o SubSeq(queue, 1, k)

\* A send call whose connection check succeeds; one that fails returns false
\* and changes nothing.  "one" is a call without a split function, "many" one
\* with it.  A callback of the loop thread runs only between two scans.
Call(s, p, n, route) ==
    /\ pc[s] = "idle" /\ call[s] < MaxCalls
    /\ s \in LoopSenders => loopPc = "poll"
    /\ Registered(p)
    /\ route = "one" => n = 1
    /\ call' = [call EXCEPT ![s] = @ + 1]
    /\ peer' = [peer EXCEPT ![s] = p]
    /\ num' = [num EXCEPT ![s] = n]
    /\ Goto(s, route)
    /\ UNCHANGED <<poolVars, data, pending, wakeup, loopPc, cursor, conn,
                   tried, held, part, outVars>>

Granted(s, k) ==
    /\ held' = [held EXCEPT ![s] = SubSeq(queue, 1, k)]
    /\ part' = [part EXCEPT ![s] = 1]
    /\ queue' = Rotated(k)
    /\ Goto(s, "check")

Refused_retried(s) == UNCHANGED <<pc, queue, held, part>>

Refused(s) == Goto(s, "idle") /\ UNCHANGED <<queue, held, part>>

HeadFree_unchecked == TRUE
HeadFree == data[queue[1]] = NoCtx

\* acquireOneUvAsync looks at the head of the deque only.
AcquireOne(s) ==
    /\ pc[s] = "one" /\ lock = NoSender
    /\ IF HeadFree THEN Granted(s, 1) ELSE Refused(s)
    /\ UNCHANGED <<lock, data, pending, wakeup, loopPc, cursor, conn,
                   call, peer, num, tried, outVars>>

\* acquireManyUvAsync: lock, the size check and the start of the search.
BeginSearch(s) ==
    /\ pc[s] = "many" /\ lock = NoSender
    /\ tried' = [tried EXCEPT ![s] = 0]
    /\ IF num[s] > Size
       THEN Goto(s, "idle") /\ UNCHANGED lock
       ELSE Goto(s, "search") /\ lock' = s
    /\ UNCHANGED <<queue, data, pending, wakeup, loopPc, cursor, conn,
                   call, peer, num, held, part, outVars>>

BatchAtHead_anyOrder(n) == \A k \in 1 .. n : data[queue[k]] = NoCtx

\* The first n asyncs of the deque are free and their ids ascend.
BatchAtHead(n) ==
    /\ \A k \in 1 .. n : data[queue[k]] = NoCtx
    /\ \A k \in 1 .. n - 1 : queue[k] <= queue[k + 1]

MaxPos == Size - 1

NextTry(s) == tried' = [tried EXCEPT ![s] = @ + 1]

\* One round of the search loop: take the batch, or rotate by one, or give up.
Search(s) ==
    /\ pc[s] = "search"
    /\ \/ /\ tried[s] + num[s] <= MaxPos
          /\ BatchAtHead(num[s])
          /\ Granted(s, num[s])
          /\ lock' = NoSender
          /\ UNCHANGED tried
       \/ /\ tried[s] + num[s] <= MaxPos
          /\ ~ BatchAtHead(num[s])
          /\ queue' = Rotated(1)
          /\ NextTry(s)
          /\ UNCHANGED <<lock, pc, held, part>>
       \/ /\ tried[s] + num[s] > MaxPos
          /\ Refused(s)
          /\ lock' = NoSender
          /\ UNCHANGED tried
    /\ UNCHANGED <<data, pending, wakeup, loopPc, cursor, conn, call, peer, num, outVars>>

Current(s) == held[s][part[s]]

\* sendDataWithAsync checks the connection again, with the async in hand.  On
\* failure the call ends: the parts already queued stay queued.
Check(s) ==
    /\ pc[s] = "check"
    /\ IF Registered(peer[s]) THEN Goto(s, "store") ELSE Goto(s, "idle")
    /\ UNCHANGED <<poolVars, data, pending, wakeup, loopPc, cursor, conn,
                   call, peer, num, tried, held, part, outVars>>

CurrentCtx(s) == [from |-> s, call |-> call[s], part |-> part[s], peer |-> peer[s]]

\* async->data = ctx, without the lock.
Store(s) ==
    /\ pc[s] = "store"
    /\ data' = [data EXCEPT ![Current(s)] = CurrentCtx(s)]
    /\ Goto(s, "flag")
    /\ UNCHANGED <<poolVars, pending, wakeup, loopPc, cursor, conn,
                   call, peer, num, tried, held, part, outVars>>

\* The loop over the parts goes on, or the call returns true.
NextPart(s) ==
    IF part[s] < Len(held[s])
    THEN part' = [part EXCEPT ![s] = @ + 1] /\ Goto(s, "check")
    ELSE Goto(s, "idle") /\ UNCHANGED part

Flag_noWakeInScan(s) ==
    /\ pc[s] = "flag"
    /\ pending' = [pending EXCEPT ![Current(s)] = TRUE]
    /\ IF pending[Current(s)] \/ loopPc # "poll"
       THEN NextPart(s)
       ELSE Goto(s, "wake") /\ UNCHANGED part
    /\ UNCHANGED <<poolVars, data, wakeup, loopPc, cursor, conn,
                   call, peer, num, tried, held, outVars>>

\* uv_async_send: the compare-and-exchange of pending, then uv__async_send.
Flag(s) ==
    /\ pc[s] = "flag"
    /\ \/ pending[Current(s)] /\ NextPart(s) /\ UNCHANGED pending
       \/ /\ ~ pending[Current(s)]
          /\ pending' = [pending EXCEPT ![Current(s)] = TRUE]
          /\ Goto(s, "wake")
          /\ UNCHANGED part
    /\ UNCHANGED <<poolVars, data, wakeup, loopPc, cursor, conn,
                   call, peer, num, tried, held, outVars>>

\* The write to the eventfd, which adds a value that is not zero.
Wake(s) ==
    /\ pc[s] = "wake"
    /\ wakeup' = TRUE
    /\ NextPart(s)
    /\ UNCHANGED <<poolVars, data, pending, loopPc, cursor, conn,
                   call, peer, num, tried, held, outVars>>

-----------------------------------------------------------------------------
(* The loop thread.  Its own callbacks and its scans exclude each other.   *)

InCallback == \E s \in LoopSenders : pc[s] # "idle"

\* The eventfd is readable: uv__async_io drains it, then starts the scan.
Drain ==
    /\ loopPc = "poll" /\ wakeup /\ ~ InCallback
    /\ wakeup' = FALSE
    /\ loopPc' = "scan" /\ cursor' = 0
    /\ UNCHANGED <<poolVars, data, pending, conn, senderVars, outVars>>

Advance_noWrap == loopPc' = "scan" /\ cursor' = cursor + 1

\* The visit of the async under the cursor ends.
Advance ==
    IF cursor = Size - 1
    THEN loopPc' = "poll" /\ cursor' = 0
    ELSE loopPc' = "scan" /\ cursor' = cursor + 1

\* The compare-and-exchange of uv__async_io on the async under the cursor.
Visit ==
    /\ loopPc = "scan"
    /\ \/ /\ pending[cursor]
          /\ pending' = [pending EXCEPT ![cursor] = FALSE]
          /\ loopPc' = "deliver" /\ UNCHANGED cursor
       \/ ~ pending[cursor] /\ Advance /\ UNCHANGED pending
    /\ UNCHANGED <<poolVars, data, wakeup, conn, senderVars, outVars>>

\* send_data_impl frees the data of an unregistered connection; uv_write refuses
\* a closing one, and its result is ignored.
Dispose(ctx) ==
    \/ /\ conn[ctx.peer] = "open"
       /\ wire' = [wire EXCEPT ![ctx.peer] = Append(@, ctx)]
       /\ UNCHANGED <<freed, leaked>>
    \/ /\ conn[ctx.peer] = "closing"
       /\ leaked' = leaked \cup {ctx}
       /\ UNCHANGED <<wire, freed>>
    \/ /\ conn[ctx.peer] = "gone"
       /\ freed' = freed \cup {ctx}
       /\ UNCHANGED <<wire, leaked>>

Deliver_failedKept ==
    /\ loopPc = "deliver"
    /\ LET ctx == data[cursor] IN
       IF ctx = NoCtx THEN Advance /\ UNCHANGED outVars
       ELSE /\ Dispose(ctx)
            /\ IF conn[ctx.peer] = "gone" THEN Advance
               ELSE loopPc' = "release" /\ UNCHANGED cursor
    /\ UNCHANGED <<poolVars, data, pending, wakeup, conn, senderVars>>

\* async_send_callback up to and including uv_write.
Deliver ==
    /\ loopPc = "deliver"
    /\ LET ctx == data[cursor] IN
       \/ ctx = NoCtx /\ Advance /\ UNCHANGED outVars
       \/ ctx # NoCtx /\ Dispose(ctx) /\ loopPc' = "release" /\ UNCHANGED cursor
    /\ UNCHANGED <<poolVars, data, pending, wakeup, conn, senderVars>>

Release_dataKept ==
    /\ loopPc = "release"
    /\ Advance
    /\ UNCHANGED <<poolVars, data, pending, wakeup, conn, senderVars, outVars>>

\* handle->data = NULL: the async is free again.
Release ==
    /\ loopPc = "release"
    /\ data' = [data EXCEPT ![cursor] = NoCtx]
    /\ Advance
    /\ UNCHANGED <<poolVars, pending, wakeup, conn, senderVars, outVars>>

\* tw_close_client, and after_uv_close_client at the end of a loop iteration.
Close(p) ==
    /\ loopPc = "poll" /\ ~ InCallback
    /\ \/ conn[p] = "open" /\ conn' = [conn EXCEPT ![p] = "closing"]
       \/ conn[p] = "closing" /\ conn' = [conn EXCEPT ![p] = "gone"]
    /\ UNCHANGED <<poolVars, data, pending, wakeup, loopPc, cursor, senderVars, outVars>>

-----------------------------------------------------------------------------
Send(s) ==
    \/ AcquireOne(s) \/ BeginSearch(s) \/ Search(s)
    \/ Check(s) \/ Store(s) \/ Flag(s) \/ Wake(s)

Loop == Drain \/ Visit \/ Deliver \/ Release

Next ==
    \/ \E s \in Senders :
        \/ \E p \in Peers, n \in 1 .. MaxParts, route \in {"one", "many"} :
              Call(s, p, n, route)
        \/ Send(s)
    \/ Loop
    \/ \E p \in Peers : Close(p)

Spec == Init /\ [][Next]_vars

\* A thread inside a call keeps running, and so does the loop.  Nothing obliges
\* an application to call, or a connection to close.
Fairness == WF_vars(Loop) /\ \A s \in Senders : WF_vars(Send(s))

FairSpec == Spec /\ Fairness

-----------------------------------------------------------------------------
(* Properties.                                                             *)

Labels == {"idle", "one", "many", "search", "check", "store", "flag", "wake"}

\* The type invariant.
TypeOK ==
    /\ queue \in [1 .. Size -> Ids]
    /\ lock \in Senders \cup {NoSender}
    /\ data \in [Ids -> Ctx \cup {NoCtx}]
    /\ pending \in [Ids -> BOOLEAN]
    /\ wakeup \in BOOLEAN
    /\ loopPc \in {"poll", "scan", "deliver", "release"}
    /\ cursor \in Ids
    /\ conn \in [Peers -> {"open", "closing", "gone"}]
    /\ pc \in [Senders -> Labels]
    /\ call \in [Senders -> 0 .. MaxCalls]
    /\ peer \in [Senders -> Peers]
    /\ num \in [Senders -> 1 .. MaxParts]
    /\ tried \in [Senders -> 0 .. Size]
    /\ held \in [Senders -> Seq(Ids)]
    /\ part \in [Senders -> 1 .. MaxParts]
    /\ wire \in [Peers -> Seq(Ctx)]
    /\ freed \subseteq Ctx
    /\ leaked \subseteq Ctx

Sending(s) == pc[s] \in {"check", "store", "flag", "wake"}

\* The deque is always a rotation of the ids in initialisation order, whatever
\* mix of single and batch acquisitions moved it (CAsyncs.cpp:135-136, 179-181,
\* 190-194): an id is never lost, doubled or overtaken.
After(i, k) == IF i + k < Size THEN i + k ELSE i + k - Size

Rotation == \A k \in 1 .. Size : queue[k] = After(queue[1], k - 1)

\* The asyncs of one split message have consecutive ids: the batch never wraps
\* from the last id to the first, although the code only asks that the ids do
\* not descend (CAsyncs.cpp:172).
BatchConsecutive ==
    \A s \in Senders : Sending(s) =>
        \A k \in 1 .. Len(held[s]) : held[s][k] = held[s][1] + k - 1

\* No wake-up is lost: a pending async will be visited by the scan under way,
\* or the eventfd is readable, or its sender is about to write it
\* (uv__async_io drains the eventfd before it scans, async.c:87-111).
NoLostWakeup ==
    \A i \in Ids : pending[i] =>
        \/ wakeup
        \/ \E s \in Senders : pc[s] = "wake"
        \/ loopPc = "scan" /\ cursor <= i
        \/ loopPc \in {"deliver", "release"} /\ cursor < i

\* No slot is stranded: an async that is taken (data # NULL) has a dispatch to
\* come that frees it, so the pool cannot shrink (CAsyncs.cpp:235-236, 80), even
\* when two threads were given the same async.
NoStrandedSlot ==
    \A i \in Ids : data[i] # NoCtx =>
        \/ pending[i]
        \/ \E s \in Senders : pc[s] = "flag" /\ Current(s) = i
        \/ loopPc \in {"deliver", "release"} /\ cursor = i

\* Nothing is handed to uv_write twice.
WrittenOnce ==
    \A p \in Peers : \A j, k \in DOMAIN wire[p] :
        wire[p][j] = wire[p][k] => j = k

\* The pool implements the abstract channel: every accepted context leaves it
\* exactly once, to its own connection or to the discarded ones.
Channel == INSTANCE SendChannel WITH
    Data <- Ctx,
    PeerOf <- LAMBDA ctx : ctx.peer,
    queued <- {data[i] : i \in IF loopPc = "release" THEN Ids \ {cursor} ELSE Ids} \ {NoCtx},
    discarded <- freed \cup leaked

ImplementsChannel == Channel!Spec

\* The parts of one message reach uv_write in order ("初始化在前的先执行",
\* CAsyncs.cpp:147-151).
InOrder(senders) ==
    \A p \in Peers : \A j, k \in DOMAIN wire[p] :
        /\ wire[p][j].from \in senders
        /\ wire[p][j].from = wire[p][k].from
        /\ wire[p][j].call = wire[p][k].call
        /\ wire[p][j].part < wire[p][k].part
        => j < k

PartsInOrder == InOrder(Senders)

\* They do for messages sent by callbacks of the loop thread, whatever other
\* threads do to the pool at the same time.
LoopPartsInOrder == InOrder(LoopSenders)

\* Every async that is taken becomes free again.
SlotsReturn == \A i \in Ids : data[i] # NoCtx ~> data[i] = NoCtx

\* Every send call returns.
CallsReturn == \A s \in Senders : pc[s] # "idle" ~> pc[s] = "idle"
=============================================================================
