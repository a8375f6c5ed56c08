# A formal model of aNotherWS (`uvws`)

aNotherWS is a C++ WebSocket server and client library on top of libuv.  This
directory holds TLA+ modules translated from its code, TLC configurations that
check them on small instances, and proofs that TLAPS checks.  Paths in this text
are relative to the root of the repository.

## 1. The system

One thread, the *loop thread* (`CThread`), runs `uv_run` on one loop (`CLoop`).
Everything that touches a connection happens there, in callbacks.  Applications
send from any thread: a send stores a context in one of a pool of `uv_async_t`
objects (`CAsyncs`) and raises it, and the loop thread does the `uv_write`.

| Component | Files (`src/ws/`, `include/ws/`) | State | Operations |
|---|---|---|---|
| Async pool | `CAsyncs` | the deque of asyncs, each `async.data`, libuv's `pending` flag and eventfd | acquire one, acquire many, send data, send message, send split message, async callback |
| Registry | `CChecker` | the set of valid `uv_stream_t *`, under a mutex | register, unregister, check |
| Close path | `uvutil` | `uv_stream_t.data` (the `websocket_handle`) | `tw_close_client`, `after_uv_close_client`, `parse_http_heads` |
| Server | `CWSServer` | the listening stream, accepted connections | connection, read (handshake, frames), close, startup, shutdown |
| Client | `CWSClient` | `m_WSClientStatus`, heartbeat timer, reconnect timer, the one `uv_tcp_t` | connect, handshake, read, reconnect, heartbeat, shutdown |
| Frame codec | `wsutil` | `protoBuf`, `mergeBuf`, parse state, mask, payload length | generate frames, incremental parse, merge of fragments, handshake key |
| Byte buffer | `membuf` | data, size, capacity, flag | reserve, append, insert, remove, clear |
| Loop and thread | `CLoop`, `CThread` | `m_bRunnig`, the stop async | run, stop, join |
| Tasks | `CTask` | the loop's list of requests, libuv's queue of work and its threads, the finished requests | post, work callback, after-work callback, startup, shutdown |
| Utilities | `common`, `encode`, `sha1`, `CLock`, `CSingleton` | none | split sizes, byte order, base64, SHA-1 |
| Vendored | `deps/libuv`, `deps/simplelog` | | modelled only where `src/ws` depends on its detail |

Who calls whom: `CWSServer`/`CWSClient` callbacks (loop thread) use the codec on
incoming bytes and the pool to answer (handshake, pong, echo); an application
thread uses the pool; the pool's callback consults the registry and calls
`uv_write`; the close path updates the registry.  Shared between threads are the
pool's deque (mutex), `async.data` and `pending` (no lock), the registry (mutex)
and, without any protection, `m_bRunnig`, the client's status and `loop->active_reqs`.

### What is hard in it

- A send is five accesses to shared state by one thread, against a scan by
  another that takes as many (`CAsyncs.cpp:126-238`, `async.c:59-154`).
- A connection is identified by its address, which the allocator (server) or the
  embedding object (client) reuses after a close.
- A close takes two loop phases, and sends keep arriving in between.
- A frame may be cut at any byte by TCP, and two frames may share a read.
- The client drives a small state machine by reads, timers and a connect
  callback that can arrive in many orders.
- Start, stop and destruction are called from a thread that is not the loop's.

### What makes each component correct

| Component | It is correct when |
|---|---|
| Async pool | what a successful send accepted leaves the pool exactly once, and eventually; a context is not overwritten; no async stays taken; no wake-up is lost; the parts of a split message keep their order |
| Registry, close path | the registry holds exactly the live connections, so that a checked pointer may be used; nothing is written to a dead handle; every closed connection is freed |
| Server | callbacks of a connection come in order (`onConnect`, then data, nothing after an error); data reaches the connection it was meant for |
| Client | one attempt at a time on the one `uv_tcp_t`; the handshake comes first and is the handshake of this connection; a lost connection is tried again |
| Frame codec and reader | payloads arrive byte for byte, once, in order, whatever the cuts; each ping is answered; only a close frame or an impossible length closes; each read is worked off |
| Loop and thread | `stop` ends the loop; nothing is freed under it; what was accepted before is still written |
| Tasks | each posted task runs once and then its after-work callback, in the loop's thread |
| Byte buffer, split sizes | the bytes are those of a sequence; the parts are positive and add up to the whole |

## 2. Modules

| Module | Models | Instances, proofs |
|---|---|---|
| `SendChannel` | what the pool promises (abstract) | |
| `AsyncPool` | `CAsyncs.cpp`, `uv_async_send` and `uv__async_io` | `MCAsyncPool`, `AsyncPool_proofs` |
| `FrameCodec` | the generator and the parser of `wsutil.cpp`, as operators on byte sequences | |
| `FrameStream` | one direction of a connection: a peer, the split into parts, the byte stream, `on_read_websocket`; extends `FrameCodec` | `MCFrameStream`, `FrameStream_proofs` |
| `ServerConnections` | `CWSServer` and `CChecker`; sends through an instance of `SendChannel` | `MCServerConnections`, `ServerConnections_proofs` |
| `ClientConnection` | `CWSClient`; sends through an instance of `SendChannel`; its server is `ServerConnections` seen from outside | `MCClientConnection`, `ClientConnection_proofs` |
| `LoopLifecycle` | `CLoop`, startup, shutdown and the destructors | `LoopLifecycle_proofs` |
| `TaskManager` | `CTask.cpp` and libuv's `threadpool.c`: posting, the threads, the way back to the loop; extends `LoopLifecycle` | `MCTaskManager`, `TaskManager_proofs` |
| `ByteString` | what a `membuf_t` is to its users (abstract) | |
| `Membuf` | every function of `membuf.cpp` | `Membuf_proofs` |
| `Sha1` | the buffering and padding of `sha1.cpp`, as operators on its context | |
| `Handshake` | the server's way from a request to its answer: `parse_http_heads`, `sha1_and_base64`, `base64_encode`; extends `Membuf` and `Sha1` | `MCHandshake`, `Handshake_proofs` |

How they compose:

- `AsyncPool` implements `SendChannel` (property `ImplementsChannel`: a context is
  *queued* while it is in `async.data` and not yet disposed of), and the server and
  the client are built on `SendChannel` instead of the pool's forty or so
  interleaved steps.  What the abstraction keeps of the pool is that a send may be
  refused once every async was used, and that nothing is promised about order.
- `TaskManager` extends `LoopLifecycle` and takes its steps as they are: the owner, the
  stop and the thread are those of any loop.  One run checks both: a loop either has a
  pool of asyncs, as a server or a client has, or tasks.
- `Membuf` implements `ByteString`, which is written from the comments of `membuf.h`, but
  for two calls that do otherwise (`ImplementsString` names them: `NotAppended`, a formatted
  text, and `Garbled`, an insertion that overlaps what it moves).  `Handshake` drives a
  membuf with the calls that `base64_encode` makes, or with any calls.
- `FrameStream` takes `protoBuf` and `mergeBuf` to be sequences, as `ByteString` says.

### Grain of the steps

- **AsyncPool.** One step is one access to state two threads share.  A send is
  *acquire* (under the mutex; the search for a batch is one step per round of its
  loop), *check*, *store* (`async->data = ctx`), *flag* (the compare-and-exchange
  of `pending`) and *wake* (the write to the eventfd).  The loop is *drain* (the
  read of the eventfd), one *visit* per async in initialisation order, *deliver*
  (the callback up to `uv_write`) and *release* (`handle->data = NULL`).  A sender
  in `LoopSenders` is a callback of the loop thread: it sends only between scans.
- **FrameStream.** A read delivers any prefix of the bytes under way; each turn of
  the `do ... while` of `on_read_websocket` is a step.  Bytes are numbers 0..255
  and masking is the exclusive or.  The limits 125, 65535 and 65520 are
  constants, so that all three length formats and fragmentation occur with a few
  bytes.  `split_ont_size_to_multi_parts` is a choice among all the results that its
  random draws can give; where no draw succeeds the sender's thread is lost (`SplitHangs`).
- **ServerConnections, ClientConnection.** A callback is one step, because the loop
  thread runs one at a time.  A send of an application thread is a check and, at
  any later time, a store.  `onConnectInternal` is two steps, because between the
  registration and the handshake other threads' sends pass the check.  Addresses
  are model values that a new connection may reuse.  Frames are events.  Whether a
  part of a response ends the handshake is a free choice: it depends on the cut and
  on what the client's read buffer held before.  A frame that cannot be parsed keeps the
  loop thread in `on_read_websocket` for ever (`BadFrame` of the server, `ReadRest` of the
  client): from then on only other threads take steps.  A request or a response that finds no
  free async is lost (`"unasked"`, `"lost"`), and a response without an accept key ends no
  handshake (`"missed"`).  A reconnect timer that runs out while a connect is under way
  makes its handle anew, and nothing is defined after that (`TimerBreaks`).
- **LoopLifecycle.** One step per access to `m_bRunnig`, `m_sendAsync` and the loop
  by the owner, the loop's thread and a sender.  `m_bRunnig` starts with any
  value, because the constructor does not set it.  The owner may stop or delete the loop
  at any time; `sleep(1)` is a step that waits for nobody.  A step of the loop's thread
  after the delete would be undefined, so there is none.
- **TaskManager.** The list `active_reqs` is the `next` and `prev` of each node, as in
  `queue.h`, and each write to it is a step (`Link`, `LinkNext`, `LinkPrev`;
  `Unlink`, `UnlinkPrev`), since nothing locks it.  Sections under libuv's mutexes
  (`Submit`, `Take`, `TakeDone`) are one step.  A scan of the asyncs visits `wq_async`
  first (`VisitWork`) and the async that stops the loop later (`VisitStop`), which is
  the order of their initialisation.  The owner may post while the loop runs, as
  `CTaskTest.cpp:35` does, and the two may be in the list at once; an empty list makes
  the assertion of `uv__req_unregister` abort the process (`UnlinkAborts`).  `CallAfter` and `FreeRequest` are apart: the
  after-callback may post a task in between.
- **Membuf.** A call is begun, makes room and is applied.  Each doubling of the capacity is
  a step, because the doubling of a 32 bit number need not end.  `Word` is the
  number of values of a `uint`.  The first of the two copies of `membuf_insert` may
  overlap, which `memcpy` does not allow: its result is one of two.
- **Handshake.** What is read of a request is a sequence of pieces, of which any
  prefix may have arrived.  The key is its length, the message to hash a sequence of
  bytes that differ (up to 255), the digest any of a set: the eighty rounds of SHA-1 are a
  function nobody looks into, but the blocks they are given are recorded.  Each byte
  of base64 is one append to the membuf.  Block, length and digest are constants, and so
  is the length of `akey`, the array in which key and suffix are put together: a key that
  does not fit ends the model (`"overflowed"`), because nothing is defined after that.

Operators with names like `Release_dataKept` are plausible slips in the operator
named before the underscore.  No specification uses them; substituting one shows
that a property notices the slip.

## 3. Runs

| Run | Checks | Bounds | Distinct states |
|---|---|---|---|
| `pool_app` | `TypeOK`, `SlotsReturn`, `CallsReturn`, `ImplementsChannel` | 3 asyncs, 1 thread, 3 calls of 1 to 4 parts, 1 connection that may close | 37 thousand |
| `pool_two` | `BatchConsecutive`, `NoLostWakeup`, `NoStrandedSlot`, `WrittenOnce`, `LoopPartsInOrder` | 3 asyncs, a thread and a callback sender, 2 calls each of 1 or 2 parts | 1.1 million |
| `pool_parts` | violates `PartsInOrder` | 1 thread, 2 calls, 2 connections | |
| `frames` | `TypeOK`, `Intact`, `Drained`, `ClosedOnRequest`, `ReadEnds` | 2 sends: own messages of 1, 2 or 5 bytes, whole or in 3 parts, own masked frames, foreign messages of 1 or 2 bytes, masked, whole or in two fragments with or without a ping between them, pings, pongs, close frames, impossible lengths; limits 1, 2 and 2 | 249 thousand |
| `frames_ping` | violates `ReadReturns` | own pings and messages of 7 bytes, 2 sends | |
| `server_reuse` | `TypeOK`, `RegistryExact`, `CallbackOrder`, `WrittenToOpen`, `Freed` | 2 addresses, 2 connections, 3 reads each, 3 sends, 1 async | 471 thousand |
| `server_aba` | violates `ReachesItsPeer` | | |
| `client_retry` | `TypeOK`, `NoTimerWhileOpen`, `WorkingIsAgreed`, `Retries`, `HandshakeEnds` | 3 attempts, 5 sends, 2 asyncs, heartbeat, 1 application thread that knows `m_peer` from the first `onConnect` on, every fault | 333 thousand |
| `client_first` | violates `HandshakeFirst` | 2 attempts, the server goes away once | |
| `tasks_stop` | `StopFlushes`, `StopStops`, `TaskTypeOK`, `OnePlace`, `NoLostDone`, `ListExact`, `TasksComeBack` | 2 threads, 3 tasks, or 3 sends | 64 thousand |
| `stop_frees` | violates `FreedAfterLoop` | 2 sends | |
| `handshake` | `HsTypeOK`, `CapacityHeld`, `GrowEnds`, `ImplementsString`, `HashesMessage`, `AcceptExact` | blocks of 6 bytes with 2 for the length, digests of 2, keys of 1 to 6, 9 and 10 bytes, suffix 2, 12 bytes for both; other users of a membuf: content of up to 5 bytes, initial size 0 or 4 | 151 thousand |

Why the bounds are enough for what is asked:

- With three asyncs the search for one succeeds at the head or after a rotation.  The one
  for two looks at the head only, where it can succeed, meet an async in use or the wrap
  from the last id to the first: after a rotation the loop of `CAsyncs.cpp:167` is over,
  because `maxPos` is one less than the size.  For the same reason a batch of three never
  succeeds, and one of four is refused without a search; `pool_app` makes both.  Two or
  three calls make the deque go round, which is when an async is given out a second time.
- Lengths up to 5 with limits 1, 2 and 2 give messages of one, two and three
  fragments, frames in each length format and both sides of each limit; two sends
  give every way a read can end in one frame and start in the next.  Three parts is
  what the code takes when it is not told a number.
- Two connections and two addresses give two connections at once, and two one
  after the other at the same address.  With one async every second send finds
  the pool full.
- Two attempts are one reconnect, from each state the first attempt can end in; with a
  third the second one is lost too.
- Two threads and three tasks let tasks finish out of order, while the loop is in
  the middle of a batch, and let an after-callback post while one is being unlinked
  and another finishes; the owner may post between any two writes to the list.  Three
  sends are some before, during and after the stop.
- Keys of 1 to 6 bytes put the end of the message at every place of a block, so that
  the length fits or does not, the buffer is full or empty; with 9 a whole block is
  hashed straight from the data, and 10 do not fit in 12 with the suffix and the zero.
  Content of 5 bytes from a capacity of 0 or 4 grows
  by the first choice, by one doubling and by more; that nothing wraps at 32 bits
  is proved, not run.  The four bytes of the digests put a one and a zero on both
  sides of every boundary of six bits.

Deadlock is not checked (`CHECK_DEADLOCK FALSE`): every bound on calls, sends and
reads lets the bounded system come to rest.

### Fairness

- `AsyncPool!FairSpec`: weak fairness of each thread inside a send, and of the loop.
  Threads that run and do not block are scheduled; the mutex is held for a bounded
  number of steps.  Nothing obliges an application to send or a connection to close.
- `FrameStream!FairSpec`: weak fairness of `Parse` only: the loop thread goes on with
  a read it has begun.
- `ServerConnections!FairSpec`: the loop ends each iteration and runs each closing
  callback, which `uv_run` does when the callbacks return; after a `BadFrame` these
  steps are not enabled any more.
- `ClientConnection!FairSpec`: timers and callbacks that are due run, a connect ends
  one way or the other, a flagged async is delivered (which is `SlotsReturn` of the
  pool), and the server reads.  A loop that is lost, or a handle made anew under a
  connect, leaves none of them enabled.  `Retries` rests on the timer, `HandshakeEnds` on
  the delivery of the request and the server's answer, where there is one.
- `TaskManager!TaskFairSpec`: the loop's thread runs unless the loop was deleted under it,
  the owner goes on inside `stop`, a
  poster goes on inside `postTask`, and a thread of the pool takes what is queued and
  finishes what it took (a task's callback returns).
- `Handshake!HsSpec`: a call of a membuf function that was begun goes on.

### What the violated properties show

Each of these is a statement of the repository that the code does not keep.

- `pool_parts`: the comment at `CAsyncs.cpp:147-151` relies on asyncs running in the
  order of their initialisation.  They do within one scan; parts flagged by
  another thread while the scan is under way fall into two scans, the later part
  in the earlier one.  Messages sent from callbacks are safe (`LoopPartsInOrder`).
- `frames_ping`: `generate_ping_control_frame` writes `89 02` and no payload (the close
  and pong frames do the same).  The peer takes two bytes of the next frame for that
  payload, and bytes of its payload for the next header; a header with an impossible
  length is a parse error, after which the loop of `on_read_websocket` neither advances
  nor ends, though `CWSServer.cpp:113` says that the connection is closed.
- `server_aba`: a context keeps a pointer, and the registry only says that *some*
  connection lives there now.
- `client_first`: after a reconnect, a message can be written before the handshake
  request: an application thread passes the check before the request is in the
  pool, or the message lies in an async that the loop comes to first.
- `stop_frees`: `CAsyncs.cpp:100` says that the destructor must be called after the loop is
  closed.  `stop` does nothing before the loop's thread has set `m_bRunnig`, and sleeps a
  second otherwise; the destructors of server, client and task manager then free the loop
  and the pool, whatever the thread does.

Other differences between code and comments were read from the code.  They are
in the models, but no run states them:

- Two threads can be given one async: it looks free until the first has stored its
  context (`CAsyncs.cpp:235`, against the comment at 123).  One context then
  overwrites the other, which is lost.  `ImplementsChannel` is therefore checked for
  one thread; with two it fails.
- `uv_write` on a closing handle returns an error that is ignored
  (`CAsyncs.cpp:59`): the data and the request are leaked (`leaked` in the model).
- `onClose` is never called: `on_close` returns unless `loop->data` is NULL, which it
  never is (`CWSServer.cpp:29`, `CWSClient.cpp:48`; `CWSServer.h:114-119`).
- An empty message is delivered as the two bytes of its header, and the mask of an
  empty masked frame is parsed as the next frame (`wsutil.cpp:195-200`).  The
  traffic words `"empty ping"` and `"foreign message"` with 0 among the `ForeignLens`
  show both.
- The type flags of a handle are never cleared, so a text message after a binary
  one carries both (`CWSServer.cpp:64, 79`), where `membuf.h:31-32` has a flag for each
  type.  `TypeFlagged` states what the comment says: it is proved for a peer that sends one
  type only (`TypesTold`), false for the traffic of `frames`, and in no run.
- A frame shorter than twice the number of parts cannot be split: an average of 1 never
  draws a part, and the loop goes on for ever; an average of 0 is a division by zero
  (`common.cpp:234-242`).  `Splits` is empty then, and the thread is lost (`SplitHangs`).
- Bytes that follow the head of the handshake in the same read are dropped
  (`CWSServer.cpp:125-139`).  A response cut in its last line leaves the client in the
  handshake for ever, unless what its uncleared read buffer holds behind the part read
  completes it (`CWSClient.cpp:206`, `uvutil.cpp:22`); then the rest is read as frames
  (`ReadRest`, `"garbled"`).  A close frame, or such a rest, leaves the client
  disconnected for ever, reconnecting or not (`CWSClient.cpp:115-120, 170`), and a rest that
  cannot be parsed loses its loop.
- Nothing limits the time a handshake may take: a client whose request found no free async
  (`CWSClient.cpp:268`), whose server's response found none (`CWSServer.cpp:165`), or whose
  response had no accept key (`CWSClient.cpp:171`) stays in it for as long as the
  connection lasts.  `HandshakeEnds` excepts exactly these.
- The reconnect timer is armed before the first connect and not stopped by a connect that is
  under way (`CWSClient.cpp:26-34, 282-289`): one that takes longer is begun a second time
  on the same handle (`TimerBreaks`).
- A frame that cannot be parsed loses the loop thread (`BadFrame`): no connection of the
  server is freed any more, which `Freed` excepts.
- `sha1_and_base64` takes the `strlen` of a binary digest (`wsutil.cpp:26`).  A digest
  with a zero byte, one in thirteen, gives a wrong answer; so does any digest
  without one when the length of the key and suffix modulo 64 is from 20 to 55,
  because the byte behind the digest is then not zero.  For the 24 bytes that RFC
  6455 prescribes it is 60.  A client that draws a digest with a zero byte for its
  own key sends a shorter key.  Of the answer the client tests only that the accept key
  is not empty (`CWSClient.cpp:171`), and does not compare it.
- A digest that begins with a zero byte has no text at all: `base64_encode` returns `NULL`,
  which `printf` turns into `(null)` (`NullText`).
- Key and suffix are put together in `char akey[100]` with no look at the length of the key
  (`wsutil.cpp:66-69`): beyond 63 bytes the array is overwritten.
- `postTask` of a thread that is not the loop's, while the loop runs, changes
  `active_reqs` without a lock, against libuv's rule and as `CTaskTest.cpp:35` does.
  When the two are in the list at once a request is lost from it, or the assertion of
  `uv-common.h:138` is met with an empty one (`UnlinkAborts`).  `ListExact` says that
  nothing else breaks the list; without its hypothesis `[]~Overlap` it fails.
- Tasks that finish after the loop's last visit never get their after-callback and
  their requests are not freed (`CTask.cpp:70-89`).
- Beyond half the range of a `uint` the doubling of `membuf_reserve` wraps to 0 and
  never ends (`membuf.cpp:76-79`).
- `membuf_append_format` does not advance the size, so that what is appended next
  overwrites the text, though `membuf.h:86-92` says that it appends it and returns the number
  of bytes it appended; `membuf_insert` copies overlapping bytes with `memcpy`
  (`membuf.h:95-103` says that it inserts).  Nothing in the repository calls either.
  `ImplementsString` excepts these two calls by name.
- `membuf_remove` of nothing from a buffer whose content fills its block writes a zero one
  byte behind the block (`membuf.cpp:179-180`).  `CapacityHeld` excepts it; the one caller
  (`wsutil.cpp:261`) removes at least a header.

## 4. Proofs

Each theorem below is for every value of the constants that the named assumption of
its module allows.  The properties they state are also checked by a run, but for
`Rotation`, `TailZero` and the theorems about the codec, SHA-1 and base64 (`ParserReadsFrame`,
`PaddedHashed`, `EncodesBase64`), which others rest on, the types of `LoopLifecycle` and
`Membuf`, which `TaskTypeOK` and `HsTypeOK` contain, and `TypesTold`, whose property is false
for the traffic of `frames`.

`AsyncPool_proofs` (any size of the pool, any set of threads and connections, any bound on
calls and parts; `PoolAssumption`: the pool is not empty, a message has at least one
part, `NoSender` is no sender; and `NoCtxAssumption`):

- `TypeCorrect`: `Spec => []TypeOK`.  `TypeOK` is not inductive: that `part` stays in
  range needs to know that a thread past its acquisition holds as many asyncs as it
  asked for.  The inductive invariant is
  `Shape == TypeOK /\ PartInBatch /\ CallCounted`.
- `PoolOrdered`: `Spec => [](Rotation /\ BatchConsecutive)`.  The code only asks that the
  ids of a batch do not descend; that they are consecutive follows from the deque
  being a rotation of `0 .. Size - 1`, which each `pop_front`/`push_back` keeps
  (`RotatedRotation`), since a wrap would be a descent (`BatchIsConsecutive`).
- `WakeupsNeverLost`: `Spec => []NoLostWakeup`, and `SlotsNeverStranded`: `Spec => []NoStrandedSlot`.
  Either needs the other and `Shape`: a taken async is pending, or its sender is about to flag it, or its
  callback is running; a pending one is ahead of the cursor, or the eventfd is
  or will be readable.  The case that matters is a flag raised between the drain
  and the visit.
- `NothingWrittenTwice`: `Spec => []WrittenOnce`, though two threads may share an async.
  `AtMostOnce` says that a context stored or written belongs to a part its sender has
  come past (`Stored`), that no two asyncs hold the same one, and that a context that
  was written is in no async but the one whose callback is about to clear it.

- `ChannelUnlessOverwritten`: `Spec => Channel!Init /\ [][Channel!Next \/ Overwrites]_(Channel!chan)`,
  the safety of the refinement, step by step, for any number of threads: a store is an
  `Accept`, a callback that finds a context a `Deliver` or a `Discard`, and everything else
  leaves the channel alone.  The one exception, a store into an async that another
  thread was handed too, is named in the theorem.  It rests on `Sound`: besides
  `AtMostOnce`, that a context that was given up belongs to a part its sender has come
  past (`GivenUp`), and that the async whose callback is in `uv_write` is not free (`InHand`).
- `OneSenderIsChannel`: with one sender, `Spec => Channel!Init /\ [][Channel!Next]_(Channel!chan)`.
  What a sender holds and has not come to is free (`Unused`), since the asyncs of a batch
  differ (`BatchConsecutive`) and nobody else takes from the pool.  What `ImplementsChannel`
  says beyond it, that every context is disposed of eventually, is left to TLC.
- `LoopPartsStayInOrder`: `Spec => []LoopPartsInOrder`.  A callback sends between two scans
  (`BetweenScans`), and the next scan finds all of its parts flagged (`Flagged`) and ahead of
  the cursor (`Ahead`).  They lie at ascending ids in the order of their parts
  (`Ascending`, from `Placed` and `BatchConsecutive`), so what is written comes before what
  is still to be written (`WrittenBefore`).  Threads that overwrite one of the asyncs lose a
  part but do not move the others.

`LoopLifecycle_proofs` (any number of sends; `LifecycleAssumption`):

- `LifecycleTypes`: `Spec => []TypeOK`, which is inductive.
- `FlushedAtStop`: `Spec => []StopFlushes`, for any owner: whether or not the
  loop was running when it was stopped, and however often. The inductive
  invariant `IInv == TypeOK /\ Counted /\ LastScan /\ StopFlushes` says that
  data are numbered as they come (`Counted`) and that the scan that leaves the
  loop began after the promise (`LastScan`). `FreedAfterLoop` is false of the
  code, see the run `stop_frees`.

`TaskManager_proofs` (any number of threads and tasks; `TaskAssumption`):

- `DoneNeverLost`: `TaskSpec => []NoLostDone`, which is inductive: the loop lowers the flag
  only on its way to take the queue.
- `ManagerTypes`: `TaskSpec => []TaskTypeOK`, and `TaskInOnePlace`: `TaskSpec => []OnePlace`.
  `OnePlace` counts; what is inductive is `PlaceInv`: no place has a task twice (`Singly`),
  no two places have the same one (`Apart`), the place of a task tells which of its
  callbacks were called (`Staged`), and poster and loop are where their steps say
  (`InStep`).  That a task is worked on and called back at most once, which `TaskTypeOK`
  contains, needs all of it.
- `ListStaysExact`: `TaskSpec => ListExact`, where `ListExact` is
  `[]~Overlap => [](step # "aborted" /\ (Quiet => Exact))`: the owner may post at any time, and as
  long as it and the loop have not been in the list at once, the list is exact whenever
  nobody is in it and the assertion never fails.  `Listed` says what `next` and `prev` are
  between any two writes: a ring over the requests under way, a ring with one of them
  linked from one side only, or one that is bypassed in one direction.  The hypothesis is
  about the schedule, not about the constants, and the code does not see to it.

`ServerConnections_proofs` (any number of addresses, connections, threads, reads and sends;
`ServerAssumption`):

- `ServerTypes`, and `RegistryIsExact`: `Spec => []RegistryExact`.  `RegistryExact` needs that two
  handles are never at one address (`Distinct`), that a handle has an address as long as
  it exists (`Addressed`), and that a closing one does get freed (`Handled`).
- `NothingWrittenToClosed`: `Spec => WrittenToOpen`, an action property: a write follows a
  look at the registry in the same callback, and a handle that is registered and not
  open is closing, whose `uv_write` fails.
- `CallbacksInOrder`: `Spec => []CallbackOrder`.

`ClientConnection_proofs` (any number of attempts, sends and threads, any set of faults;
`ClientAssumption`):

- `ClientTypes`; `TimerOffWhileOpen`: `Spec => []NoTimerWhileOpen`; `WorkingAfterHandshake`:
  `Spec => []WorkingIsAgreed`.  `m_WSClientStatus` outlives a connection, so the invariant
  ties a response to the request of the connection at hand: nothing is written on an
  attempt that has not greeted (`Untouched`), the server speaks only after it has read
  the request (`Answers`), and a working client has had its answer (`Settled`).

`FrameStream_proofs` (any `Traffic`, lengths, formats, masks, split counts and number of sends,
every way to cut the stream into reads, any `ShortLen`, `MediumLen`, `FragLen`, and any `XorByte`
that undoes itself; `CodecAssumption`, `StreamAssumption`):

- `ParserReadsFrame`: whatever a generator made of a payload, a type and a FIN bit, in any
  of the three length formats, masked or not, `TryParse` reads back (`Reads`): it takes
  exactly the bytes of the frame, whatever follows, and of a part of the frame it takes
  all and waits.  The lemmas under it say what a frame is (`IsFrame`), that the length
  in its header comes back from base 256, and that masking undoes itself.
- `StreamTypes`: `Spec => []TypeOK`, `MessagesIntact`: `[]Intact`,
  `OnlyEndsClose`: `[]ClosedOnRequest`, `NothingHeldBack`: `[]Drained`.  The inductive invariant is
  `StreamInv == TypeOK /\ Delivered /\ (Stuck \/ \E p : Following(p))`.  A position `p` is how many
  messages, bytes of the next one, pings and ending frames a reader has got; `Following(p)`
  says that the unread bytes (what the handle keeps, the rest of the read, and the
  wire) are a `Path`, frame by frame, from `p` to the end of what was sent.  A send makes
  the path longer at its end (`Appends`); a parse takes its first frame, if all of it is
  there, or moves bytes into the handle, which leaves the unread bytes as they are.
  After an impossible length the parser is `Stuck` and the connection about to close.

- `TypesTold`: `[]TypeFlagged` for a peer that sends messages of one type (`Ops = {op}`): the flags
  of each call of `onData` are then exactly the type of its message, also when it came in
  fragments or between control frames.  With two types it is false.

All of them assume `Understood`, which says what the code can follow: no ping of this library
and no masked empty frame, since the parser takes such a frame for something else and
loses the boundary of the next one (run `frames_ping`), and no message of length 0, which the
code does not hand over.  The run `frames` that checks these properties satisfies it.  What
`StreamAssumption` asks of an own length is that it fits in the four bytes that are written.

`Path` is the least relation closed under putting a frame in front, so that a proof by
induction is an instance of it.  Where a proof needs induction over a number, as for the
concatenation of the parts of a message or the recursive functions of `FrameCodec`, it takes
a set of numbers and its least missing member (`EveryNumber`, from `WFMin`), which needs no
theorem with an operator parameter.

`Membuf_proofs` (any width of a `uint`, any calls, content of up to half the range of a
`uint`; `MembufAssumption`), about `BufSpec`:

- `MembufTypes`, `CapacityHolds`: `BufSpec => []CapacityHeld`, `TailStaysZero`:
  `BufSpec => []TailZero`.  The invariant `BufIInv` remembers what was checked when a call
  began (`Fits`); within half the range neither the sum nor a doubling that is still
  needed wraps.  `CapacityHeld` leaves out the one call that writes behind its block
  (`membuf_remove` of nothing from a full buffer).
- `MembufIsString`: `BufSpec => ImplementsString`.  Each function has a lemma that what it
  leaves is what `ByteString` says (`AppendDone`, `InsertDone` ...); making room changes the
  memory and not the content (`Reallocated`).  `ImplementsString` is about every step but the
  two kinds it names: a formatted text, which `membuf.cpp` does not append, and an insertion
  whose copy overlaps.

`Handshake_proofs` (any size of a block, of the bit count and of the digest, as long as the two
fit in a block with a byte to spare; any lengths of the keys and the suffix, any digests;
`Sha1Assumption`, `HandshakeAssumption` and `MembufAssumption`), about `HsSpec`, in which a membuf
makes the steps of `BufSpec` and is initialised again by `base64_encode`:

- `PaddedHashed`: any bytes, written whole or in two parts, are hashed as FIPS 180 pads them; and
  so `RequestHashed`: `HsSpec => []HashesMessage`, of every key that fits into `akey` with the
  suffix; no other is hashed in the model, as nothing is defined after it.  An invariant of the context is enough for every
  call of `hash1_write` and `hash1_final`: it has *taken* the start of one text, whole blocks that
  were hashed and the rest in the buffer (`Took`, `TookBytes`).  Each call takes what follows
  (`WriteTook`); the padding and the length are the end of the same text, the padded message,
  whether the length still fits into the block (`PadTook`) or begins another (`FreshTook`); and what
  was taken to its end leaves one context (`FinalIs`), however it was cut.
- `EncodesBase64`: for every sequence of bytes, `Text(d) = Base64(d)`.  The shifts and masks are an
  identity over the bits of three bytes (`SextetBits`), and the letter at each place has the six
  bits that `Base64` takes (`GroupBits`).
- `AnswersExactly`: `HsSpec => []AcceptExact`.  `HsIInv` says that between one append and the next
  the content is the start of the text (`TextBegun`), and `TailZero` that a zero follows, so what is
  printed is the text.  That `strlen` finds the end of the digest is `BehindIsZero`: the byte
  behind it is a zero of the padding exactly where `ZeroBehind` says.
- `HandshakeTypes`: `[]HsTypeOK`; `TextFits`: `[]CapacityHeld`; `TextIsString`:
  `HsSpec => ImplementsString`, because a buffer that is initialised again was empty.

`HandshakeAssumption` asks that every letter can be appended (it is among the `Calls`), that
three times a block is less than the number of values of a `uint` (192 of 2^32), that a digest
is not empty, and that the length of `akey` is a number.

Only model-checked, because they are out of the prover's reach or not proved yet:
every liveness property (`SlotsReturn`, `CallsReturn`, `ReadEnds`, `Freed`, `Retries`,
`HandshakeEnds`, `StopStops`, `TasksComeBack`, `GrowEnds`), and of `ImplementsChannel` the liveness.
Every invariant and every other property that a passing run checks is a theorem, under the
hypotheses named above.

## 5. Plan

Done: pool, codec and reader, server, client, lifecycle, tasks, byte buffer and handshake
texts, in this order, and the proofs of section 4.  Next:

1. The composition of `ClientConnection` and `ServerConnections` over two pools, in place of the
   server that `ClientConnection` now sees from outside.

## 6. Not modelled

- Failed allocations, and the result of `uv_tcp_init`.
- The rounds of SHA-1 (`hash1_transform` is any function of its block and the values so
  far); `base64_decode`, the URL escapes and `strinstr`, which nothing in `src/ws` calls.
- The client's reading of the response beyond its head, of which it tests only that the
  accept key is not empty, and the key it draws itself: a digest that begins with a zero byte
  gives it the text `NULL`, which is assigned to a `std::string` (`CWSClient.cpp:263-264`).  Frames that come in one read with the response are dropped by the code, and not
  sent by the model's server.
- `common.cpp` file saving, random bytes, addresses, clock and paths; `simplelog`;
  `CSingleton`.
- libuv beyond its asyncs, its closing phase, its stop flag and its queue of work.  Writes
  of one stream leave in the order of `uv_write`, which libuv guarantees.
- `uv_cancel`, which nothing calls, and the requests and handles that are leaked when a
  loop is stopped (`uv_loop_close` fails, `CLoop.cpp:24`).
- The heartbeat's first call before any connection (`m_peer` is then not initialised).
- What follows once a connect took longer than the reconnect timer's period (`TimerBreaks`
  ends the model), and the reinitialisation of a handle whose connect failed.
- `join`, and the timers that `CWSClient::shutdown` stops from the owner's thread.
