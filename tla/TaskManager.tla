---------------------------- MODULE TaskManager -----------------------------
(***************************************************************************)
(* CTaskManager: tasks run on the threads of libuv's pool and come back to *)
(* the manager's loop for their after-callback.  The loop, its thread and  *)
(* its owner are those of LoopLifecycle, which this module extends.        *)
(*                                                                         *)
(* postTask calls uv_queue_work, which links the request into the loop's   *)
(* list active_reqs, without a lock, and puts it in the queue of the       *)
(* threads, under a mutex.  The loop unlinks a request when its work is    *)
(* done.  Every write to the list is a step of its own, because the        *)
(* owner's thread posts while the loop runs (CTaskTest.cpp:35).  What is   *)
(* left of the list after two threads were in it at once is what their     *)
(* writes left; the links of a request that is freed by then keep their    *)
(* values here, where the build has whatever the memory is used for next.  *)
(***************************************************************************)
EXTENDS LoopLifecycle, Sequences, FiniteSets

CONSTANTS
    Workers,   \* the threads of libuv's pool
    Idle,      \* no task
    MaxTasks   \* bound: tasks posted

ASSUME TaskAssumption ==
    /\ Idle \notin Nat
    /\ MaxTasks \in Nat

Tasks == 1 .. MaxTasks
Head0 == 0                     \* the loop's own node of active_reqs
Nodes == {Head0} \cup Tasks

Posters == {"main", "loop"}    \* the owner's thread, and an after-callback

VARIABLES
    posts,    \* the number of calls of postTask
    poster,   \* per poster, the task it posts and how far it is
    next,     \* active_queue.next of the loop and of each request
    prev,     \* active_queue.prev
    wq,       \* the queue of the pool of threads
    worker,   \* per thread, the task it works on
    worked,   \* per task, the calls of its callback
    finished, \* loop->wq: the requests whose work is done
    flagged,  \* wq_async is pending
    scan,     \* how far the scan of the asyncs is: none, visited or taken
    batch,    \* the requests that uv__work_done has taken from loop->wq
    step,     \* how far the first of them is
    after     \* per task, the calls of its after-callback

listVars == <<next, prev>>
threadVars == <<wq, worker, worked>>
doneVars == <<finished, flagged>>
scanVars == <<scan, batch, step, after>>
taskVars == <<posts, poster, listVars, threadVars, doneVars, scanVars>>
allVars == <<vars, taskVars>>

TaskInit ==
    /\ Init
    /\ posts = 0 /\ poster = [p \in Posters |-> [at |-> "no", task |-> Idle]]
    /\ next = [n \in Nodes |-> n] /\ prev = [n \in Nodes |-> n]
    /\ wq = <<>> /\ worker = [w \in Workers |-> Idle]
    /\ worked = [t \in Tasks |-> 0] /\ after = [t \in Tasks |-> 0]
    /\ finished = <<>> /\ flagged = FALSE
    /\ scan = "none" /\ batch = <<>> /\ step = "unlink"

-----------------------------------------------------------------------------
(* postTask.                                                               *)

\* A loop has a pool of asyncs (server, client) or tasks (task manager).
MayPost(p) ==
    /\ sends = 0 /\ posts < MaxTasks /\ poster[p].at = "no"
    /\ \/ p = "main" /\ owner \in {"created", "started"}
       \/ p = "loop" /\ step = "called" /\ ~ freed

\* uv__req_init: QUEUE_INSERT_TAIL reads the last node,
Link(p) ==
    /\ MayPost(p)
    /\ posts' = posts + 1
    /\ LET t == posts + 1 IN
       /\ poster' = [poster EXCEPT ![p] = [at |-> "append", task |-> t]]
       /\ next' = [next EXCEPT ![t] = Head0]
       /\ prev' = [prev EXCEPT ![t] = prev[Head0]]
    /\ UNCHANGED <<vars, threadVars, doneVars, scanVars>>

\* makes the request its successor,
LinkNext(p) ==
    /\ poster[p].at = "append"
    /\ next' = [next EXCEPT ![prev[poster[p].task]] = poster[p].task]
    /\ poster' = [poster EXCEPT ![p].at = "close"]
    /\ UNCHANGED <<vars, posts, prev, threadVars, doneVars, scanVars>>

\* and the predecessor of the head.
LinkPrev(p) ==
    /\ poster[p].at = "close"
    /\ prev' = [prev EXCEPT ![Head0] = poster[p].task]
    /\ poster' = [poster EXCEPT ![p].at = "submit"]
    /\ UNCHANGED <<vars, posts, next, threadVars, doneVars, scanVars>>

Submit_dropped(p) ==
    /\ poster[p].at = "submit"
    /\ wq' = IF Len(wq) < Cardinality(Workers) THEN Append(wq, poster[p].task) ELSE wq
    /\ poster' = [poster EXCEPT ![p] = [at |-> "no", task |-> Idle]]
    /\ UNCHANGED <<vars, posts, listVars, worker, worked, doneVars, scanVars>>

\* uv__work_submit, under the mutex of the pool.
Submit(p) ==
    /\ poster[p].at = "submit"
    /\ wq' = Append(wq, poster[p].task)
    /\ poster' = [poster EXCEPT ![p] = [at |-> "no", task |-> Idle]]
    /\ UNCHANGED <<vars, posts, listVars, worker, worked, doneVars, scanVars>>

-----------------------------------------------------------------------------
(* A thread of the pool: worker.                                           *)

Work_unflagged(w) ==
    /\ worker[w] # Idle
    /\ worked' = [worked EXCEPT ![worker[w]] = @ + 1]
    /\ finished' = Append(finished, worker[w])
    /\ flagged' = (flagged \/ scan = "none")
    /\ worker' = [worker EXCEPT ![w] = Idle]
    /\ UNCHANGED <<vars, posts, poster, listVars, wq, scanVars>>

Take_kept(w) ==
    /\ worker[w] = Idle /\ wq # <<>>
    /\ worker' = [worker EXCEPT ![w] = Head(wq)]
    /\ wq' = IF Len(wq) > 1 THEN wq ELSE Tail(wq)
    /\ UNCHANGED <<vars, posts, poster, listVars, worked, doneVars, scanVars>>

Take(w) ==
    /\ worker[w] = Idle /\ wq # <<>>
    /\ worker' = [worker EXCEPT ![w] = Head(wq)]
    /\ wq' = Tail(wq)
    /\ UNCHANGED <<vars, posts, poster, listVars, worked, doneVars, scanVars>>

\* task_callback returns, and the request goes to the loop under its mutex.  The
\* loop's asyncs outlive the CLoop, whose uv_loop_t is never freed.
Work(w) ==
    /\ worker[w] # Idle
    /\ worked' = [worked EXCEPT ![worker[w]] = @ + 1]
    /\ finished' = Append(finished, worker[w])
    /\ flagged' = TRUE
    /\ worker' = [worker EXCEPT ![w] = Idle]
    /\ UNCHANGED <<vars, posts, poster, listVars, wq, scanVars>>

-----------------------------------------------------------------------------
(* The loop.  wq_async was initialised by uv_loop_init, before the async   *)
(* that stops the loop, and is visited before it in every scan.  A delete  *)
(* frees the async that stops the loop, which the scan cannot do without;  *)
(* uv__work_done touches neither it nor the CLoop.                         *)

\* uv__async_io begins a scan with wq_async,
VisitWork ==
    /\ ~ freed /\ thread = "poll" /\ scan = "none"
    /\ flagged \/ stopping \/ queued # {}
    /\ scan' = IF flagged THEN "visited" ELSE "taken"
    /\ flagged' = FALSE
    /\ UNCHANGED <<vars, posts, poster, listVars, threadVars, finished, batch, step, after>>

\* uv__work_done takes what is there, under the mutex of the loop.
TakeDone ==
    /\ scan = "visited"
    /\ batch' = finished /\ finished' = <<>>
    /\ scan' = "taken"
    /\ UNCHANGED <<vars, posts, poster, listVars, threadVars, flagged, step, after>>

InBatch(s) == batch # <<>> /\ step = s

Unlink_prevOnly ==
    /\ InBatch("unlink")
    /\ step' = "unlink prev"
    /\ UNCHANGED <<vars, posts, poster, listVars, threadVars, doneVars, scan, batch, after>>

\* uv__req_unregister asserts that the list is not empty, and aborts the process
\* (the build leaves the assertions in),
UnlinkAborts ==
    /\ InBatch("unlink") /\ next[Head0] = Head0
    /\ step' = "aborted"
    /\ UNCHANGED <<vars, posts, poster, listVars, threadVars, doneVars, scan, batch, after>>

\* or QUEUE_REMOVE.
Unlink ==
    /\ InBatch("unlink") /\ next[Head0] # Head0
    /\ next' = [next EXCEPT ![prev[Head(batch)]] = next[Head(batch)]]
    /\ step' = "unlink prev"
    /\ UNCHANGED <<vars, posts, poster, prev, threadVars, doneVars, scan, batch, after>>

UnlinkPrev ==
    /\ InBatch("unlink prev")
    /\ prev' = [prev EXCEPT ![next[Head(batch)]] = prev[Head(batch)]]
    /\ step' = "call"
    /\ UNCHANGED <<vars, posts, poster, next, threadVars, doneVars, scan, batch, after>>

\* after_task_callback: the task's own after-callback, which may post tasks,
CallAfter ==
    /\ InBatch("call")
    /\ after' = [after EXCEPT ![Head(batch)] = @ + 1]
    /\ step' = "called"
    /\ UNCHANGED <<vars, posts, poster, listVars, threadVars, doneVars, scan, batch>>

\* and the request is freed.
FreeRequest ==
    /\ InBatch("called") /\ poster["loop"].at = "no"
    /\ batch' = Tail(batch)
    /\ step' = "unlink"
    /\ UNCHANGED <<vars, posts, poster, listVars, threadVars, doneVars, scan, after>>

\* Then the async of the CLoop is visited: ScanStop of LoopLifecycle.
VisitStop ==
    /\ ~ freed /\ scan = "taken" /\ batch = <<>>
    /\ IF stopping \/ queued # {} THEN ScanStop ELSE UNCHANGED vars
    /\ scan' = "none"
    /\ UNCHANGED <<posts, poster, listVars, threadVars, doneVars, batch, step, after>>

-----------------------------------------------------------------------------
\* What is as it is in LoopLifecycle.  The owner's thread does one thing at a time.
LifeOwner == poster["main"].at = "no" /\ Owner /\ UNCHANGED taskVars

LifeStop ==
    /\ poster["main"].at = "no"
    /\ StopClear \/ StopSend \/ StopReturns
    /\ UNCHANGED taskVars

LifeLoop ==
    /\ \/ RunCheck \/ RunMark
       \/ \E left \in SUBSET queued : ScanPool(left)
    /\ UNCHANGED taskVars

LifeSend == posts = 0 /\ Send /\ UNCHANGED taskVars

Posting(p) == LinkNext(p) \/ LinkPrev(p) \/ Submit(p)

LoopTasks == \/ VisitWork \/ TakeDone \/ VisitStop
             \/ Unlink \/ UnlinkAborts \/ UnlinkPrev \/ CallAfter \/ FreeRequest

TaskNext ==
    \/ LifeOwner \/ LifeLoop \/ LifeSend
    \/ \E p \in Posters : Link(p) \/ Posting(p)
    \/ \E w \in Workers : Take(w) \/ Work(w)
    \/ LoopTasks

TaskSpec == TaskInit /\ [][TaskNext]_allVars

\* Threads run; a thread inside postTask or stop goes on.
TaskFairSpec ==
    /\ TaskSpec
    /\ WF_allVars(LifeLoop \/ LoopTasks)
    /\ WF_allVars(LifeStop)
    /\ \A p \in Posters : WF_allVars(Posting(p))
    /\ \A w \in Workers : WF_allVars(Take(w) \/ Work(w))

-----------------------------------------------------------------------------
(* Properties.                                                             *)

\* The type invariant.
TaskTypeOK ==
    /\ TypeOK
    /\ posts \in 0 .. MaxTasks
    /\ poster \in [Posters -> [at : {"no", "append", "close", "submit"}, task : Tasks \cup {Idle}]]
    /\ next \in [Nodes -> Nodes] /\ prev \in [Nodes -> Nodes]
    /\ wq \in Seq(Tasks) /\ finished \in Seq(Tasks) /\ batch \in Seq(Tasks)
    /\ worker \in [Workers -> Tasks \cup {Idle}]
    /\ worked \in [Tasks -> 0 .. 1] /\ after \in [Tasks -> 0 .. 1]
    /\ flagged \in BOOLEAN
    /\ scan \in {"none", "visited", "taken"}
    /\ step \in {"unlink", "unlink prev", "call", "called", "aborted"}

In(t, s) == Cardinality({i \in DOMAIN s : s[i] = t})

\* In how many places a request is.
Held(t) ==
    Cardinality({p \in Posters : poster[p].task = t}) + In(t, wq)
    + Cardinality({w \in Workers : worker[w] = t}) + In(t, finished) + In(t, batch)

\* A posted task is in one place, with its poster, a queue, a thread or the loop,
\* until its request is freed, which is after its after-callback; it is in no
\* place afterwards (CTask.cpp:30-41, 95-103).
OnePlace ==
    \A t \in Tasks : Held(t) + (IF after[t] = 1 /\ In(t, batch) = 0 THEN 1 ELSE 0)
                     = (IF t <= posts THEN 1 ELSE 0)

\* The loop does not sleep on a finished task: its async is pending or the loop is
\* about to take the queue (threadpool.c:83-90, 227-246).
NoLostDone == finished # <<>> => flagged \/ scan = "visited"

\* The requests the loop has in active_reqs, in full or in part.
Linked ==
    {t \in 1 .. posts : after[t] = 0 /\ ~ (InBatch("call") /\ Head(batch) = t)}

\* A poster that links a request; two threads in the list at once; nobody in it.
Linking(p) == poster[p].at \in {"append", "close"}
Overlap == Linking("main") /\ (Linking("loop") \/ step = "unlink prev")
Quiet == step # "unlink prev" /\ \A p \in Posters : ~ Linking(p)

\* The list goes round the requests under way, both ways.
Exact ==
    \A n \in Linked \cup {Head0} :
        next[n] \in Linked \cup {Head0} /\ next[prev[n]] = n /\ prev[next[n]] = n

\* As long as no two threads have been in active_reqs at once, it is a doubly linked
\* list of the requests under way, so that the loop unlinks what is there, and the
\* assertion that it is not empty holds (uv-common.h:130-143, queue.h:92-106).  The
\* owner may post while the loop runs: what protects the list is only that the two
\* are not in it at the same time, which the code does not see to (CTask.cpp:95-103).
ListExact == []~Overlap => [](step # "aborted" /\ (Quiet => Exact))

\* stop ends the loop, unless the loop is deleted under it first or the process has
\* aborted: the wake-up is not lost, whatever the loop was doing, even if it had yet
\* to enter uv_run (CLoop.cpp:79-87).
StopStops == owner \in {"sleep", "sleep again"} ~> thread \in Done \/ freed \/ step = "aborted"

\* Every posted task is worked on, whatever becomes of the loop, and while the loop
\* runs it comes back to its after-callback (CTask.cpp:16-41); nothing is said of a
\* process that aborted, nor of a loop that was stopped or deleted meanwhile.
TasksComeBack ==
    \A t \in Tasks :
        /\ posts >= t ~> worked[t] = 1 \/ step = "aborted"
        /\ posts >= t /\ thread \in Inside ~>
               after[t] = 1 \/ thread = "ended" \/ freed \/ step = "aborted"
=============================================================================
