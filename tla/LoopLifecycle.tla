---------------------------- MODULE LoopLifecycle ----------------------------
(***************************************************************************)
(* Starting, stopping and deleting a CWSServer, a CWSClient or a           *)
(* CTaskManager: the owner's thread calls startup, shutdown and delete,    *)
(* and the loop's thread runs CLoop::run.  CLoop::stop wakes the loop with *)
(* an async of its own, which was initialised before those of the pool.    *)
(* Another thread keeps giving data to the pool meanwhile.                 *)
(*                                                                         *)
(* stop and delete do not join the loop's thread.  The only wait is the    *)
(* sleep(1) in CLoop::stop, which ends whatever the loop does.  Once the   *)
(* owner has freed them, the loop's thread finds neither its CLoop nor its *)
(* asyncs: what it does then is undefined, and no step of it is modelled.  *)
(***************************************************************************)
EXTENDS Integers

CONSTANT MaxSends  \* bound: data given to the pool

ASSUME LifecycleAssumption == MaxSends \in Nat

VARIABLES
    running,   \* m_bRunnig
    owner,     \* what the owner's thread does
    thread,    \* what the loop's thread does
    armed,     \* m_sendAsync.data points to the CLoop
    stopping,  \* m_sendAsync is pending
    sends,     \* the number of data the pool has flagged
    queued,    \* those not delivered yet
    scanned,   \* `sends` when the current scan began
    promised,  \* `sends` when the loop, not yet on its way out, was told to stop
    freed      \* the asyncs and the CLoop are freed

stopVars == <<armed, stopping, promised>>
poolVars == <<sends, queued, scanned>>
vars == <<running, owner, thread, stopVars, poolVars, freed>>

Inside == {"poll", "scan", "last"}       \* the thread is in uv_run
Done == {"none", "refused", "ended"}     \* it never was there, or is no longer

\* The constructor does not set m_bRunnig: it is whatever the memory held.
Init ==
    /\ running \in BOOLEAN
    /\ owner = "created" /\ thread = "none"
    /\ armed = FALSE /\ stopping = FALSE /\ promised = 0
    /\ sends = 0 /\ queued = {} /\ scanned = 0
    /\ freed = FALSE

-----------------------------------------------------------------------------
(* The owner.                                                              *)

\* A server that cannot bind or listen does not run its thread.
Startup(ok) ==
    /\ owner = "created"
    /\ owner' = "started"
    /\ thread' = IF ok THEN "created" ELSE thread
    /\ UNCHANGED <<running, stopVars, poolVars, freed>>

\* stop does nothing unless m_bRunnig.
StopCheck(clear, done) ==
    /\ owner' = IF running THEN clear ELSE done
    /\ UNCHANGED <<running, thread, stopVars, poolVars, freed>>

Shutdown == owner = "started" /\ StopCheck("clear", "shut")

\* The destructor of CLoop stops it too; a shutdown before is optional.
Delete == owner \in {"started", "shut"} /\ StopCheck("clear again", "free")

StopClear_unarmed ==
    /\ owner \in {"clear", "clear again"}
    /\ running' = FALSE
    /\ owner' = IF owner = "clear" THEN "send" ELSE "send again"
    /\ UNCHANGED <<thread, stopVars, poolVars, freed>>

\* m_bRunnig = false; m_sendAsync.data = this;
StopClear ==
    /\ owner \in {"clear", "clear again"}
    /\ running' = FALSE
    /\ armed' = TRUE
    /\ owner' = IF owner = "clear" THEN "send" ELSE "send again"
    /\ UNCHANGED <<thread, stopping, promised, poolVars, freed>>

\* and uv_async_send.
StopSend ==
    /\ owner \in {"send", "send again"}
    /\ stopping' = TRUE
    /\ promised' = IF thread \in {"last", "ended"} THEN promised ELSE sends
    /\ owner' = IF owner = "send" THEN "sleep" ELSE "sleep again"
    /\ UNCHANGED <<running, thread, armed, poolVars, freed>>

\* sleep(1): nothing waits for the loop's thread.
StopReturns ==
    /\ owner \in {"sleep", "sleep again"}
    /\ owner' = IF owner = "sleep" THEN "shut" ELSE "free"
    /\ UNCHANGED <<running, thread, stopVars, poolVars, freed>>

\* The CLoop and the pool are deleted; the uv_loop_t is not.
Free ==
    /\ owner = "free"
    /\ freed' = TRUE
    /\ owner' = "gone"
    /\ UNCHANGED <<running, thread, stopVars, poolVars>>

-----------------------------------------------------------------------------
(* The loop's thread, as long as there is a loop.                          *)

\* CLoop::run returns at once when m_bRunnig is already set;
RunCheck ==
    /\ ~ freed /\ thread = "created"
    /\ thread' = IF running THEN "refused" ELSE "checked"
    /\ UNCHANGED <<running, owner, stopVars, poolVars, freed>>

\* otherwise it sets it and enters uv_run.
RunMark ==
    /\ ~ freed /\ thread = "checked"
    /\ running' = TRUE
    /\ thread' = "poll"
    /\ UNCHANGED <<owner, stopVars, poolVars, freed>>

Stopped_atOnce == IF stopping /\ armed THEN "ended" ELSE "scan"

\* The callback of the CLoop's async only sets a flag that uv_run looks at when
\* the scan is over: uv_loop_close fails, because the asyncs are still open.
Stopped == IF stopping /\ armed THEN "last" ELSE "scan"

\* uv__async_io visits the async of the CLoop first,
ScanStop ==
    /\ ~ freed /\ thread = "poll" /\ (stopping \/ queued # {})
    /\ thread' = Stopped
    /\ stopping' = FALSE
    /\ scanned' = sends
    /\ UNCHANGED <<running, owner, armed, promised, sends, queued, freed>>

\* then those of the pool.  What is flagged during the scan may be left for the
\* next one.
ScanPool(left) ==
    /\ ~ freed /\ thread \in {"scan", "last"}
    /\ left \subseteq {k \in queued : k > scanned}
    /\ queued' = left
    /\ thread' = IF thread = "scan" THEN "poll" ELSE "ended"
    /\ UNCHANGED <<running, owner, stopVars, sends, scanned, freed>>

-----------------------------------------------------------------------------
\* A thread of the application gives data to the pool.
Send ==
    /\ ~ freed /\ sends < MaxSends
    /\ sends' = sends + 1
    /\ queued' = queued \cup {sends + 1}
    /\ UNCHANGED <<running, owner, thread, stopVars, scanned, freed>>

Owner == \/ \E ok \in BOOLEAN : Startup(ok)
         \/ Shutdown \/ Delete \/ StopClear \/ StopSend \/ StopReturns \/ Free

Loop == RunCheck \/ RunMark \/ ScanStop \/ \E left \in SUBSET queued : ScanPool(left)

Next == Owner \/ Loop \/ Send

Spec == Init /\ [][Next]_vars

-----------------------------------------------------------------------------
(* Properties.                                                             *)

\* The type invariant.
TypeOK ==
    /\ running \in BOOLEAN /\ armed \in BOOLEAN /\ stopping \in BOOLEAN /\ freed \in BOOLEAN
    /\ owner \in {"created", "started", "clear", "send", "sleep", "shut",
                  "clear again", "send again", "sleep again", "free", "gone"}
    /\ thread \in {"created", "checked"} \cup Inside \cup Done
    /\ sends \in 0 .. MaxSends /\ scanned \in 0 .. MaxSends /\ promised \in 0 .. MaxSends
    /\ queued \subseteq 1 .. MaxSends

\* The asyncs are deleted after their loop is closed: "the destructor must be called
\* after the loop is closed!" (CAsyncs.cpp:100), with or without a shutdown before
\* the delete.  Nothing in the code sees to it: see the run stop_frees.
FreedAfterLoop == freed => thread \in Done

\* What the pool had flagged when stop woke the loop is written before the loop
\* ends: the scan that meets the stop goes on to the pool (async.c:104-119), also
\* when the owner stopped a loop that was not running yet, or stopped it twice.
StopFlushes ==
    thread = "ended" => \A k \in queued : k > promised
=============================================================================
