------------------------- MODULE LoopLifecycle_proofs -------------------------
(***************************************************************************)
(* Proofs about LoopLifecycle.  What the pool had flagged when the loop    *)
(* was told to stop is not left behind when the loop ends, for any owner:  *)
(* whether or not the loop was running when it was stopped, and however    *)
(* often it was.                                                           *)
(***************************************************************************)
EXTENDS LoopLifecycle, TLAPS

-----------------------------------------------------------------------------
(* The inductive invariant.                                                *)

\* Data are numbered as they come, and the last scan began after the promise.
Counted ==
    /\ promised <= sends /\ scanned <= sends
    /\ \A k \in queued : k <= sends

LastScan == thread = "last" => promised <= scanned

IInv == TypeOK /\ Counted /\ LastScan /\ StopFlushes

-----------------------------------------------------------------------------
LEMMA Bound == MaxSends \in Nat
  BY LifecycleAssumption, Zenon

\* What TypeOK says of the numbers.
LEMMA Numbers ==
    ASSUME TypeOK
    PROVE  /\ sends \in 0 .. MaxSends /\ scanned \in 0 .. MaxSends
           /\ promised \in 0 .. MaxSends /\ queued \subseteq 1 .. MaxSends
  BY Zenon DEF TypeOK

LEMMA InitHolds == Init => IInv
<1> SUFFICES ASSUME Init PROVE IInv
  OBVIOUS
<1>1. TypeOK
  <2>1. sends \in 0 .. MaxSends /\ scanned \in 0 .. MaxSends /\ promised \in 0 .. MaxSends
    BY Bound DEF Init
  <2> QED
    BY <2>1 DEF Init, TypeOK, Done
<1>2. Counted /\ LastScan /\ StopFlushes
  BY DEF Init, Counted, LastScan, StopFlushes
<1> QED
  BY <1>1, <1>2 DEF IInv

\* Type correctness is inductive by itself.
LEMMA TypeStep == TypeOK /\ [Next]_vars => TypeOK'
<1> SUFFICES ASSUME TypeOK, [Next]_vars PROVE TypeOK'
  OBVIOUS
<1> USE Bound DEF TypeOK, Inside, Done
<1>1. ASSUME NEW ok \in BOOLEAN, Startup(ok) PROVE TypeOK'
  BY <1>1 DEF Startup, stopVars, poolVars
<1>2. CASE Shutdown \/ Delete
  BY <1>2 DEF Shutdown, Delete, StopCheck, stopVars, poolVars
<1>3. CASE StopClear \/ StopSend \/ StopReturns
  BY <1>3 DEF StopClear, StopSend, StopReturns, stopVars, poolVars
<1>4. CASE Free
  BY <1>4 DEF Free, stopVars, poolVars
<1>5. CASE RunCheck \/ RunMark
  BY <1>5 DEF RunCheck, RunMark, stopVars, poolVars
<1>6. CASE ScanStop
  BY <1>6 DEF ScanStop, Stopped
<1>7. ASSUME NEW left \in SUBSET queued, ScanPool(left) PROVE TypeOK'
  BY <1>7 DEF ScanPool, stopVars
<1>8. CASE Send
  <2>1. sends' \in 0 .. MaxSends /\ queued' \subseteq 1 .. MaxSends
    <3>1. sends < MaxSends /\ sends' = sends + 1 /\ queued' = queued \cup {sends + 1}
      BY <1>8 DEF Send
    <3> HIDE DEF TypeOK
    <3> QED
      BY <3>1, Numbers
  <2> QED
    BY <1>8, <2>1 DEF Send, stopVars
<1>9. CASE UNCHANGED vars
  BY <1>9 DEF vars, stopVars, poolVars
<1> QED
  BY <1>1, <1>2, <1>3, <1>4, <1>5, <1>6, <1>7, <1>8, <1>9 DEF Next, Owner, Loop

\* What the scans leave behind.
LEMMA CountStep ==
    IInv /\ [Next]_vars => Counted' /\ LastScan' /\ StopFlushes'
<1> SUFFICES ASSUME TypeOK, Counted, LastScan, StopFlushes, [Next]_vars
             PROVE  Counted' /\ LastScan' /\ StopFlushes'
  BY DEF IInv
<1>0. sends \in Nat /\ scanned \in Nat /\ promised \in Nat /\ queued \subseteq Nat
  BY Bound, Numbers
<1> USE <1>0 DEF Counted, LastScan, StopFlushes
<1>1. CASE thread' = thread /\ UNCHANGED <<promised, poolVars>>
  BY <1>1 DEF poolVars
<1>2. CASE /\ thread' \notin {"last", "ended"}
           /\ UNCHANGED <<promised, poolVars>>
  BY <1>2 DEF poolVars
<1>3. CASE StopSend
  <2>1. UNCHANGED poolVars /\ thread' = thread
    BY <1>3 DEF StopSend
  <2>2. CASE thread \in {"last", "ended"}
    <3>1. promised' = promised
      BY <1>3, <2>2 DEF StopSend
    <3> QED
      BY <1>1, <2>1, <3>1
  <2>3. CASE thread \notin {"last", "ended"}
    <3>1. promised' = sends
      BY <1>3, <2>3 DEF StopSend
    <3> QED
      BY <2>1, <2>3, <3>1 DEF poolVars
  <2> QED
    BY <2>2, <2>3
<1>4. CASE ScanStop
  BY <1>4 DEF ScanStop, Stopped
<1>5. ASSUME NEW left, ScanPool(left) PROVE Counted' /\ LastScan' /\ StopFlushes'
  BY <1>5 DEF ScanPool, stopVars
<1>6. CASE Send
  BY <1>6 DEF Send, stopVars
<1> QED
  <2>1. ASSUME NEW ok \in BOOLEAN, Startup(ok) PROVE Counted' /\ LastScan' /\ StopFlushes'
    BY <1>1, <1>2, <2>1 DEF Startup, stopVars
  <2>2. CASE Shutdown \/ Delete \/ StopClear \/ StopReturns \/ Free
    BY <1>1, <2>2 DEF Shutdown, Delete, StopCheck, StopClear, StopReturns, Free, stopVars
  <2>3. CASE RunCheck \/ RunMark
    BY <1>2, <2>3 DEF RunCheck, RunMark, stopVars
  <2>4. CASE UNCHANGED vars
    BY <1>1, <2>4 DEF vars, stopVars
  <2> QED
    BY <1>3, <1>4, <1>5, <1>6, <2>1, <2>2, <2>3, <2>4 DEF Next, Owner, Loop

LEMMA Step == IInv /\ [Next]_vars => IInv'
  BY TypeStep, CountStep DEF IInv

-----------------------------------------------------------------------------
\* Type correctness, for every bound on the data.
THEOREM LifecycleTypes == Spec => []TypeOK
<1>1. Init => TypeOK
  BY InitHolds DEF IInv
<1> QED
  BY <1>1, TypeStep, PTL DEF Spec

\* What the pool had flagged when stop woke the loop is written before the loop
\* ends (CLoop.cpp:18-27, async.c:104-119), for any number of sends before, during
\* and after the stop, and whatever the owner does.
THEOREM FlushedAtStop == Spec => []StopFlushes
<1>1. IInv => StopFlushes
  BY DEF IInv
<1> QED
  BY <1>1, InitHolds, Step, PTL DEF Spec
=============================================================================
