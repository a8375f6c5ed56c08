-------------------------- MODULE AsyncPool_proofs --------------------------
(***************************************************************************)
(* Proofs about AsyncPool, for every pool size, set of senders and set of  *)
(* connections.                                                            *)
(***************************************************************************)
EXTENDS AsyncPool, SequenceTheorems, TLAPS

\* What a rotation of the deque by k looks like.
LEMMA RotatedShape ==
    ASSUME TypeOK, NEW k \in 1 .. Size
    PROVE  /\ Rotated(k) \in [1 .. Size -> Ids]
           /\ \A j \in 1 .. Size :
                Rotated(k)[j] = IF j <= Size - k THEN queue[j + k]
                                                 ELSE queue[j - (Size - k)]
<1> DEFINE front == SubSeq(queue, 1, k)
           back  == SubSeq(queue, k + 1, Size)
<1>1. Size \in Nat /\ Size >= 1
  BY PoolAssumption
<1>2. queue \in Seq(Ids) /\ Len(queue) = Size
  BY <1>1 DEF TypeOK
<1>3. /\ front \in Seq(Ids) /\ Len(front) = k
      /\ \A j \in 1 .. k : front[j] = queue[j]
  BY <1>1, <1>2, SubSeqProperties DEF TypeOK
<1>4. /\ back \in Seq(Ids) /\ Len(back) = Size - k
      /\ \A j \in 1 .. Size - k : back[j] = queue[k + j]
  <2>1. \A i \in k + 1 .. Size : queue[i] \in Ids
    BY <1>1 DEF TypeOK
  <2>2. /\ back \in Seq(Ids)
        /\ Len(back) = IF k + 1 <= Size THEN Size - (k + 1) + 1 ELSE 0
        /\ \A j \in 1 .. Size - (k + 1) + 1 : back[j] = queue[(k + 1) + j - 1]
    BY <1>1, <2>1, SubSeqProperties
  <2> QED
    BY <1>1, <2>2
<1>5. Rotated(k) = back \o front
  BY <1>2 DEF Rotated
<1> HIDE DEF front, back
<1>6. /\ Rotated(k) \in Seq(Ids) /\ Len(Rotated(k)) = Size
      /\ \A j \in 1 .. Size : Rotated(k)[j] =
            IF j <= Size - k THEN back[j] ELSE front[j - (Size - k)]
  <2>1. /\ back \o front \in Seq(Ids)
        /\ Len(back \o front) = Len(back) + Len(front)
        /\ \A j \in 1 .. Len(back) + Len(front) : (back \o front)[j] =
              IF j <= Len(back) THEN back[j] ELSE front[j - Len(back)]
    BY <1>3, <1>4, ConcatProperties
  <2>2. Len(back) + Len(front) = Size
    BY <1>1, <1>3, <1>4
  <2> QED
    BY <1>4, <1>5, <2>1, <2>2
<1>7. Rotated(k) \in [1 .. Size -> Ids]
  BY <1>6, LenProperties
<1> QED
  BY <1>1, <1>3, <1>4, <1>6, <1>7, SMTT(40)

\* What acquireOneUvAsync and acquireManyUvAsync hand out.
LEMMA GrantedShape ==
    ASSUME TypeOK, NEW s \in Senders, NEW k \in 1 .. Size, Granted(s, k)
    PROVE  /\ held' \in [Senders -> Seq(Ids)]
           /\ Len(held'[s]) = k
           /\ \A j \in 1 .. k : held'[s][j] = queue[j]
           /\ part' \in [Senders -> 1 .. MaxParts] /\ part'[s] = 1
           /\ queue' = Rotated(k)
           /\ pc' = [pc EXCEPT ![s] = "check"]
<1>1. Size \in Nat /\ Size >= 1 /\ MaxParts \in Nat /\ MaxParts >= 1
  BY PoolAssumption
<1>2. /\ SubSeq(queue, 1, k) \in Seq(Ids) /\ Len(SubSeq(queue, 1, k)) = k
      /\ \A j \in 1 .. k : SubSeq(queue, 1, k)[j] = queue[j]
  BY <1>1, SubSeqProperties DEF TypeOK
<1> QED
  BY <1>1, <1>2 DEF Granted, Goto, TypeOK

\* A call that sends holds exactly the asyncs it asked for, and the part it is
\* at has one of them: asyncResult is never indexed outside (CAsyncs.cpp:357-366).
PartInBatch ==
    \A s \in Senders :
        /\ Sending(s) => Len(held[s]) = num[s] /\ part[s] <= num[s]
        /\ pc[s] = "one" => num[s] = 1

\* The asyncs of the deque and the part at hand are real asyncs.
LEMMA CurrentIsId ==
    ASSUME TypeOK, PartInBatch, NEW s \in Senders, Sending(s)
    PROVE  Current(s) \in Ids
<1>1. held[s] \in Seq(Ids) /\ part[s] \in 1 .. Len(held[s])
  BY PoolAssumption DEF TypeOK, PartInBatch
<1> QED
  BY <1>1, ElementOfSeq DEF Current

\* A call under way has been counted, so its contexts carry a proper number.
CallCounted == \A s \in Senders : pc[s] # "idle" => call[s] \in 1 .. MaxCalls

Shape == TypeOK /\ PartInBatch /\ CallCounted

LEMMA InitShape == Init => Shape
<1> SUFFICES ASSUME Init PROVE Shape
  OBVIOUS
<1>1. /\ queue \in [1 .. Size -> Ids] /\ cursor \in Ids
      /\ num \in [Senders -> 1 .. MaxParts] /\ part \in [Senders -> 1 .. MaxParts]
      /\ tried \in [Senders -> 0 .. Size] /\ call \in [Senders -> 0 .. MaxCalls]
  BY PoolAssumption DEF Init, Ids
<1>2. held \in [Senders -> Seq(Ids)] /\ wire \in [Peers -> Seq(Ctx)]
  BY EmptySeq DEF Init
<1>3. /\ data \in [Ids -> Ctx \cup {NoCtx}] /\ pending \in [Ids -> BOOLEAN]
      /\ pc \in [Senders -> Labels] /\ conn \in [Peers -> {"open", "closing", "gone"}]
  BY DEF Init, Labels
<1>4. TypeOK
  BY <1>1, <1>2, <1>3 DEF Init, TypeOK
<1>5. PartInBatch
  BY DEF Init, PartInBatch, Sending
<1> QED
  BY <1>4, <1>5 DEF Shape, CallCounted, Init

\* The visit of one async ends on another async of the pool.
LEMMA AdvanceType ==
    ASSUME TypeOK, Advance
    PROVE  cursor' \in Ids /\ loopPc' \in {"poll", "scan"}
BY PoolAssumption DEF Advance, TypeOK, Ids

\* The next part of a message is one the batch has an async for.
LEMMA NextPartType ==
    ASSUME Shape, NEW s \in Senders, Sending(s), NextPart(s)
    PROVE  /\ pc' \in [Senders -> Labels]
           /\ part' \in [Senders -> 1 .. MaxParts]
           /\ part'[s] <= num[s] /\ pc'[s] # "one"
           /\ \A t \in Senders \ {s} : part'[t] = part[t] /\ pc'[t] = pc[t]
<1>1. /\ num[s] \in 1 .. MaxParts /\ part[s] \in 1 .. MaxParts
      /\ Len(held[s]) = num[s] /\ part[s] <= num[s]
      /\ pc \in [Senders -> Labels] /\ part \in [Senders -> 1 .. MaxParts]
  BY DEF Shape, TypeOK, PartInBatch
<1>2. MaxParts \in Nat
  BY PoolAssumption
<1>3. CASE part[s] < Len(held[s])
  <2>1. part[s] + 1 \in 1 .. MaxParts /\ part[s] + 1 <= num[s]
    BY <1>1, <1>2, <1>3
  <2>2. part' = [part EXCEPT ![s] = part[s] + 1] /\ pc' = [pc EXCEPT ![s] = "check"]
    BY <1>3 DEF NextPart, Goto
  <2> QED
    BY <1>1, <2>1, <2>2 DEF Labels
<1>4. CASE ~ (part[s] < Len(held[s]))
  <2>1. part' = part /\ pc' = [pc EXCEPT ![s] = "idle"]
    BY <1>4 DEF NextPart, Goto
  <2> QED
    BY <1>1, <2>1 DEF Labels
<1> QED
  BY <1>3, <1>4

LEMMA NextShape == Shape /\ [Next]_vars => Shape'
<1> SUFFICES ASSUME Shape, [Next]_vars PROVE Shape'
  OBVIOUS
<1> USE DEF Shape
<1>1. ASSUME NEW s \in Senders, NEW p \in Peers, NEW n \in 1 .. MaxParts,
             NEW route \in {"one", "many"}, Call(s, p, n, route)
      PROVE  Shape'
  <2>1. /\ call' \in [Senders -> 0 .. MaxCalls] /\ peer' \in [Senders -> Peers]
        /\ num' \in [Senders -> 1 .. MaxParts] /\ pc' \in [Senders -> Labels]
    BY <1>1, PoolAssumption DEF Call, Goto, TypeOK, Labels
  <2>2. TypeOK'
    BY <1>1, <2>1 DEF Call, TypeOK, poolVars, outVars
  <2>3. PartInBatch'
    BY <1>1 DEF Call, Goto, TypeOK, PartInBatch, Sending
  <2>4. call[s] + 1 \in 1 .. MaxCalls
    BY <1>1, PoolAssumption DEF Call, TypeOK
  <2>5. CallCounted'
    BY <1>1, <2>4 DEF Call, Goto, TypeOK, CallCounted
  <2> QED
    BY <2>2, <2>3, <2>5
<1>2. ASSUME NEW s \in Senders, AcquireOne(s) PROVE Shape'
  <2>1. 1 \in 1 .. Size
    BY PoolAssumption
  <2>2. CASE Granted(s, 1)
    <3>1. /\ queue' \in [1 .. Size -> Ids] /\ held' \in [Senders -> Seq(Ids)]
          /\ part' \in [Senders -> 1 .. MaxParts] /\ pc' \in [Senders -> Labels]
      BY <2>1, <2>2, GrantedShape, RotatedShape, ZenonT(60) DEF TypeOK, Labels
    <3>2. TypeOK'
      BY <1>2, <3>1 DEF AcquireOne, TypeOK, outVars
    <3>3. PartInBatch' /\ CallCounted'
      BY <1>2, <2>1, <2>2, GrantedShape
         DEF AcquireOne, Granted, Goto, TypeOK, PartInBatch, CallCounted, Sending
    <3> QED
      BY <3>2, <3>3
  <2>3. CASE Refused(s)
    <3>1. pc' \in [Senders -> Labels]
      BY <2>3 DEF Refused, Goto, TypeOK, Labels
    <3>2. TypeOK'
      BY <1>2, <2>3, <3>1 DEF AcquireOne, Refused, TypeOK, outVars
    <3>3. PartInBatch' /\ CallCounted'
      BY <1>2, <2>3 DEF AcquireOne, Refused, Goto, TypeOK, PartInBatch, CallCounted, Sending
    <3> QED
      BY <3>2, <3>3
  <2> QED
    BY <1>2, <2>2, <2>3 DEF AcquireOne
<1>3. ASSUME NEW s \in Senders, BeginSearch(s) PROVE Shape'
  <2>1. lock' \in Senders \cup {NoSender} /\ pc' \in [Senders -> Labels]
    BY <1>3 DEF BeginSearch, Goto, TypeOK, Labels
  <2>4. 0 \in 0 .. Size
    BY PoolAssumption
  <2>5. tried' \in [Senders -> 0 .. Size]
    BY <1>3, <2>4 DEF BeginSearch, TypeOK
  <2>2. TypeOK'
    BY <1>3, <2>1, <2>5 DEF BeginSearch, TypeOK, outVars
  <2>3. PartInBatch' /\ CallCounted'
    BY <1>3 DEF BeginSearch, Goto, TypeOK, PartInBatch, CallCounted, Sending
  <2> QED
    BY <2>2, <2>3
<1>4. ASSUME NEW s \in Senders, Search(s) PROVE Shape'
  <2>1. num[s] \in 1 .. MaxParts /\ tried[s] \in 0 .. Size
    BY DEF TypeOK
  <2>2. CASE tried[s] + num[s] <= MaxPos /\ BatchAtHead(num[s])
    <3>1. Granted(s, num[s]) /\ lock' = NoSender /\ UNCHANGED tried
      BY <1>4, <2>2, <2>1, PoolAssumption DEF Search, MaxPos
    <3>2. num[s] \in 1 .. Size
      BY <2>1, <2>2, PoolAssumption DEF MaxPos
    <3>3. /\ queue' \in [1 .. Size -> Ids] /\ held' \in [Senders -> Seq(Ids)]
          /\ part' \in [Senders -> 1 .. MaxParts] /\ pc' \in [Senders -> Labels]
      BY <3>1, <3>2, GrantedShape, RotatedShape, ZenonT(60) DEF TypeOK, Labels
    <3>4. TypeOK'
      BY <1>4, <3>1, <3>3 DEF Search, TypeOK, outVars
    <3>5. PartInBatch' /\ CallCounted'
      BY <1>4, <2>1, <3>1, <3>2, GrantedShape
         DEF Search, Granted, Goto, TypeOK, PartInBatch, CallCounted, Sending
    <3> QED
      BY <3>4, <3>5
  <2>3. CASE tried[s] + num[s] <= MaxPos /\ ~ BatchAtHead(num[s])
    <3>1. /\ queue' = Rotated(1) /\ tried' = [tried EXCEPT ![s] = @ + 1]
          /\ UNCHANGED <<lock, pc, held, part>>
      BY <1>4, <2>3, <2>1, PoolAssumption DEF Search, NextTry, MaxPos
    <3>2. /\ queue' \in [1 .. Size -> Ids]
      BY <3>1, RotatedShape, PoolAssumption
    <3>3. tried' \in [Senders -> 0 .. Size]
      <4>1. tried[s] + 1 \in 0 .. Size
        BY <2>1, <2>3, PoolAssumption DEF MaxPos
      <4> QED
        BY <3>1, <4>1 DEF TypeOK
    <3>4. TypeOK'
      BY <1>4, <3>1, <3>2, <3>3 DEF Search, TypeOK, outVars
    <3>5. PartInBatch' /\ CallCounted'
      BY <1>4, <3>1 DEF Search, TypeOK, PartInBatch, CallCounted, Sending
    <3> QED
      BY <3>4, <3>5
  <2>4. CASE tried[s] + num[s] > MaxPos
    <3>1. Refused(s) /\ lock' = NoSender /\ UNCHANGED tried
      BY <1>4, <2>1, <2>4, PoolAssumption DEF Search, MaxPos
    <3>2. pc' \in [Senders -> Labels]
      BY <3>1 DEF Refused, Goto, TypeOK, Labels
    <3>3. TypeOK'
      BY <1>4, <3>1, <3>2 DEF Search, Refused, TypeOK, outVars
    <3>4. PartInBatch' /\ CallCounted'
      BY <1>4, <3>1 DEF Search, Refused, Goto, TypeOK, PartInBatch, CallCounted, Sending
    <3> QED
      BY <3>3, <3>4
  <2> QED
    BY <2>1, <2>2, <2>3, <2>4, PoolAssumption DEF MaxPos
<1>5. ASSUME NEW s \in Senders, Check(s) PROVE Shape'
  <2>1. pc' \in [Senders -> Labels]
    BY <1>5 DEF Check, Goto, TypeOK, Labels
  <2>2. TypeOK'
    BY <1>5, <2>1 DEF Check, TypeOK, poolVars, outVars
  <2>3. PartInBatch' /\ CallCounted'
    BY <1>5 DEF Check, Goto, TypeOK, PartInBatch, CallCounted, Sending
  <2> QED
    BY <2>2, <2>3
<1>6. ASSUME NEW s \in Senders, Store(s) PROVE Shape'
  <2>1. pc' \in [Senders -> Labels]
    BY <1>6 DEF Store, Goto, TypeOK, Labels
  <2>2. CurrentCtx(s) \in Ctx
    BY <1>6 DEF Store, CurrentCtx, Ctx, TypeOK, CallCounted
  <2>3. data' \in [Ids -> Ctx \cup {NoCtx}]
    BY <1>6, <2>2 DEF Store, TypeOK
  <2>4. TypeOK'
    BY <1>6, <2>1, <2>2, <2>3 DEF Store, TypeOK, poolVars, outVars
  <2>5. PartInBatch' /\ CallCounted'
    BY <1>6 DEF Store, Goto, TypeOK, PartInBatch, CallCounted, Sending
  <2> QED
    BY <2>4, <2>5
<1>7. ASSUME NEW s \in Senders, Flag(s) PROVE Shape'
  <2>1. Sending(s) /\ pending' \in [Ids -> BOOLEAN]
    BY <1>7 DEF Flag, Sending, TypeOK
  <2>2. CASE pending[Current(s)]
    <3>1. NextPart(s)
      BY <1>7, <2>2 DEF Flag
    <3>2. TypeOK'
      BY <1>7, <2>1, <3>1, NextPartType DEF Flag, TypeOK, poolVars, outVars
    <3>3. PartInBatch' /\ CallCounted'
      BY <1>7, <2>1, <3>1, NextPartType DEF Flag, PartInBatch, CallCounted, Sending
    <3> QED
      BY <3>2, <3>3
  <2>3. CASE ~ pending[Current(s)]
    <3>1. UNCHANGED part /\ pc' = [pc EXCEPT ![s] = "wake"]
      BY <1>7, <2>3 DEF Flag, Goto
    <3>2. pc' \in [Senders -> Labels]
      BY <3>1 DEF TypeOK, Labels
    <3>3. TypeOK'
      BY <1>7, <2>1, <3>1, <3>2 DEF Flag, TypeOK, poolVars, outVars
    <3>4. PartInBatch' /\ CallCounted'
      BY <1>7, <2>1, <3>1 DEF Flag, TypeOK, PartInBatch, CallCounted, Sending
    <3> QED
      BY <3>3, <3>4
  <2> QED
    BY <2>2, <2>3
<1>8. ASSUME NEW s \in Senders, Wake(s) PROVE Shape'
  <2>1. Sending(s) /\ NextPart(s)
    BY <1>8 DEF Wake, Sending
  <2>2. TypeOK'
    BY <1>8, <2>1, NextPartType DEF Wake, TypeOK, poolVars, outVars
  <2>3. PartInBatch' /\ CallCounted'
    BY <1>8, <2>1, NextPartType DEF Wake, PartInBatch, CallCounted, Sending
  <2> QED
    BY <2>2, <2>3
<1>9. CASE Drain
  <2>1. 0 \in Ids
    BY PoolAssumption DEF Ids
  <2>2. TypeOK'
    BY <1>9, <2>1 DEF Drain, TypeOK, poolVars, senderVars, outVars
  <2>3. PartInBatch' /\ CallCounted'
    BY <1>9 DEF Drain, PartInBatch, CallCounted, Sending, senderVars
  <2> QED
    BY <2>2, <2>3
<1>10. CASE Visit
  <2>1. cursor' \in Ids /\ loopPc' \in {"poll", "scan", "deliver", "release"}
    <3>1. CASE pending[cursor]
      BY <1>10, <3>1 DEF Visit, TypeOK
    <3>2. CASE ~ pending[cursor]
      BY <1>10, <3>2, AdvanceType DEF Visit
    <3> QED
      BY <3>1, <3>2
  <2>2. pending' \in [Ids -> BOOLEAN]
    BY <1>10 DEF Visit, TypeOK
  <2>3. TypeOK'
    BY <1>10, <2>1, <2>2 DEF Visit, TypeOK, poolVars, senderVars, outVars
  <2>4. PartInBatch' /\ CallCounted'
    BY <1>10 DEF Visit, PartInBatch, CallCounted, Sending, senderVars
  <2> QED
    BY <2>3, <2>4
<1>11. CASE Deliver
  <2> DEFINE ctx == data[cursor]
  <2>1. UNCHANGED <<poolVars, data, pending, wakeup, conn, senderVars>>
    BY <1>11 DEF Deliver
  <2>2. CASE ctx = NoCtx
    <3>1. Advance /\ UNCHANGED outVars
      BY <1>11, <2>2 DEF Deliver
    <3>2. TypeOK'
      BY <2>1, <3>1, AdvanceType DEF TypeOK, poolVars, senderVars, outVars
    <3> QED
      BY <2>1, <3>2 DEF PartInBatch, CallCounted, Sending, senderVars
  <2>3. CASE ctx # NoCtx
    <3>1. ctx \in Ctx /\ ctx.peer \in Peers
      BY <2>3 DEF TypeOK, Ctx
    <3>2. loopPc' = "release" /\ UNCHANGED cursor
      BY <1>11, <2>3 DEF Deliver
    <3>3. /\ wire' \in [Peers -> Seq(Ctx)]
          /\ freed' \subseteq Ctx /\ leaked' \subseteq Ctx
      <4>1. CASE /\ wire' = [wire EXCEPT ![ctx.peer] = Append(@, ctx)]
                 /\ UNCHANGED <<freed, leaked>>
        <5>1. Append(wire[ctx.peer], ctx) \in Seq(Ctx)
          BY <3>1, AppendProperties DEF TypeOK
        <5> QED
          BY <4>1, <5>1 DEF TypeOK
      <4>2. CASE leaked' = leaked \cup {ctx} /\ UNCHANGED <<wire, freed>>
        BY <3>1, <4>2 DEF TypeOK
      <4>3. CASE freed' = freed \cup {ctx} /\ UNCHANGED <<wire, leaked>>
        BY <3>1, <4>3 DEF TypeOK
      <4> QED
        BY <1>11, <2>3, <4>1, <4>2, <4>3 DEF Deliver, Dispose
    <3>4. TypeOK'
      BY <2>1, <3>2, <3>3 DEF TypeOK, poolVars, senderVars
    <3> QED
      BY <2>1, <3>4 DEF PartInBatch, CallCounted, Sending, senderVars
  <2> QED
    BY <2>2, <2>3
<1>12. CASE Release
  <2>1. cursor' \in Ids /\ loopPc' \in {"poll", "scan", "deliver", "release"}
    BY <1>12, AdvanceType DEF Release
  <2>2. data' \in [Ids -> Ctx \cup {NoCtx}]
    BY <1>12 DEF Release, TypeOK
  <2>3. TypeOK'
    BY <1>12, <2>1, <2>2 DEF Release, TypeOK, poolVars, senderVars, outVars
  <2>4. PartInBatch' /\ CallCounted'
    BY <1>12 DEF Release, PartInBatch, CallCounted, Sending, senderVars
  <2> QED
    BY <2>3, <2>4
<1>13. ASSUME NEW p \in Peers, Close(p) PROVE Shape'
  <2>1. conn' \in [Peers -> {"open", "closing", "gone"}]
    BY <1>13 DEF Close, TypeOK
  <2>2. TypeOK'
    BY <1>13, <2>1 DEF Close, TypeOK, poolVars, senderVars, outVars
  <2>3. PartInBatch' /\ CallCounted'
    BY <1>13 DEF Close, PartInBatch, CallCounted, Sending, senderVars
  <2> QED
    BY <2>2, <2>3
<1>14. CASE UNCHANGED vars
  <2>1. TypeOK'
    BY <1>14 DEF TypeOK, vars, poolVars, senderVars, outVars
  <2>2. PartInBatch' /\ CallCounted'
    BY <1>14 DEF PartInBatch, CallCounted, Sending, vars, senderVars
  <2> QED
    BY <2>1, <2>2
<1> QED
  BY <1>1, <1>2, <1>3, <1>4, <1>5, <1>6, <1>7, <1>8, <1>9, <1>10, <1>11, <1>12,
     <1>13, <1>14 DEF Next, Send, Loop

\* The type invariant, for every pool, every set of threads and connections.
THEOREM TypeCorrect == Spec => []TypeOK
<1>1. Spec => []Shape
  BY InitShape, NextShape, PTL DEF Spec
<1>2. Shape => TypeOK
  BY DEF Shape
<1> QED
  BY <1>1, <1>2, PTL

-----------------------------------------------------------------------------
(* The deque stays a rotation of the ids, so batches are consecutive.      *)

\* Rotating a rotation by k gives a rotation.
LEMMA RotatedRotation ==
    ASSUME TypeOK, Rotation, NEW k \in 1 .. Size, queue' = Rotated(k)
    PROVE  Rotation'
<1>1. Size \in Nat /\ Size >= 1
  BY PoolAssumption
<1>2. \A j \in 1 .. Size : queue[j] \in 0 .. Size - 1
  BY DEF TypeOK, Ids
<1>3. \A j \in 1 .. Size :
        queue'[j] = IF j <= Size - k THEN queue[j + k] ELSE queue[j - (Size - k)]
  BY RotatedShape
<1>4. \A j \in 1 .. Size : queue[j] = After(queue[1], j - 1)
  BY DEF Rotation
<1>5. SUFFICES ASSUME NEW j \in 1 .. Size PROVE queue'[j] = After(queue'[1], j - 1)
  BY DEF Rotation, After
<1>6. CASE k = Size
  BY <1>1, <1>2, <1>3, <1>4, <1>6 DEF After
<1>7. CASE k < Size
  <2>1. queue'[1] = queue[1 + k]
    BY <1>1, <1>3, <1>7
  <2>2. queue[1 + k] = After(queue[1], k)
    BY <1>1, <1>4, <1>7
  <2>3. CASE j <= Size - k
    <3>1. queue'[j] = After(queue[1], j + k - 1)
      BY <1>1, <1>3, <1>4, <1>7, <2>3
    <3> QED
      BY <1>1, <1>2, <1>7, <2>1, <2>2, <2>3, <3>1 DEF After
  <2>4. CASE j > Size - k
    <3>1. queue'[j] = After(queue[1], j - (Size - k) - 1)
      BY <1>1, <1>3, <1>4, <1>7, <2>4
    <3> QED
      BY <1>1, <1>2, <1>7, <2>1, <2>2, <2>4, <3>1 DEF After
  <2> QED
    BY <1>1, <1>7, <2>3, <2>4
<1> QED
  BY <1>1, <1>6, <1>7

\* Ascending ids at the head of a rotation are consecutive: a batch that went
\* over the wrap would descend there.
LEMMA BatchIsConsecutive ==
    ASSUME TypeOK, Rotation, NEW n \in 1 .. Size, BatchAtHead(n)
    PROVE  \A k \in 1 .. n : queue[k] = queue[1] + k - 1
<1>1. Size \in Nat /\ Size >= 1
  BY PoolAssumption
<1>2. \A j \in 1 .. Size : queue[j] \in 0 .. Size - 1 /\ queue[j] = After(queue[1], j - 1)
  BY DEF TypeOK, Ids, Rotation
<1>3. SUFFICES ASSUME NEW k \in 1 .. n, queue[1] + (k - 1) >= Size PROVE FALSE
  BY <1>1, <1>2 DEF After
<1> DEFINE last == Size - queue[1]
<1>4. queue[1] \in 0 .. Size - 1
  BY <1>1, <1>2
<1>5. last \in 1 .. n - 1 /\ last + 1 \in 1 .. Size
  BY <1>1, <1>3, <1>4
<1>6. queue[last] = Size - 1 /\ queue[last + 1] = 0
  <2>1. last \in 1 .. Size
    BY <1>1, <1>5
  <2>2. queue[last] = After(queue[1], last - 1) /\ queue[last + 1] = After(queue[1], last)
    BY <1>1, <1>2, <1>5, <2>1
  <2> QED
    BY <1>1, <1>4, <1>5, <2>2 DEF After
<1>7. queue[last] <= queue[last + 1]
  BY <1>5 DEF BatchAtHead
<1> QED
  BY <1>1, <1>5, <1>6, <1>7

Ordered == Rotation /\ BatchConsecutive

LEMMA InitOrdered == Init => Ordered
<1> SUFFICES ASSUME Init PROVE Ordered
  OBVIOUS
<1>1. Size \in Nat /\ Size >= 1
  BY PoolAssumption
<1>2. \A k \in 1 .. Size : queue[k] = k - 1
  BY DEF Init
<1>3. Rotation
  BY <1>1, <1>2 DEF Rotation, After
<1>4. BatchConsecutive
  BY DEF Init, BatchConsecutive, Sending
<1> QED
  BY <1>3, <1>4 DEF Ordered

LEMMA NextOrdered == Shape /\ Ordered /\ [Next]_vars => Ordered'
<1> SUFFICES ASSUME Shape, Ordered, [Next]_vars PROVE Ordered'
  OBVIOUS
<1> USE DEF Shape, Ordered
<1>1. ASSUME UNCHANGED <<queue, held>>, \A s \in Senders : Sending(s)' => Sending(s)
      PROVE  Ordered'
  <2>1. Rotation'
    BY <1>1 DEF Rotation, After
  <2>2. BatchConsecutive'
    BY <1>1 DEF BatchConsecutive
  <2> QED
    BY <2>1, <2>2
<1>2. ASSUME NEW s \in Senders, NEW k \in 1 .. Size, Granted(s, k),
             \A j \in 1 .. k : queue[j] = queue[1] + j - 1
      PROVE  Ordered'
  <2>1. Rotation'
    BY <1>2, GrantedShape, RotatedRotation
  <2>2. \A j \in 1 .. Len(held'[s]) : held'[s][j] = held'[s][1] + j - 1
    BY <1>2, GrantedShape, PoolAssumption
  <2>3. \A t \in Senders \ {s} : held'[t] = held[t] /\ (Sending(t)' => Sending(t))
    BY <1>2 DEF Granted, Goto, TypeOK, Sending
  <2>4. BatchConsecutive'
    BY <2>2, <2>3 DEF BatchConsecutive
  <2> QED
    BY <2>1, <2>4
<1>3. ASSUME NEW s \in Senders, AcquireOne(s) PROVE Ordered'
  <2>1. CASE Granted(s, 1)
    <3>1. 1 \in 1 .. Size /\ queue[1] \in Int
      BY PoolAssumption DEF TypeOK, Ids
    <3> QED
      BY <1>2, <2>1, <3>1
  <2>2. CASE Refused(s)
    BY <1>1, <2>2 DEF Refused, Goto, TypeOK, Sending
  <2> QED
    BY <1>3, <2>1, <2>2 DEF AcquireOne
<1>4. ASSUME NEW s \in Senders, Search(s) PROVE Ordered'
  <2>1. num[s] \in 1 .. MaxParts /\ tried[s] \in 0 .. Size
    BY DEF TypeOK
  <2>2. CASE BatchAtHead(num[s]) /\ Granted(s, num[s]) /\ tried[s] + num[s] <= MaxPos
    <3>1. num[s] \in 1 .. Size
      BY <2>1, <2>2, PoolAssumption DEF MaxPos
    <3> QED
      BY <1>2, <2>2, <3>1, BatchIsConsecutive
  <2>3. CASE queue' = Rotated(1) /\ UNCHANGED <<pc, held>>
    <3>1. Rotation'
      BY <2>3, RotatedRotation, PoolAssumption
    <3>2. BatchConsecutive'
      BY <2>3 DEF BatchConsecutive, Sending
    <3> QED
      BY <3>1, <3>2
  <2>4. CASE Refused(s)
    BY <1>1, <2>4 DEF Refused, Goto, TypeOK, Sending
  <2> QED
    BY <1>4, <2>2, <2>3, <2>4 DEF Search
<1>5. ASSUME NEW s \in Senders, NEW p \in Peers, NEW n \in 1 .. MaxParts,
             NEW route \in {"one", "many"}, Call(s, p, n, route)
      PROVE  Ordered'
  BY <1>1, <1>5 DEF Call, Goto, TypeOK, Sending, poolVars
<1>6. ASSUME NEW s \in Senders, BeginSearch(s) PROVE Ordered'
  BY <1>1, <1>6 DEF BeginSearch, Goto, TypeOK, Sending
<1>7. ASSUME NEW s \in Senders, Check(s) PROVE Ordered'
  BY <1>1, <1>7 DEF Check, Goto, TypeOK, Sending, poolVars
<1>8. ASSUME NEW s \in Senders, Store(s) PROVE Ordered'
  BY <1>1, <1>8 DEF Store, Goto, TypeOK, Sending, poolVars
<1>9. ASSUME NEW s \in Senders, Flag(s) PROVE Ordered'
  BY <1>1, <1>9 DEF Flag, NextPart, Goto, TypeOK, Sending, poolVars
<1>10. ASSUME NEW s \in Senders, Wake(s) PROVE Ordered'
  BY <1>1, <1>10 DEF Wake, NextPart, Goto, TypeOK, Sending, poolVars
<1>11. CASE Loop
  BY <1>1, <1>11 DEF Loop, Drain, Visit, Deliver, Release, Sending, poolVars, senderVars
<1>12. ASSUME NEW p \in Peers, Close(p) PROVE Ordered'
  BY <1>1, <1>12 DEF Close, Sending, poolVars, senderVars
<1>13. CASE UNCHANGED vars
  BY <1>1, <1>13 DEF vars, Sending, poolVars, senderVars
<1> QED
  BY <1>3, <1>4, <1>5, <1>6, <1>7, <1>8, <1>9, <1>10, <1>11, <1>12, <1>13 DEF Next, Send

\* Whatever mix of single and batch acquisitions the threads make, the deque is
\* a rotation of the ids and every batch is a run of consecutive ids.
THEOREM PoolOrdered == Spec => [](Rotation /\ BatchConsecutive)
<1>1. Spec => [](Shape /\ Ordered)
  BY InitShape, NextShape, InitOrdered, NextOrdered, PTL DEF Spec
<1>2. Shape /\ Ordered => Rotation /\ BatchConsecutive
  BY DEF Ordered
<1> QED
  BY <1>1, <1>2, PTL

-----------------------------------------------------------------------------
(* Every taken async has a dispatch to come.                               *)

Dispatching == NoLostWakeup /\ NoStrandedSlot

LEMMA InitDispatching == Init => Dispatching
BY DEF Init, Dispatching, NoLostWakeup, NoStrandedSlot

\* A step of a sender that neither stores, flags nor wakes takes no sender into
\* or out of "flag" and "wake", and touches no async.
LEMMA QuietStep ==
    ASSUME Dispatching, NEW s \in Senders,
           pc[s] \notin {"flag", "wake"}, pc' \in [Senders -> Labels],
           \A t \in Senders \ {s} :
              pc'[t] = pc[t] /\ held'[t] = held[t] /\ part'[t] = part[t],
           UNCHANGED <<data, pending, wakeup, loopPc, cursor>>
    PROVE  Dispatching'
<1>1. NoLostWakeup'
  BY DEF Dispatching, NoLostWakeup
<1>2. NoStrandedSlot'
  BY DEF Dispatching, NoStrandedSlot, Current
<1> QED
  BY <1>1, <1>2 DEF Dispatching

LEMMA NextDispatching == Shape /\ Shape' /\ Dispatching /\ [Next]_vars => Dispatching'
<1> SUFFICES ASSUME Shape, Shape', Dispatching, [Next]_vars PROVE Dispatching'
  OBVIOUS
<1>0. pc \in [Senders -> Labels] /\ pc' \in [Senders -> Labels]
      /\ held \in [Senders -> Seq(Ids)] /\ part \in [Senders -> 1 .. MaxParts]
  BY DEF Shape, TypeOK
<1>1. ASSUME NEW s \in Senders, NEW p \in Peers, NEW n \in 1 .. MaxParts,
             NEW route \in {"one", "many"}, Call(s, p, n, route)
      PROVE  Dispatching'
  BY <1>0, <1>1, QuietStep DEF Call, Goto
<1>2. ASSUME NEW s \in Senders, AcquireOne(s) PROVE Dispatching'
  BY <1>0, <1>2, QuietStep DEF AcquireOne, Granted, Refused, Goto
<1>3. ASSUME NEW s \in Senders, BeginSearch(s) PROVE Dispatching'
  BY <1>0, <1>3, QuietStep DEF BeginSearch, Goto
<1>4. ASSUME NEW s \in Senders, Search(s) PROVE Dispatching'
  BY <1>0, <1>4, QuietStep DEF Search, Granted, Refused, Goto
<1>5. ASSUME NEW s \in Senders, Check(s) PROVE Dispatching'
  BY <1>0, <1>5, QuietStep DEF Check, Goto
<1>6. ASSUME NEW s \in Senders, Store(s) PROVE Dispatching'
  <2>1. NoLostWakeup'
    BY <1>0, <1>6 DEF Dispatching, NoLostWakeup, Store, Goto
  <2>2. NoStrandedSlot'
    <3>1. \A i \in Ids : i # Current(s) => data'[i] = data[i]
      BY <1>6 DEF Store, Shape, TypeOK
    <3>2. pc'[s] = "flag" /\ Current(s)' = Current(s)
      BY <1>0, <1>6 DEF Store, Goto, Current
    <3>3. \A t \in Senders : pc[t] = "flag" => pc'[t] = "flag" /\ Current(t)' = Current(t)
      BY <1>0, <1>6 DEF Store, Goto, Current
    <3> QED
      BY <1>6, <3>1, <3>2, <3>3 DEF Dispatching, NoStrandedSlot, Store
  <2> QED
    BY <2>1, <2>2 DEF Dispatching
<1>7. ASSUME NEW s \in Senders, Flag(s) PROVE Dispatching'
  <2>1. Current(s) \in Ids
    BY <1>7, CurrentIsId DEF Flag, Shape, Sending
  <2>2. \A t \in Senders \ {s} : pc'[t] = pc[t] /\ Current(t)' = Current(t)
    BY <1>0, <1>7 DEF Flag, NextPart, Goto, Current
  <2>3. UNCHANGED <<data, wakeup, loopPc, cursor>> /\ pc[s] = "flag"
    BY <1>7 DEF Flag
  <2>4. CASE pending[Current(s)]
    <3>1. UNCHANGED pending
      BY <1>7, <2>4 DEF Flag
    <3>2. NoLostWakeup'
      BY <2>2, <2>3, <3>1 DEF Dispatching, NoLostWakeup
    <3>3. NoStrandedSlot'
      BY <2>2, <2>3, <2>4, <3>1 DEF Dispatching, NoStrandedSlot
    <3> QED
      BY <3>2, <3>3 DEF Dispatching
  <2>5. CASE ~ pending[Current(s)]
    <3>1. /\ pending' = [pending EXCEPT ![Current(s)] = TRUE]
          /\ pc'[s] = "wake"
      BY <1>0, <1>7, <2>5 DEF Flag, Goto
    <3>2. pending'[Current(s)] /\ \A i \in Ids : pending[i] => pending'[i]
      BY <2>1, <3>1 DEF Shape, TypeOK
    <3>3. NoLostWakeup'
      BY <3>1 DEF NoLostWakeup
    <3>4. NoStrandedSlot'
      BY <2>2, <2>3, <3>2 DEF Dispatching, NoStrandedSlot
    <3> QED
      BY <3>3, <3>4 DEF Dispatching
  <2> QED
    BY <2>4, <2>5
<1>8. ASSUME NEW s \in Senders, Wake(s) PROVE Dispatching'
  <2>1. \A t \in Senders \ {s} : pc'[t] = pc[t] /\ Current(t)' = Current(t)
    BY <1>0, <1>8 DEF Wake, NextPart, Goto, Current
  <2>2. NoLostWakeup'
    BY <1>8 DEF Wake, NoLostWakeup
  <2>3. NoStrandedSlot'
    BY <1>8, <2>1 DEF Wake, Dispatching, NoStrandedSlot
  <2> QED
    BY <2>2, <2>3 DEF Dispatching
<1>9. cursor \in Ids /\ Size \in Nat /\ Size >= 1 /\ \A i \in Ids : i \in 0 .. Size - 1
  BY PoolAssumption DEF Shape, TypeOK, Ids
<1>10. ASSUME UNCHANGED senderVars
       PROVE  \A t \in Senders : pc'[t] = pc[t] /\ Current(t)' = Current(t)
  BY <1>10 DEF senderVars, Current
<1>11. CASE Drain
  <2>1. NoLostWakeup'
    BY <1>9, <1>11 DEF Drain, NoLostWakeup
  <2>2. NoStrandedSlot'
    BY <1>10, <1>11 DEF Drain, Dispatching, NoStrandedSlot
  <2> QED
    BY <2>1, <2>2 DEF Dispatching
<1>12. CASE Visit
  <2>1. CASE pending[cursor]
    <3>1. /\ pending' = [pending EXCEPT ![cursor] = FALSE]
          /\ loopPc' = "deliver" /\ UNCHANGED <<cursor, data, wakeup, senderVars>>
          /\ loopPc = "scan"
      BY <1>12, <2>1 DEF Visit
    <3>2. \A i \in Ids : pending'[i] <=> pending[i] /\ i # cursor
      BY <1>9, <3>1 DEF Shape, TypeOK
    <3>3. NoLostWakeup'
      BY <1>9, <1>10, <3>1, <3>2 DEF Dispatching, NoLostWakeup
    <3>4. NoStrandedSlot'
      BY <1>10, <3>1, <3>2 DEF Dispatching, NoStrandedSlot
    <3> QED
      BY <3>3, <3>4 DEF Dispatching
  <2>2. CASE ~ pending[cursor]
    <3>1. Advance /\ loopPc = "scan" /\ UNCHANGED <<data, pending, wakeup, senderVars>>
      BY <1>12, <2>2 DEF Visit
    <3>2. NoLostWakeup'
      BY <1>9, <1>10, <2>2, <3>1 DEF Advance, Dispatching, NoLostWakeup
    <3>3. NoStrandedSlot'
      BY <1>10, <3>1 DEF Dispatching, NoStrandedSlot
    <3> QED
      BY <3>2, <3>3 DEF Dispatching
  <2> QED
    BY <2>1, <2>2
<1>13. CASE Deliver
  <2>1. loopPc = "deliver" /\ UNCHANGED <<data, pending, wakeup, senderVars>>
    BY <1>13 DEF Deliver
  <2>2. CASE data[cursor] = NoCtx
    <3>1. Advance
      BY <1>13, <2>2 DEF Deliver
    <3>2. NoLostWakeup'
      BY <1>9, <1>10, <2>1, <3>1 DEF Advance, Dispatching, NoLostWakeup
    <3>3. NoStrandedSlot'
      BY <1>10, <2>1, <2>2 DEF Dispatching, NoStrandedSlot
    <3> QED
      BY <3>2, <3>3 DEF Dispatching
  <2>3. CASE data[cursor] # NoCtx
    <3>1. loopPc' = "release" /\ UNCHANGED cursor
      BY <1>13, <2>3 DEF Deliver
    <3>2. NoLostWakeup'
      BY <1>10, <2>1, <3>1 DEF Dispatching, NoLostWakeup
    <3>3. NoStrandedSlot'
      BY <1>10, <2>1, <3>1 DEF Dispatching, NoStrandedSlot
    <3> QED
      BY <3>2, <3>3 DEF Dispatching
  <2> QED
    BY <2>2, <2>3
<1>14. CASE Release
  <2>1. /\ loopPc = "release" /\ Advance /\ UNCHANGED <<pending, wakeup, senderVars>>
        /\ data' = [data EXCEPT ![cursor] = NoCtx]
    BY <1>14 DEF Release
  <2>2. \A i \in Ids : data'[i] # NoCtx => data[i] # NoCtx /\ i # cursor
    BY <1>9, <2>1 DEF Shape, TypeOK
  <2>3. NoLostWakeup'
    BY <1>9, <1>10, <2>1 DEF Advance, Dispatching, NoLostWakeup
  <2>4. NoStrandedSlot'
    BY <1>10, <2>1, <2>2 DEF Dispatching, NoStrandedSlot
  <2> QED
    BY <2>3, <2>4 DEF Dispatching
<1>15. CASE UNCHANGED <<data, pending, wakeup, loopPc, cursor, senderVars>>
  <2>1. NoLostWakeup'
    BY <1>10, <1>15 DEF Dispatching, NoLostWakeup
  <2>2. NoStrandedSlot'
    BY <1>10, <1>15 DEF Dispatching, NoStrandedSlot
  <2> QED
    BY <2>1, <2>2 DEF Dispatching
<1>16. ASSUME NEW p \in Peers, Close(p) PROVE Dispatching'
  BY <1>15, <1>16 DEF Close
<1>17. CASE UNCHANGED vars
  BY <1>15, <1>17 DEF vars
<1> QED
  BY <1>1, <1>2, <1>3, <1>4, <1>5, <1>6, <1>7, <1>8, <1>11, <1>12, <1>13, <1>14,
     <1>16, <1>17 DEF Next, Send, Loop

LEMMA Dispatched == Spec => [](NoLostWakeup /\ NoStrandedSlot)
<1>1. Spec => [](Shape /\ Dispatching)
  BY InitShape, NextShape, InitDispatching, NextDispatching, PTL DEF Spec
<1>2. Shape /\ Dispatching => NoLostWakeup /\ NoStrandedSlot
  BY DEF Dispatching
<1> QED
  BY <1>1, <1>2, PTL

\* However the threads interleave with the scan, and even when two of them were
\* given the same async, a flagged async is ahead of the scan or the eventfd is, or
\* is about to be, readable: uv_async_send loses no wake-up.
THEOREM WakeupsNeverLost == Spec => []NoLostWakeup
  BY Dispatched, PTL

\* Under the same conditions a taken async is flagged or about to be, or its callback
\* is running: the pool leaks no async.
THEOREM SlotsNeverStranded == Spec => []NoStrandedSlot
  BY Dispatched, PTL

-----------------------------------------------------------------------------
(* Nothing is written twice.                                               *)

\* A context that was stored belongs to a part its sender has come past.
Stored(c) ==
    /\ c.call <= call[c.from]
    /\ c.call = call[c.from] =>
        \/ pc[c.from] = "idle"
        \/ pc[c.from] \in {"check", "store"} /\ c.part < part[c.from]
        \/ pc[c.from] \in {"flag", "wake"} /\ c.part <= part[c.from]

Written(c) == \E p \in Peers : \E j \in DOMAIN wire[p] : wire[p][j] = c

\* No context is in two asyncs, and one that was written is in none but the async
\* whose callback is under way.
AtMostOnce ==
    /\ \A i \in Ids : data[i] # NoCtx => Stored(data[i])
    /\ \A c \in Ctx : Written(c) => Stored(c)
    /\ \A i, j \in Ids : data[i] = data[j] /\ data[i] # NoCtx => i = j
    /\ \A i \in Ids : Written(data[i]) => loopPc = "release" /\ i = cursor
    /\ WrittenOnce

LEMMA InitOnce == Init => AtMostOnce
<1> SUFFICES ASSUME Init PROVE AtMostOnce
  OBVIOUS
<1>1. \A i \in Ids : data[i] = NoCtx
  BY DEF Init
<1>2. \A p \in Peers : wire[p] = <<>> /\ DOMAIN wire[p] = {}
  BY DEF Init
<1>3. \A c : ~ Written(c)
  BY <1>2 DEF Written
<1> QED
  BY <1>1, <1>2, <1>3, Zenon DEF AtMostOnce, WrittenOnce

\* A sender's step leaves what was stored behind it.
LEMMA StoredStays ==
    ASSUME Shape, Shape', NEW s \in Senders,
           Send(s) \/ \E p \in Peers, n \in 1 .. MaxParts, r \in {"one", "many"} : Call(s, p, n, r),
           NEW c \in Ctx, Stored(c)
    PROVE  Stored(c)'
<1>1. /\ c.from \in Senders /\ c.call \in 1 .. MaxCalls /\ c.part \in 1 .. MaxParts
      /\ MaxCalls \in Nat /\ MaxParts \in Nat
  BY PoolAssumption DEF Ctx
<1>2. /\ pc \in [Senders -> Labels] /\ call \in [Senders -> 0 .. MaxCalls]
      /\ part \in [Senders -> 1 .. MaxParts]
      /\ pc' \in [Senders -> Labels] /\ call' \in [Senders -> 0 .. MaxCalls]
      /\ part' \in [Senders -> 1 .. MaxParts]
  BY DEF Shape, TypeOK
<1> DEFINE f == c.from
<1>3. CASE UNCHANGED <<pc[f], call[f], part[f]>>
  BY <1>3, Zenon DEF Stored
<1>4. CASE \E p \in Peers, n \in 1 .. MaxParts, r \in {"one", "many"} : Call(s, p, n, r)
  <2>1. call' = [call EXCEPT ![s] = @ + 1] /\ UNCHANGED part /\ \A t \in Senders \ {s} : pc'[t] = pc[t]
    BY <1>2, <1>4 DEF Call, Goto
  <2>2. CASE f = s
    <3>1. call'[f] = call[f] + 1 /\ call[f] \in Nat
      BY <1>1, <1>2, <2>1, <2>2
    <3> QED
      BY <1>1, <3>1 DEF Stored
  <2> QED
    BY <1>1, <1>2, <1>3, <2>1, <2>2
<1>5. CASE AcquireOne(s) \/ BeginSearch(s) \/ Search(s)
  <2>1. /\ pc[s] \in {"one", "many", "search"} /\ UNCHANGED call
        /\ \A t \in Senders \ {s} : pc'[t] = pc[t] /\ part'[t] = part[t]
    BY <1>2, <1>5 DEF AcquireOne, BeginSearch, Search, Granted, Refused, Goto
  <2>2. CASE f = s
    BY <1>1, <2>1, <2>2 DEF Stored
  <2> QED
    BY <1>1, <1>3, <2>1, <2>2
<1>6. CASE Check(s) \/ Store(s)
  <2>1. /\ pc[s] \in {"check", "store"} /\ UNCHANGED <<call, part>>
        /\ pc'[s] \in {"store", "idle", "flag"}
        /\ \A t \in Senders \ {s} : pc'[t] = pc[t]
    BY <1>2, <1>6 DEF Check, Store, Goto
  <2>2. CASE f = s
    BY <1>1, <1>2, <2>1, <2>2 DEF Stored
  <2> QED
    BY <1>1, <1>3, <2>1, <2>2
<1>7. CASE Flag(s) \/ Wake(s)
  <2>1. /\ pc[s] \in {"flag", "wake"} /\ UNCHANGED call
        /\ \/ pc'[s] = "idle"
           \/ pc'[s] = "wake" /\ UNCHANGED part
           \/ pc'[s] = "check" /\ part'[s] = part[s] + 1
        /\ \A t \in Senders \ {s} : pc'[t] = pc[t] /\ part'[t] = part[t]
    BY <1>2, <1>7 DEF Flag, Wake, NextPart, Goto
  <2>2. CASE f = s
    BY <1>1, <1>2, <2>1, <2>2 DEF Stored
  <2> QED
    BY <1>1, <1>3, <2>1, <2>2
<1> QED
  BY <1>4, <1>5, <1>6, <1>7 DEF Send

\* What a step that stores and writes nothing preserves.
LEMMA OnceKept ==
    ASSUME AtMostOnce, UNCHANGED <<data, wire>>,
           loopPc = "release" => UNCHANGED <<loopPc, cursor>>,
           \A c \in Ctx : Stored(c) => Stored(c)',
           \A i \in Ids : data[i] \in Ctx \cup {NoCtx}
    PROVE  AtMostOnce'
<1>1. \A c : Written(c)' <=> Written(c)
  BY Zenon DEF Written
<1>2. WrittenOnce'
  BY Zenon DEF AtMostOnce, WrittenOnce
<1>3. \A i \in Ids : data'[i] # NoCtx => Stored(data[i])'
  BY DEF AtMostOnce
<1>4. \A i \in Ids : data'[i] = data[i]
  BY Zenon
<1>5. \A i \in Ids : Written(data[i])' => loopPc' = "release" /\ i = cursor'
  BY <1>1, <1>4, ZenonT(60) DEF AtMostOnce, Written
<1> QED
  BY <1>1, <1>2, <1>3, <1>4, <1>5, Zenon DEF AtMostOnce

LEMMA StoreOnce ==
    ASSUME Shape, Shape', AtMostOnce, NEW s \in Senders, Store(s)
    PROVE  AtMostOnce'
<1> DEFINE new == CurrentCtx(s)
           k == Current(s)
<1>1. /\ pc[s] = "store" /\ data' = [data EXCEPT ![k] = new]
      /\ UNCHANGED <<wire, loopPc, cursor, call, part>> /\ pc' = [pc EXCEPT ![s] = "flag"]
  BY Zenon DEF Store, Goto, outVars
<1>2. k \in Ids /\ data \in [Ids -> Ctx \cup {NoCtx}] /\ pc \in [Senders -> Labels]
  BY <1>1, CurrentIsId DEF Shape, TypeOK, Sending
<1>3. new \in Ctx /\ new # NoCtx
  BY NoCtxAssumption, <1>1 DEF Shape, TypeOK, CallCounted, CurrentCtx, Ctx
<1>4. ~ Stored(new)
  BY <1>1, PoolAssumption DEF Stored, CurrentCtx, Shape, TypeOK
<1>5. ASSUME NEW c \in Ctx, c = new PROVE Stored(c)'
  <2>1. c.from = s /\ c.call = call[s] /\ c.part = part[s]
    BY <1>5 DEF CurrentCtx
  <2>2. call'[s] = call[s] /\ part'[s] = part[s] /\ pc'[s] = "flag"
    BY <1>1, <1>2
  <2>3. call[s] \in Nat /\ part[s] \in Nat
    BY PoolAssumption DEF Shape, TypeOK
  <2> QED
    BY <2>1, <2>2, <2>3 DEF Stored
<1>6. \A c \in Ctx : Stored(c) => Stored(c)'
  BY StoredStays DEF Send
<1> HIDE DEF new, k
<1>7. data'[k] = new /\ \A i \in Ids \ {k} : data'[i] = data[i]
  BY <1>1, <1>2
<1>8. \A i \in Ids : data[i] # new
  BY <1>3, <1>4, Zenon DEF AtMostOnce
<1>9. \A c : Written(c)' <=> Written(c)
  BY <1>1, Zenon DEF Written
<1>10. ~ Written(new)
  BY <1>3, <1>4, Zenon DEF AtMostOnce
<1>11. \A i \in Ids : data'[i] # NoCtx => Stored(data[i])'
  <2> SUFFICES ASSUME NEW i \in Ids, data'[i] # NoCtx PROVE Stored(data[i])'
    OBVIOUS
  <2>1. CASE i = k
    <3>1. data'[i] = new
      BY <1>7, <2>1
    <3>2. \A c \in Ctx : c = data'[i] => (Stored(c)' <=> Stored(data[i])')
      BY Zenon DEF Stored
    <3> QED
      BY <1>3, <1>5, <3>1, <3>2
  <2>2. CASE i # k
    <3>1. data'[i] = data[i] /\ data[i] \in Ctx /\ Stored(data[i])
      BY <1>2, <1>7, <2>2 DEF AtMostOnce
    <3>2. \A c \in Ctx : c = data'[i] => (Stored(c)' <=> Stored(data[i])')
      BY Zenon DEF Stored
    <3> QED
      BY <1>6, <3>1, <3>2
  <2> QED
    BY <2>1, <2>2
<1>12. \A i, j \in Ids : data'[i] = data'[j] /\ data'[i] # NoCtx => i = j
  BY <1>7, <1>8, Zenon DEF AtMostOnce
<1>13. \A i \in Ids : Written(data[i])' => loopPc' = "release" /\ i = cursor'
  <2> SUFFICES ASSUME NEW i \in Ids, Written(data[i])' PROVE loopPc' = "release" /\ i = cursor'
    OBVIOUS
  <2>1. Written(data'[i])
    BY <1>1, Zenon DEF Written
  <2>2. i # k /\ data'[i] = data[i]
    BY <1>7, <1>10, <2>1
  <2> QED
    BY <1>1, <2>1, <2>2 DEF AtMostOnce
<1>14. WrittenOnce'
  BY <1>1, Zenon DEF AtMostOnce, WrittenOnce
<1> QED
  BY <1>6, <1>9, <1>11, <1>12, <1>13, <1>14, Zenon DEF AtMostOnce

\* What async_send_callback writes was in the async, and nothing of it was written.
LEMMA DeliverOnce == ASSUME Shape, AtMostOnce, Deliver PROVE AtMostOnce'
<1> DEFINE ctx == data[cursor]
<1>1. loopPc = "deliver" /\ UNCHANGED <<data, senderVars>> /\ cursor \in Ids
  BY Zenon DEF Deliver, Shape, TypeOK
<1>2. \A c \in Ctx : Stored(c)' <=> Stored(c)
  BY <1>1, Zenon DEF Stored, senderVars
<1>3. \A i \in Ids : data[i] \in Ctx \cup {NoCtx}
  BY DEF Shape, TypeOK
<1>4. CASE wire' = wire
  BY <1>1, <1>2, <1>3, <1>4, OnceKept
<1>5. CASE /\ ctx # NoCtx /\ loopPc' = "release" /\ UNCHANGED cursor
           /\ wire' = [wire EXCEPT ![ctx.peer] = Append(@, ctx)]
  <2> DEFINE q == ctx.peer
  <2>1. ctx \in Ctx /\ q \in Peers /\ wire \in [Peers -> Seq(Ctx)]
    BY <1>1, <1>3, <1>5 DEF Shape, TypeOK, Ctx
  <2>2. ~ Written(ctx) /\ Stored(ctx)
    BY <1>1, <1>5 DEF AtMostOnce
  <2> HIDE DEF ctx
  <2>3. /\ wire'[q] = Append(wire[q], ctx) /\ wire[q] \in Seq(Ctx)
        /\ \A p \in Peers : p # q => wire'[p] = wire[p]
    BY <1>5, <2>1
  <2>4. /\ DOMAIN wire'[q] = 1 .. Len(wire[q]) + 1 /\ Len(wire[q]) \in Nat
        /\ DOMAIN wire[q] = 1 .. Len(wire[q])
        /\ \A j \in 1 .. Len(wire[q]) : wire'[q][j] = wire[q][j]
        /\ wire'[q][Len(wire[q]) + 1] = ctx
    BY <2>1, <2>3
  <2>5. \A c \in Ctx : Written(c)' => Written(c) \/ c = ctx
    <3> SUFFICES ASSUME NEW c \in Ctx, Written(c)' PROVE Written(c) \/ c = ctx
      OBVIOUS
    <3>1. PICK p \in Peers : \E j \in DOMAIN wire'[p] : wire'[p][j] = c
      BY Zenon DEF Written
    <3>2. PICK j \in DOMAIN wire'[p] : wire'[p][j] = c
      BY <3>1
    <3>3. CASE p # q
      BY <2>3, <3>2, <3>3, Zenon DEF Written
    <3>4. CASE p = q
      <4>1. j \in 1 .. Len(wire[q]) \/ j = Len(wire[q]) + 1
        BY <2>4, <3>2, <3>4
      <4> QED
        BY <2>1, <2>4, <3>2, <3>4, <4>1, Zenon DEF Written
    <3> QED
      BY <3>3, <3>4
  <2>6. WrittenOnce'
    <3> SUFFICES ASSUME NEW p \in Peers, NEW j \in DOMAIN wire'[p], NEW k \in DOMAIN wire'[p],
                        wire'[p][j] = wire'[p][k]
                 PROVE  j = k
      BY Zenon DEF WrittenOnce
    <3>1. CASE p # q
      BY <2>3, <3>1 DEF AtMostOnce, WrittenOnce
    <3>2. CASE p = q
      <4>1. \A m \in 1 .. Len(wire[q]) : wire[q][m] # ctx
        BY <2>1, <2>2, <2>4, Zenon DEF Written
      <4>2. \A m \in DOMAIN wire'[q] : m \in 1 .. Len(wire[q]) \/ m = Len(wire[q]) + 1
        BY <2>4
      <4>3. \A m, n \in 1 .. Len(wire[q]) : wire[q][m] = wire[q][n] => m = n
        BY <2>1, <2>4, Zenon DEF AtMostOnce, WrittenOnce
      <4> QED
        BY <2>4, <3>2, <4>1, <4>2, <4>3, Zenon
    <3> QED
      BY <3>1, <3>2
  <2>7. \A c \in Ctx : Written(c)' => Stored(c)'
    BY <1>2, <2>2, <2>5 DEF AtMostOnce
  <2>8. \A i \in Ids : Written(data[i])' => loopPc' = "release" /\ i = cursor'
    <3> SUFFICES ASSUME NEW i \in Ids, Written(data[i])' PROVE i = cursor'
      BY <1>5
    <3>1. data'[i] = data[i]
      BY <1>1
    <3>2. \E p \in Peers : \E j \in DOMAIN wire'[p] : wire'[p][j] = data[i]
      BY <3>1, Zenon DEF Written
    <3>3. data[i] \in Ctx
      <4>1. \A p \in Peers : \A j \in DOMAIN wire'[p] : wire'[p][j] \in Ctx
        <5>1. \A p \in Peers : wire[p] \in Seq(Ctx)
          BY <2>1
        <5>2. \A p \in Peers : p # q => \A j \in DOMAIN wire'[p] : wire'[p][j] \in Ctx
          BY <2>3, <5>1
        <5>3. wire'[q] \in Seq(Ctx)
          BY <2>1, <2>3
        <5> QED
          BY <5>2, <5>3
      <4> QED
        BY <3>2, <4>1
    <3>4. Written(data[i]) \/ data[i] = ctx
      BY <2>5, <3>2, <3>3, Zenon DEF Written
    <3>5. ~ Written(data[i])
      BY <1>1 DEF AtMostOnce
    <3> QED
      BY <1>1, <1>5, <3>3, <3>4, <3>5 DEF AtMostOnce, ctx
  <2>9. \A i \in Ids : data'[i] # NoCtx => Stored(data[i])'
    <3>1. \A i \in Ids : data[i] # NoCtx => Stored(data[i]) /\ data[i] \in Ctx
      BY <1>3 DEF AtMostOnce
    <3>2. \A i \in Ids : \A c \in Ctx : c = data[i] => (Stored(c)' <=> Stored(data[i])')
      BY <1>1, Zenon DEF Stored
    <3> QED
      BY <1>1, <1>2, <3>1, <3>2
  <2>10. \A i, j \in Ids : data'[i] = data'[j] /\ data'[i] # NoCtx => i = j
    BY <1>1, Zenon DEF AtMostOnce
  <2> QED
    BY <2>6, <2>7, <2>8, <2>9, <2>10, Zenon DEF AtMostOnce
<1> QED
  BY <1>4, <1>5 DEF Deliver, Dispose, outVars

LEMMA ReleaseOnce == ASSUME Shape, AtMostOnce, Release PROVE AtMostOnce'
<1>1. /\ loopPc = "release" /\ data' = [data EXCEPT ![cursor] = NoCtx]
      /\ UNCHANGED <<wire, senderVars>> /\ cursor \in Ids
      /\ data \in [Ids -> Ctx \cup {NoCtx}] /\ wire \in [Peers -> Seq(Ctx)]
  BY Zenon DEF Release, Shape, TypeOK, outVars
<1>2. data'[cursor] = NoCtx /\ \A i \in Ids \ {cursor} : data'[i] = data[i]
  BY <1>1
<1>3. \A c \in Ctx : Stored(c)' <=> Stored(c)
  BY <1>1, Zenon DEF Stored, senderVars
<1>4. \A c : Written(c)' <=> Written(c)
  BY <1>1, Zenon DEF Written
<1>5. \A c : Written(c) => c \in Ctx
  <2>1. \A p \in Peers : \A j \in DOMAIN wire[p] : wire[p][j] \in Ctx
    <3>1. \A p \in Peers : wire[p] \in Seq(Ctx)
      BY <1>1
    <3> QED
      BY <3>1
  <2> QED
    BY <2>1, Zenon DEF Written
<1>6. \A i \in Ids : data'[i] # NoCtx => Stored(data[i])'
  <2> SUFFICES ASSUME NEW i \in Ids, data'[i] # NoCtx PROVE Stored(data[i])'
    OBVIOUS
  <2>1. data'[i] = data[i] /\ data[i] \in Ctx /\ Stored(data[i])
    BY <1>1, <1>2 DEF AtMostOnce
  <2>2. \A c \in Ctx : c = data'[i] => (Stored(c)' <=> Stored(data[i])')
    BY Zenon DEF Stored
  <2> QED
    BY <1>3, <2>1, <2>2
<1>7. \A i, j \in Ids : data'[i] = data'[j] /\ data'[i] # NoCtx => i = j
  BY <1>2 DEF AtMostOnce
<1>8. \A i \in Ids : ~ Written(data[i])'
  <2> SUFFICES ASSUME NEW i \in Ids, Written(data[i])' PROVE FALSE
    OBVIOUS
  <2>1. Written(data'[i])
    BY <1>1, Zenon DEF Written
  <2>2. data'[i] # NoCtx
    BY <1>5, <2>1, NoCtxAssumption
  <2>3. i # cursor /\ data'[i] = data[i]
    BY <1>2, <2>2
  <2> QED
    BY <2>1, <2>3 DEF AtMostOnce
<1>9. WrittenOnce'
  BY <1>1, Zenon DEF AtMostOnce, WrittenOnce
<1>10. \A c \in Ctx : Written(c)' => Stored(c)'
  BY <1>3, <1>4, Zenon DEF AtMostOnce
<1> QED
  BY <1>6, <1>7, <1>8, <1>9, <1>10, Zenon DEF AtMostOnce

LEMMA NextOnce == Shape /\ Shape' /\ AtMostOnce /\ [Next]_vars => AtMostOnce'
<1> SUFFICES ASSUME Shape, Shape', AtMostOnce, [Next]_vars PROVE AtMostOnce'
  OBVIOUS
<1>0. \A i \in Ids : data[i] \in Ctx \cup {NoCtx}
  BY DEF Shape, TypeOK
<1>1. ASSUME NEW s \in Senders,
             \/ AcquireOne(s) \/ BeginSearch(s) \/ Search(s) \/ Check(s) \/ Flag(s) \/ Wake(s)
             \/ \E p \in Peers, n \in 1 .. MaxParts, r \in {"one", "many"} : Call(s, p, n, r)
      PROVE  AtMostOnce'
  <2>1. UNCHANGED <<data, wire, loopPc, cursor>>
    BY <1>1, Zenon DEF AcquireOne, BeginSearch, Search, Check, Flag, Wake, Call, outVars
  <2>2. \A c \in Ctx : Stored(c) => Stored(c)'
    BY <1>1, StoredStays DEF Send
  <2> QED
    BY <1>0, <2>1, <2>2, OnceKept
<1>2. CASE \/ Drain \/ Visit \/ (\E p \in Peers : Close(p)) \/ UNCHANGED vars
  <2>1. UNCHANGED <<data, wire, pc, call, part>>
    BY <1>2, Zenon DEF Drain, Visit, Close, vars, outVars, senderVars
  <2>2. loopPc = "release" => UNCHANGED <<loopPc, cursor>>
    BY <1>2 DEF Drain, Visit, Close, vars
  <2>3. \A c \in Ctx : Stored(c) => Stored(c)'
    BY <2>1, Zenon DEF Stored
  <2> QED
    BY <1>0, <2>1, <2>2, <2>3, OnceKept
<1> QED
  BY <1>1, <1>2, StoreOnce, DeliverOnce, ReleaseOnce, Zenon DEF Next, Send, Loop

\* Nothing is handed to uv_write twice, though a send of uv_async_t may be lost or
\* merged with another, and whichever threads share an async (CAsyncs.cpp:66-80,
\* 235-236).
THEOREM NothingWrittenTwice == Spec => []WrittenOnce
<1>1. Spec => [](Shape /\ AtMostOnce)
  BY InitShape, NextShape, InitOnce, NextOnce, PTL DEF Spec
<1>2. Shape /\ AtMostOnce => WrittenOnce
  BY Zenon DEF AtMostOnce
<1> QED
  BY <1>1, <1>2, PTL

-----------------------------------------------------------------------------
(* The pool implements the channel.                                        *)

\* Contexts that were given up belong to parts their senders have come past.
GivenUp == \A c \in freed \cup leaked : Stored(c)

LEMMA InitGivenUp == Init => GivenUp
  BY DEF Init, GivenUp

LEMMA NextGivenUp == Shape /\ Shape' /\ AtMostOnce /\ GivenUp /\ [Next]_vars => GivenUp'
<1> SUFFICES ASSUME Shape, Shape', AtMostOnce, GivenUp, [Next]_vars PROVE GivenUp'
  OBVIOUS
<1>0. freed \subseteq Ctx /\ leaked \subseteq Ctx
  BY DEF Shape, TypeOK
<1>1. ASSUME NEW s \in Senders,
             Send(s) \/ \E p \in Peers, n \in 1 .. MaxParts, r \in {"one", "many"} : Call(s, p, n, r)
      PROVE  GivenUp'
  <2>1. UNCHANGED <<freed, leaked>>
    BY <1>1, Zenon DEF Send, AcquireOne, BeginSearch, Search, Check, Store, Flag, Wake, Call, outVars
  <2>2. \A c \in Ctx : Stored(c) => Stored(c)'
    BY <1>1, StoredStays
  <2> QED
    BY <1>0, <2>1, <2>2 DEF GivenUp
<1>2. ASSUME UNCHANGED senderVars, \A c \in freed' \cup leaked' : c \in freed \cup leaked \/ Stored(c)
      PROVE  GivenUp'
  <2>1. \A c : Stored(c)' <=> Stored(c)
    BY <1>2, Zenon DEF Stored, senderVars
  <2>2. \A c \in freed' \cup leaked' : Stored(c)
    BY <1>2 DEF GivenUp
  <2> QED
    BY <2>1, <2>2 DEF GivenUp
<1>3. CASE Drain \/ Visit \/ Release \/ (\E p \in Peers : Close(p)) \/ UNCHANGED vars
  <2>1. UNCHANGED <<freed, leaked, senderVars>>
    BY <1>3, Zenon DEF Drain, Visit, Release, Close, vars, outVars
  <2> QED
    BY <1>2, <2>1
<1>4. CASE Deliver
  <2>1. cursor \in Ids /\ UNCHANGED senderVars
    BY <1>4 DEF Deliver, Shape, TypeOK
  <2>2. data[cursor] # NoCtx => Stored(data[cursor])
    BY <2>1, Zenon DEF AtMostOnce
  <2>3. \/ freed' = freed /\ leaked' = leaked
        \/ data[cursor] # NoCtx /\ freed' \cup leaked' = freed \cup leaked \cup {data[cursor]}
    BY <1>4 DEF Deliver, Dispose, outVars
  <2>4. \A c \in freed' \cup leaked' : c \in freed \cup leaked \/ (data[cursor] # NoCtx /\ c = data[cursor])
    BY <2>3
  <2>5. \A c \in freed' \cup leaked' : c \in freed \cup leaked \/ Stored(c)
    BY <2>2, <2>4, Zenon
  <2> QED
    BY <1>2, <2>1, <2>5
<1> QED
  BY <1>1, <1>3, <1>4 DEF Next, Loop

\* A sender stores into an async that is not free.
Overwrites == \E s \in Senders : Store(s) /\ data[Current(s)] # NoCtx

Queued == {data[i] : i \in IF loopPc = "release" THEN Ids \ {cursor} ELSE Ids} \ {NoCtx}

\* The async whose callback has called uv_write is not free.
InHand == loopPc = "release" => data[cursor] # NoCtx

LEMMA InitInHand == Init => InHand
  BY DEF Init, InHand

LEMMA NextInHand == Shape /\ InHand /\ [Next]_vars => InHand'
<1> SUFFICES ASSUME Shape, InHand, [Next]_vars PROVE InHand'
  OBVIOUS
<1>0. cursor \in Ids /\ data \in [Ids -> Ctx \cup {NoCtx}]
  BY DEF Shape, TypeOK
<1>1. ASSUME NEW s \in Senders, Store(s) PROVE InHand'
  <2>1. /\ UNCHANGED <<loopPc, cursor>> /\ data' = [data EXCEPT ![Current(s)] = CurrentCtx(s)]
        /\ CurrentCtx(s) # NoCtx
    BY <1>1, NoCtxAssumption DEF Store, Shape, TypeOK, CallCounted, CurrentCtx, Ctx
  <2>2. data'[cursor] = data[cursor] \/ data'[cursor] = CurrentCtx(s)
    BY <1>0, <2>1
  <2> QED
    BY <2>1, <2>2 DEF InHand
<1>2. CASE Release \/ Drain \/ Visit
  BY <1>2 DEF Release, Drain, Visit, Advance, InHand
<1>3. CASE Deliver
  BY <1>3 DEF Deliver, Advance, InHand
<1>4. CASE UNCHANGED <<loopPc, cursor, data>>
  BY <1>4 DEF InHand
<1>5. ASSUME NEW s \in Senders,
             \/ AcquireOne(s) \/ BeginSearch(s) \/ Search(s) \/ Check(s) \/ Flag(s) \/ Wake(s)
             \/ \E p \in Peers, n \in 1 .. MaxParts, r \in {"one", "many"} : Call(s, p, n, r)
      PROVE  UNCHANGED <<loopPc, cursor, data>>
  BY <1>5, Zenon DEF AcquireOne, BeginSearch, Search, Check, Flag, Wake, Call
<1>6. CASE (\E p \in Peers : Close(p)) \/ UNCHANGED vars
  BY <1>4, <1>6 DEF Close, vars
<1> QED
  BY <1>1, <1>2, <1>3, <1>4, <1>5, <1>6 DEF Next, Send, Loop

\* What the channel can be known to do from: all of it.
Sound == Shape /\ AtMostOnce /\ GivenUp /\ InHand

\* A step that disposes of nothing and takes nothing.
LEMMA QuietChannel ==
    ASSUME UNCHANGED <<data, outVars>>,
           UNCHANGED <<loopPc, cursor>> \/ (loopPc # "release" /\ loopPc' # "release")
    PROVE  UNCHANGED Channel!chan
<1>1. Queued' = Queued
  BY DEF Queued
<1> QED
  BY <1>1 DEF Queued, Channel!chan, outVars

\* A sender's store into a free async is an Accept.
LEMMA StoreAccepts ==
    ASSUME Sound, NEW s \in Senders, Store(s), data[Current(s)] = NoCtx
    PROVE  Channel!Next
<1> DEFINE new == CurrentCtx(s)
           k == Current(s)
           live == IF loopPc = "release" THEN Ids \ {cursor} ELSE Ids
<1>1. /\ pc[s] = "store" /\ data' = [data EXCEPT ![k] = new]
      /\ UNCHANGED <<outVars, loopPc, cursor>>
  BY Zenon DEF Store
<1>2. k \in Ids /\ data \in [Ids -> Ctx \cup {NoCtx}] /\ data[k] = NoCtx
  BY <1>1, CurrentIsId DEF Sound, Shape, TypeOK, Sending
<1>3. new \in Ctx /\ new # NoCtx
  BY NoCtxAssumption, <1>1 DEF Sound, Shape, TypeOK, CallCounted, CurrentCtx, Ctx
<1>4. ~ Stored(new)
  BY <1>1, PoolAssumption DEF Stored, CurrentCtx, Sound, Shape, TypeOK
<1>5. k \in live
  BY <1>2 DEF Sound, InHand
<1> HIDE DEF new, k
<1>6. data'[k] = new /\ \A i \in Ids \ {k} : data'[i] = data[i]
  BY <1>1, <1>2
<1>7. Queued' = Queued \cup {new}
  <2>1. Queued = {data[i] : i \in live} \ {NoCtx} /\ Queued' = {data'[i] : i \in live} \ {NoCtx}
    BY <1>1 DEF Queued
  <2>2. live \subseteq Ids
    OBVIOUS
  <2> HIDE DEF live
  <2> QED
    BY <1>2, <1>3, <1>5, <1>6, <2>1, <2>2
<1>8. new \notin Queued
  <2>1. \A i \in Ids : data[i] # new
    BY <1>3, <1>4, Zenon DEF Sound, AtMostOnce
  <2> QED
    BY <2>1 DEF Queued
<1>9. new \notin Channel!Written
  <2>1. ~ Written(new)
    BY <1>3, <1>4, Zenon DEF Sound, AtMostOnce
  <2> QED
    BY <2>1, Zenon DEF Written, Channel!Written
<1>10. new \notin freed \cup leaked
  BY <1>4 DEF Sound, GivenUp
<1>11. PICK d \in Ctx : d = new
  BY <1>3
<1>12. Channel!Accept(d)
  BY <1>1, <1>7, <1>8, <1>9, <1>10, <1>11 DEF Channel!Accept, Queued, outVars
<1> QED
  BY <1>11, <1>12 DEF Channel!Next

\* A callback that finds a context delivers or discards it.
LEMMA DeliverDisposes ==
    ASSUME Sound, Deliver
    PROVE  Channel!Next \/ UNCHANGED Channel!chan
<1> DEFINE ctx == data[cursor]
<1>1. cursor \in Ids /\ loopPc = "deliver" /\ UNCHANGED data /\ data \in [Ids -> Ctx \cup {NoCtx}]
  BY DEF Deliver, Sound, Shape, TypeOK
<1>2. CASE ctx = NoCtx
  <2>1. loopPc' # "release" /\ UNCHANGED outVars
    BY <1>2 DEF Deliver, Advance
  <2> QED
    BY <1>1, <2>1, QuietChannel
<1>3. CASE ctx # NoCtx
  <2>1. Dispose(ctx) /\ loopPc' = "release" /\ UNCHANGED cursor
    BY <1>3 DEF Deliver
  <2>2. ctx \in Ctx
    BY <1>1, <1>3
  <2>3. \A i \in Ids : data[i] = ctx => i = cursor
    BY <1>1, <1>3, Zenon DEF Sound, AtMostOnce
  <2>4. ctx \in Queued /\ Queued' = Queued \ {ctx}
    <3>1. Queued = {data[i] : i \in Ids} \ {NoCtx} /\ Queued' = {data[i] : i \in Ids \ {cursor}} \ {NoCtx}
      BY <1>1, <2>1 DEF Queued
    <3> QED
      BY <1>1, <1>3, <2>3, <3>1
  <2>d. PICK d \in Ctx : d = ctx
    BY <2>2
  <2> HIDE DEF ctx
  <2>5. CASE wire' = [wire EXCEPT ![ctx.peer] = Append(@, ctx)] /\ UNCHANGED <<freed, leaked>>
    <3>1. Channel!Deliver(d)
      BY <2>4, <2>5, <2>d DEF Channel!Deliver, Queued
    <3> QED
      BY <2>d, <3>1 DEF Channel!Next
  <2>6. CASE freed' \cup leaked' = (freed \cup leaked) \cup {ctx} /\ UNCHANGED wire
    <3>1. Channel!Discard(d)
      BY <2>4, <2>6, <2>d DEF Channel!Discard, Queued
    <3> QED
      BY <2>d, <3>1 DEF Channel!Next
  <2> QED
    BY <2>1, <2>5, <2>6 DEF Dispose
<1> QED
  BY <1>2, <1>3

\* The context that was disposed of is no longer counted when its async is freed.
LEMMA ReleaseQuiet == ASSUME Sound, Release PROVE UNCHANGED Channel!chan
<1>1. /\ loopPc = "release" /\ data' = [data EXCEPT ![cursor] = NoCtx] /\ UNCHANGED outVars
      /\ cursor \in Ids /\ data \in [Ids -> Ctx \cup {NoCtx}] /\ loopPc' # "release"
  BY DEF Release, Advance, Sound, Shape, TypeOK
<1>2. data'[cursor] = NoCtx /\ \A i \in Ids \ {cursor} : data'[i] = data[i]
  BY <1>1
<1>3. Queued = {data[i] : i \in Ids \ {cursor}} \ {NoCtx} /\ Queued' = {data'[i] : i \in Ids} \ {NoCtx}
  BY <1>1 DEF Queued
<1>4. Queued' = Queued
  BY <1>2, <1>3
<1> QED
  BY <1>1, <1>4 DEF Queued, Channel!chan, outVars

LEMMA StepMaps ==
    ASSUME Sound, [Next]_vars
    PROVE  Channel!Next \/ UNCHANGED Channel!chan \/ Overwrites
<1>1. ASSUME NEW s \in Senders,
             \/ AcquireOne(s) \/ BeginSearch(s) \/ Search(s) \/ Check(s) \/ Flag(s) \/ Wake(s)
             \/ \E p \in Peers, n \in 1 .. MaxParts, r \in {"one", "many"} : Call(s, p, n, r)
      PROVE  UNCHANGED Channel!chan
  <2>1. UNCHANGED <<data, outVars, loopPc, cursor>>
    BY <1>1, Zenon DEF AcquireOne, BeginSearch, Search, Check, Flag, Wake, Call
  <2> QED
    BY <2>1, QuietChannel
<1>2. ASSUME NEW s \in Senders, Store(s)
      PROVE  Channel!Next \/ Overwrites
  BY <1>2, StoreAccepts DEF Overwrites
<1>3. CASE Drain \/ Visit
  BY <1>3, QuietChannel DEF Drain, Visit, Advance
<1>4. CASE (\E p \in Peers : Close(p)) \/ UNCHANGED vars
  <2>1. UNCHANGED <<data, outVars, loopPc, cursor>>
    BY <1>4 DEF Close, vars
  <2> QED
    BY <2>1, QuietChannel
<1> QED
  BY <1>1, <1>2, <1>3, <1>4, DeliverDisposes, ReleaseQuiet DEF Next, Send, Loop

LEMMA AlwaysSound == Spec => []Sound
  BY InitShape, NextShape, InitOnce, NextOnce, InitGivenUp, NextGivenUp, InitInHand, NextInHand, PTL DEF Spec, Sound

LEMMA ChannelBegins == Init => Channel!Init
<1> SUFFICES ASSUME Init PROVE Channel!Init
  OBVIOUS
<1>1. Queued = {} /\ freed \cup leaked = {} /\ wire = [p \in Peers |-> <<>>]
  BY DEF Init, Queued
<1> QED
  BY <1>1 DEF Channel!Init, Queued

\* Whatever any number of threads do, the pool makes only the steps of the channel, but
\* for a store into an async that was handed to another thread as well: only that loses
\* data that was accepted (CAsyncs.cpp:59-80, 226-243).
THEOREM ChannelUnlessOverwritten == Spec => Channel!Init /\ [][Channel!Next \/ Overwrites]_(Channel!chan)
<1>1. Sound /\ [Next]_vars => [Channel!Next \/ Overwrites]_(Channel!chan)
  BY StepMaps
<1> QED
  BY <1>1, AlwaysSound, ChannelBegins, PTL DEF Spec

\* What a sender holds and has not stored into is free.
Unused ==
    \A s \in Senders : Sending(s) => \A k \in 1 .. Len(held[s]) :
        k > part[s] \/ (k = part[s] /\ pc[s] \in {"check", "store"}) => data[held[s][k]] = NoCtx

LEMMA NextUnused ==
    ASSUME NEW app, Senders = {app}, Shape, Shape', Ordered, Unused, [Next]_vars
    PROVE  Unused'
<1>1. app \in Senders
  OBVIOUS
<1>2. /\ data \in [Ids -> Ctx \cup {NoCtx}] /\ held \in [Senders -> Seq(Ids)] /\ pc \in [Senders -> Labels]
      /\ part \in [Senders -> 1 .. MaxParts] /\ cursor \in Ids /\ MaxParts \in Nat /\ Size \in Nat
  BY PoolAssumption DEF Shape, TypeOK
<1>3. ASSUME ~ Sending(app)' PROVE Unused'
  BY <1>3 DEF Unused
<1>4. ASSUME UNCHANGED held, Sending(app), \A i \in Ids : data[i] = NoCtx => data'[i] = NoCtx,
             \/ UNCHANGED part /\ (pc'[app] \in {"check", "store"} => pc[app] \in {"check", "store"})
             \/ part'[app] = part[app] + 1
      PROVE  Unused'
  <2>1. \A k \in 1 .. Len(held[app]) : held[app][k] \in Ids
    BY <1>1, <1>2
  <2>2. part[app] \in Nat
    BY <1>1, <1>2
  <2>3. \A k \in 1 .. Len(held[app]) :
           k > part'[app] \/ (k = part'[app] /\ pc'[app] \in {"check", "store"})
           => k > part[app] \/ (k = part[app] /\ pc[app] \in {"check", "store"})
    BY <1>4, <2>2
  <2>4. \A k \in 1 .. Len(held[app]) :
           k > part[app] \/ (k = part[app] /\ pc[app] \in {"check", "store"}) => data[held[app][k]] = NoCtx
    BY <1>1, <1>4, Zenon DEF Unused
  <2> QED
    BY <1>4, <2>1, <2>3, <2>4 DEF Unused
<1>5. ASSUME NEW n \in 1 .. Size, Granted(app, n), UNCHANGED data, \A k \in 1 .. n : data[queue[k]] = NoCtx
      PROVE  Unused'
  <2>1. Len(held'[app]) = n /\ \A k \in 1 .. n : held'[app][k] = queue[k]
    BY <1>1, <1>5, GrantedShape DEF Shape
  <2> QED
    BY <1>5, <2>1 DEF Unused
<1>6. CASE AcquireOne(app)
  <2>1. CASE Granted(app, 1) /\ data[queue[1]] = NoCtx
    BY <1>2, <1>5, <1>6, <2>1, PoolAssumption DEF AcquireOne
  <2>2. CASE Refused(app)
    BY <1>1, <1>2, <1>3, <2>2 DEF Refused, Goto, Sending
  <2> QED
    BY <1>6, <2>1, <2>2 DEF AcquireOne, HeadFree
<1>7. CASE Search(app)
  <2>1. CASE tried[app] + num[app] <= MaxPos /\ BatchAtHead(num[app]) /\ Granted(app, num[app])
    <3>1. num[app] \in 1 .. MaxParts /\ tried[app] \in 0 .. Size /\ Size \in Nat /\ MaxParts \in Nat
      BY <1>1, PoolAssumption DEF Shape, TypeOK
    <3>2. tried[app] + num[app] <= Size - 1
      BY <2>1 DEF MaxPos
    <3>3. num[app] \in 1 .. Size
      BY <3>1, <3>2
    <3> QED
      BY <1>5, <1>7, <2>1, <3>3 DEF Search, BatchAtHead
  <2>2. CASE UNCHANGED pc \/ Refused(app)
    BY <1>1, <1>2, <1>3, <1>7, <2>2 DEF Refused, Goto, Sending, Search
  <2> QED
    BY <1>7, <2>1, <2>2 DEF Search
<1>8. CASE BeginSearch(app) \/ \E p \in Peers, n \in 1 .. MaxParts, r \in {"one", "many"} : Call(app, p, n, r)
  BY <1>1, <1>2, <1>3, <1>8 DEF BeginSearch, Call, Goto, Sending
<1>9. CASE Check(app)
  BY <1>1, <1>2, <1>4, <1>9 DEF Check, Goto, Sending
<1>10. CASE Store(app)
  <2>1. /\ pc[app] = "store" /\ data' = [data EXCEPT ![Current(app)] = CurrentCtx(app)]
        /\ UNCHANGED <<held, part>> /\ pc'[app] = "flag"
    BY <1>1, <1>2, <1>10 DEF Store, Goto
  <2>2. \A k \in 1 .. Len(held[app]) : held[app][k] = held[app][1] + k - 1 /\ held[app][k] \in Ids
    BY <1>1, <1>2, <2>1 DEF Ordered, BatchConsecutive, Sending
  <2>3. part[app] \in 1 .. Len(held[app]) /\ Current(app) = held[app][part[app]]
    BY <1>1, <1>2, <2>1 DEF Shape, TypeOK, PartInBatch, Sending, Current
  <2>4. \A k \in 1 .. Len(held[app]) : k > part[app] => held[app][k] # Current(app) /\ held[app][k] \in Ids
    <3> DEFINE h == held[app]
    <3>1. h \in Seq(Ids) /\ Len(h) \in Nat
      BY <1>1, <1>2
    <3>2. h[1] \in Int
      BY <2>2, <2>3, <3>1 DEF Ids
    <3>3. \A k \in 1 .. Len(h) : h[k] = h[1] + k - 1 /\ h[k] \in Ids
      BY <2>2
    <3>4. part[app] \in 1 .. Len(h) /\ Current(app) = h[part[app]]
      BY <2>3
    <3> HIDE DEF h
    <3>5. \A k \in 1 .. Len(h) : k > part[app] => h[k] # Current(app) /\ h[k] \in Ids
      BY <3>1, <3>2, <3>3, <3>4
    <3> QED
      BY <3>5 DEF h
  <2>5. \A k \in 1 .. Len(held[app]) : k > part[app] => data[held[app][k]] = NoCtx
    BY <1>1, <2>1, Zenon DEF Unused, Sending
  <2>6. \A k \in 1 .. Len(held[app]) : k > part[app] => data'[held[app][k]] = NoCtx
    BY <1>2, <2>1, <2>4, <2>5
  <2> QED
    BY <2>1, <2>6 DEF Unused
<1>11. CASE Flag(app) \/ Wake(app)
  <2>1. pc[app] \in {"flag", "wake"} /\ UNCHANGED <<held, data>>
    BY <1>11 DEF Flag, Wake
  <2>2. \/ pc'[app] = "idle"
        \/ pc'[app] = "wake" /\ UNCHANGED part
        \/ part'[app] = part[app] + 1
    BY <1>1, <1>2, <1>11 DEF Flag, Wake, NextPart, Goto
  <2> QED
    BY <1>3, <1>4, <2>1, <2>2 DEF Sending
<1>12. CASE Loop \/ (\E p \in Peers : Close(p)) \/ UNCHANGED vars
  <2>1. UNCHANGED <<pc, held, part>>
    BY <1>12, Zenon DEF Loop, Drain, Visit, Deliver, Release, Close, vars, senderVars
  <2>2. UNCHANGED data \/ data' = [data EXCEPT ![cursor] = NoCtx]
    BY <1>12, Zenon DEF Loop, Drain, Visit, Deliver, Release, Close, vars
  <2>3. \A i \in Ids : data[i] = NoCtx => data'[i] = NoCtx
    BY <1>2, <2>2
  <2> QED
    BY <1>3, <1>4, <2>1, <2>3 DEF Sending
<1> QED
  BY <1>6, <1>7, <1>8, <1>9, <1>10, <1>11, <1>12 DEF Next, Send

\* Used by one thread, the pool is the channel: what a send accepted is disposed of once,
\* written to its own connection or discarded with it (CAsyncs.cpp:59-80, 226-243).
THEOREM OneSenderIsChannel ==
    ASSUME NEW app, Senders = {app}
    PROVE  Spec => Channel!Init /\ [][Channel!Next]_(Channel!chan)
<1>1. Init => Unused
  BY DEF Init, Unused, Sending
<1>2. Shape /\ Shape' /\ Ordered /\ Unused /\ [Next]_vars => Unused'
  BY NextUnused
<1>3. Shape /\ Unused => ~ Overwrites
  <2> SUFFICES ASSUME Shape, Unused, NEW s \in Senders, Store(s) PROVE data[Current(s)] = NoCtx
    BY DEF Overwrites
  <2>1. part[s] \in 1 .. Len(held[s]) /\ pc[s] = "store" /\ Sending(s)
    BY PoolAssumption DEF Store, Shape, TypeOK, PartInBatch, Sending
  <2> QED
    BY <2>1, Zenon DEF Unused, Current
<1>4. Sound /\ ~ Overwrites /\ [Next]_vars => [Channel!Next]_(Channel!chan)
  BY StepMaps
<1>5. Spec => [](Shape /\ Ordered /\ Unused)
  BY InitShape, NextShape, InitOrdered, NextOrdered, <1>1, <1>2, PTL DEF Spec
<1> QED
  BY <1>3, <1>4, <1>5, AlwaysSound, ChannelBegins, PTL DEF Spec

-----------------------------------------------------------------------------
(* The parts of a message sent by a callback of the loop thread reach      *)
(* uv_write in order, whatever other threads do to the pool at the same    *)
(* time: a callback runs between two scans, its batch has ascending ids,   *)
(* and the next scan finds all of its parts flagged.                       *)

\* What a callback of the loop thread sends.
LoopCtx == {c \in Ctx : c.from \in LoopSenders}

\* Parts of one message.
Same(c, d) == c.from = d.from /\ c.call = d.call

\* A callback that sends runs between two scans.
BetweenScans == loopPc # "poll" => \A s \in LoopSenders : pc[s] = "idle"

\* The part in an async has its flag up, or gets it before the callback ends.
Flagged ==
    \A i \in Ids : data[i] \in LoopCtx =>
        \/ pending[i]
        \/ pc[data[i].from] = "flag" /\ held[data[i].from][part[data[i].from]] = i
        \/ loopPc \in {"deliver", "release"} /\ cursor = i

\* So a scan leaves none of its parts behind.
Ahead == loopPc # "poll" => \A i \in Ids : data[i] \in LoopCtx => cursor <= i

\* Parts are in asyncs in their order, those of the call under way where it put them.
Ascending ==
    \A i, j \in Ids :
        data[i] \in LoopCtx /\ data[j] \in LoopCtx /\ Same(data[i], data[j])
            /\ data[i].part <= data[j].part => i <= j

Placed ==
    \A s \in LoopSenders : Sending(s) =>
        \A i \in Ids : data[i] \in LoopCtx /\ data[i].from = s /\ data[i].call = call[s] =>
            data[i].part \in 1 .. Len(held[s]) /\ i = held[s][data[i].part]

\* What was written comes before what is still in an async.
WrittenBefore ==
    \A i \in Ids : data[i] \in LoopCtx /\ ~ (loopPc = "release" /\ i = cursor) =>
        \A c \in Ctx : Written(c) /\ Same(c, data[i]) => c.part < data[i].part

\* Nothing of a call is written before it returns.
WrittenAfter ==
    \A s \in LoopSenders : pc[s] # "idle" =>
        \A c \in Ctx : Written(c) /\ c.from = s => c.call # call[s]

InSequence ==
    /\ BetweenScans /\ Flagged /\ Ahead /\ Ascending /\ Placed
    /\ WrittenBefore /\ WrittenAfter /\ LoopPartsInOrder

Known == Shape /\ Ordered /\ AtMostOnce

LEMMA LoopCtxIs == \A c \in LoopCtx : c \in Ctx /\ c # NoCtx /\ c.from \in LoopSenders /\ c.from \in Senders
  BY NoCtxAssumption, PoolAssumption DEF LoopCtx

LEMMA InitSequence == Init => InSequence
<1> SUFFICES ASSUME Init PROVE InSequence
  OBVIOUS
<1>1. \A i \in Ids : data[i] \notin LoopCtx
  BY LoopCtxIs DEF Init
<1>2. \A p \in Peers : wire[p] = <<>> /\ DOMAIN wire[p] = {}
  BY DEF Init
<1>3. \A c : ~ Written(c)
  BY <1>2 DEF Written
<1>4. loopPc = "poll"
  BY DEF Init
<1>5. LoopPartsInOrder
  BY <1>2, Zenon DEF LoopPartsInOrder, InOrder
<1>6. BetweenScans /\ Ahead
  BY <1>4 DEF BetweenScans, Ahead
<1>7. Flagged /\ Ascending /\ Placed /\ WrittenBefore /\ WrittenAfter
  BY <1>1, <1>3, Zenon DEF Flagged, Ascending, Placed, WrittenBefore, WrittenAfter
<1> QED
  BY <1>5, <1>6, <1>7 DEF InSequence

-----------------------------------------------------------------------------
(* The steps of a sender that do not store.                                *)

Moves(s) ==
    \/ AcquireOne(s) \/ BeginSearch(s) \/ Search(s) \/ Check(s) \/ Flag(s) \/ Wake(s)
    \/ \E p \in Peers, n \in 1 .. MaxParts, r \in {"one", "many"} : Call(s, p, n, r)

LEMMA MovesAre ==
    ASSUME Shape, Shape', NEW s \in Senders, Moves(s)
    PROVE  /\ UNCHANGED <<data, wire, loopPc, cursor>>
           /\ \A t \in Senders \ {s} :
                UNCHANGED <<pc[t], call[t], held[t], part[t], Current(t)>>
           /\ \A i \in Ids : pending[i] => pending'[i]
           /\ \/ pc[s] = "idle" /\ (s \in LoopSenders => loopPc = "poll")
                 /\ call'[s] = call[s] + 1 /\ pc'[s] \in {"one", "many"}
              \/ pc[s] # "idle" /\ UNCHANGED call
           /\ pc[s] = "flag" => pending'[Current(s)]
           /\ Sending(s)' => \/ Sending(s) /\ UNCHANGED <<held[s], call[s]>>
                             \/ pc[s] \in {"one", "search"}
<1>1. /\ pc \in [Senders -> Labels] /\ call \in [Senders -> 0 .. MaxCalls]
      /\ part \in [Senders -> 1 .. MaxParts] /\ held \in [Senders -> Seq(Ids)]
      /\ pending \in [Ids -> BOOLEAN]
  BY DEF Shape, TypeOK
<1>2. CASE \E p \in Peers, n \in 1 .. MaxParts, r \in {"one", "many"} : Call(s, p, n, r)
  <2>1. PICK p \in Peers, n \in 1 .. MaxParts, r \in {"one", "many"} : Call(s, p, n, r)
    BY <1>2
  <2>2. /\ pc[s] = "idle" /\ (s \in LoopSenders => loopPc = "poll")
        /\ call' = [call EXCEPT ![s] = @ + 1] /\ pc' = [pc EXCEPT ![s] = r]
        /\ UNCHANGED <<held, part, data, wire, loopPc, cursor, pending>>
    BY <2>1, Zenon DEF Call, Goto, outVars
  <2>3. pc'[s] = r /\ call'[s] = call[s] + 1 /\ \A t \in Senders \ {s} : pc'[t] = pc[t] /\ call'[t] = call[t]
    BY <1>1, <2>2
  <2> QED
    BY <2>2, <2>3 DEF Sending, Current
<1>3. CASE AcquireOne(s) \/ Search(s)
  <2>1. /\ UNCHANGED <<data, wire, loopPc, cursor, pending, call>>
        /\ pc[s] \in {"one", "search"}
        /\ \A t \in Senders \ {s} : pc'[t] = pc[t] /\ held'[t] = held[t] /\ part'[t] = part[t]
    BY <1>1, <1>3 DEF AcquireOne, Search, Granted, Refused, Goto, outVars
  <2> QED
    BY <2>1 DEF Current
<1>4. CASE BeginSearch(s) \/ Check(s)
  <2>1. /\ UNCHANGED <<data, wire, loopPc, cursor, pending, call, held, part>>
        /\ pc[s] \in {"many", "check"} /\ (pc[s] = "many" => pc'[s] \in {"idle", "search"})
        /\ \A t \in Senders \ {s} : pc'[t] = pc[t]
    BY <1>1, <1>4 DEF BeginSearch, Check, Goto, outVars
  <2> QED
    BY <2>1 DEF Current, Sending
<1>5. CASE Flag(s)
  <2>1. /\ UNCHANGED <<data, wire, loopPc, cursor, call, held>> /\ pc[s] = "flag"
        /\ \A t \in Senders \ {s} : pc'[t] = pc[t] /\ part'[t] = part[t]
    BY <1>1, <1>5 DEF Flag, NextPart, Goto, outVars
  <2>2. Current(s) \in Ids
    BY <2>1, CurrentIsId DEF Shape, Sending
  <2>3. pending'[Current(s)] /\ \A i \in Ids : pending[i] => pending'[i]
    <3>1. CASE pending[Current(s)]
      BY <1>5, <3>1 DEF Flag
    <3>2. CASE pending' = [pending EXCEPT ![Current(s)] = TRUE]
      BY <1>1, <2>2, <3>2
    <3> QED
      BY <1>5, <3>1, <3>2, Zenon DEF Flag
  <2> QED
    BY <2>1, <2>3 DEF Current, Sending
<1>6. CASE Wake(s)
  <2>1. /\ UNCHANGED <<data, wire, loopPc, cursor, pending, call, held>> /\ pc[s] = "wake"
        /\ \A t \in Senders \ {s} : pc'[t] = pc[t] /\ part'[t] = part[t]
    BY <1>1, <1>6 DEF Wake, NextPart, Goto, outVars
  <2> QED
    BY <2>1 DEF Current, Sending
<1> QED
  BY <1>2, <1>3, <1>4, <1>5, <1>6, Zenon DEF Moves

LEMMA MovesSequence ==
    ASSUME Known, Shape', InSequence, NEW s \in Senders, Moves(s)
    PROVE  InSequence'
<1>1. /\ UNCHANGED <<data, wire, loopPc, cursor>>
      /\ \A t \in Senders \ {s} :
           UNCHANGED <<pc[t], call[t], held[t], part[t], Current(t)>>
      /\ \A i \in Ids : pending[i] => pending'[i]
      /\ \/ pc[s] = "idle" /\ (s \in LoopSenders => loopPc = "poll")
            /\ call'[s] = call[s] + 1 /\ pc'[s] \in {"one", "many"}
         \/ pc[s] # "idle" /\ UNCHANGED call
      /\ pc[s] = "flag" => pending'[Current(s)]
      /\ Sending(s)' => \/ Sending(s) /\ UNCHANGED <<held[s], call[s]>>
                        \/ pc[s] \in {"one", "search"}
  BY MovesAre DEF Known
<1>2. LoopSenders \subseteq Senders /\ call \in [Senders -> 0 .. MaxCalls] /\ MaxCalls \in Nat
  BY PoolAssumption DEF Known, Shape, TypeOK
<1>3. \A c : Written(c)' <=> Written(c)
  BY <1>1, Zenon DEF Written
<1>4. BetweenScans'
  BY <1>1, <1>2 DEF InSequence, BetweenScans
<1>5. Flagged'
  <2> SUFFICES ASSUME NEW i \in Ids, data'[i] \in LoopCtx
               PROVE  \/ pending'[i]
                      \/ /\ pc'[data'[i].from] = "flag"
                         /\ held'[data'[i].from][part'[data'[i].from]] = i
                      \/ loopPc' \in {"deliver", "release"} /\ cursor' = i
    BY DEF Flagged
  <2>1. data'[i] = data[i] /\ data[i] \in LoopCtx /\ data[i].from \in Senders
    BY <1>1, LoopCtxIs
  <2>2. CASE data[i].from = s /\ pc[s] = "flag" /\ Current(s) = i
    BY <1>1, <2>2, Zenon
  <2>3. CASE data[i].from # s /\ pc[data[i].from] = "flag" /\ Current(data[i].from) = i
    <3>1. data[i].from \in Senders \ {s}
      BY <2>1, <2>3
    <3>2. /\ pc'[data[i].from] = pc[data[i].from] /\ held'[data[i].from] = held[data[i].from]
          /\ part'[data[i].from] = part[data[i].from]
      BY <1>1, <3>1
    <3> QED
      BY <2>1, <2>3, <3>2 DEF Current
  <2>4. CASE pending[i] \/ (loopPc \in {"deliver", "release"} /\ cursor = i)
    BY <1>1, <2>4
  <2> QED
    BY <2>1, <2>2, <2>3, <2>4 DEF InSequence, Flagged, Current
<1>6. Ahead' /\ Ascending'
  BY <1>1, Zenon DEF InSequence, Ahead, Ascending
<1>7. Placed'
  <2> SUFFICES ASSUME NEW t \in LoopSenders, Sending(t)', NEW i \in Ids,
                      data'[i] \in LoopCtx, data'[i].from = t, data'[i].call = call'[t]
               PROVE  data'[i].part \in 1 .. Len(held'[t]) /\ i = held'[t][data'[i].part]
    BY Zenon DEF Placed
  <2>1. data'[i] = data[i] /\ t \in Senders /\ data[i] \in Ctx /\ data[i] # NoCtx
    BY <1>1, <1>2, LoopCtxIs
  <2>2. CASE t # s
    BY <1>1, <2>1, <2>2 DEF InSequence, Placed, Sending
  <2>3. CASE t = s /\ Sending(s) /\ UNCHANGED <<held[s], call[s]>>
    BY <2>1, <2>3 DEF InSequence, Placed
  <2>4. CASE t = s /\ pc[s] \in {"one", "search"}
    <3>1. Stored(data[i]) /\ call'[s] = call[s]
      BY <1>1, <2>1, <2>4 DEF Known, AtMostOnce
    <3> QED
      BY <2>1, <2>4, <3>1 DEF Stored
  <2> QED
    BY <1>1, <2>2, <2>3, <2>4
<1>8. WrittenBefore' /\ LoopPartsInOrder'
  BY <1>1, <1>3, Zenon DEF InSequence, WrittenBefore, LoopPartsInOrder, InOrder
<1>9. WrittenAfter'
  <2> SUFFICES ASSUME NEW t \in LoopSenders, pc'[t] # "idle",
                      NEW c \in Ctx, Written(c), c.from = t
               PROVE  c.call # call'[t]
    BY <1>3, Zenon DEF WrittenAfter
  <2>1. t \in Senders /\ c.call <= call[t] /\ c.call \in Nat /\ call[t] \in Nat
    BY <1>2 DEF Known, AtMostOnce, Stored, Ctx
  <2>2. CASE t # s
    BY <1>1, <2>1, <2>2 DEF InSequence, WrittenAfter
  <2>3. CASE t = s /\ call'[s] = call[s] + 1
    BY <2>1, <2>3
  <2>4. CASE t = s /\ pc[s] # "idle" /\ UNCHANGED call
    BY <2>4 DEF InSequence, WrittenAfter
  <2> QED
    BY <1>1, <2>2, <2>3, <2>4
<1> QED
  BY <1>4, <1>5, <1>6, <1>7, <1>8, <1>9, Zenon DEF InSequence

-----------------------------------------------------------------------------
(* Storing a part.                                                         *)

LEMMA StoreSequence ==
    ASSUME Known, Shape', InSequence, NEW s \in Senders, Store(s)
    PROVE  InSequence'
<1> DEFINE new == CurrentCtx(s)
           k == Current(s)
<1>1. /\ pc[s] = "store" /\ data' = [data EXCEPT ![k] = new]
      /\ UNCHANGED <<wire, loopPc, cursor, call, part, held, pending>>
      /\ pc' = [pc EXCEPT ![s] = "flag"]
  BY Zenon DEF Store, Goto, outVars
<1>2. /\ k \in Ids /\ data \in [Ids -> Ctx \cup {NoCtx}] /\ pc \in [Senders -> Labels]
      /\ part[s] \in 1 .. Len(held[s]) /\ held[s] \in Seq(Ids)
      /\ LoopSenders \subseteq Senders
  <2>1. Sending(s)
    BY <1>1 DEF Sending
  <2>2. k \in Ids
    BY <2>1, CurrentIsId DEF Known, Shape
  <2>3. data \in [Ids -> Ctx \cup {NoCtx}] /\ pc \in [Senders -> Labels] /\ held[s] \in Seq(Ids)
    BY DEF Known, Shape, TypeOK
  <2>4. part[s] \in 1 .. Len(held[s])
    <3>1. Len(held[s]) = num[s] /\ part[s] <= num[s]
      BY <2>1 DEF Known, Shape, PartInBatch
    <3>2. part[s] \in 1 .. MaxParts /\ num[s] \in 1 .. MaxParts /\ MaxParts \in Nat
      BY PoolAssumption DEF Known, Shape, TypeOK
    <3> QED
      BY <3>1, <3>2
  <2> QED
    BY <2>2, <2>3, <2>4, PoolAssumption
<1>3. new.from = s /\ new.call = call[s] /\ new.part = part[s] /\ new \in Ctx /\ k = held[s][part[s]]
  <2>1. new \in Ctx
    BY <1>1 DEF Known, Shape, TypeOK, CallCounted, CurrentCtx, Ctx
  <2> QED
    BY <2>1 DEF CurrentCtx, Current
<1> HIDE DEF new, k
<1>4. data'[k] = new /\ \A i \in Ids \ {k} : data'[i] = data[i]
  BY <1>1, <1>2
<1>5. pc'[s] = "flag" /\ \A t \in Senders \ {s} : pc'[t] = pc[t]
  BY <1>1, <1>2
<1>6. \A t \in Senders : Current(t)' = Current(t) /\ (Sending(t)' <=> Sending(t))
  BY <1>1, <1>5 DEF Current, Sending
<1>7. \A c : Written(c)' <=> Written(c)
  BY <1>1, Zenon DEF Written
<1>8. new \in LoopCtx <=> s \in LoopSenders
  BY <1>3 DEF LoopCtx
\* The other parts of the same call are where it put them, at consecutive ids.
<1>9. ASSUME s \in LoopSenders, NEW i \in Ids, i # k, data[i] \in LoopCtx, Same(data[i], new)
      PROVE  /\ data[i].part \in Int /\ part[s] \in Int /\ i \in Int /\ k \in Int
             /\ i - k = data[i].part - part[s]
  <2>1. data[i].from = s /\ data[i].call = call[s] /\ Sending(s)
    BY <1>1, <1>3, <1>9 DEF Same, Sending
  <2>2. data[i].part \in 1 .. Len(held[s]) /\ i = held[s][data[i].part]
    BY <1>9, <2>1 DEF InSequence, Placed
  <2>3. \A m \in 1 .. Len(held[s]) : held[s][m] = held[s][1] + m - 1
    BY <2>1 DEF Known, Ordered, BatchConsecutive
  <2>4. i = held[s][1] + data[i].part - 1 /\ k = held[s][1] + part[s] - 1
    BY <1>2, <1>3, <2>2, <2>3
  <2>5. 1 \in 1 .. Len(held[s]) /\ held[s][1] \in Int
    <3>1. Len(held[s]) \in Nat
      BY <1>2, LenProperties
    <3>2. 1 \in 1 .. Len(held[s])
      BY <1>2, <3>1
    <3>3. held[s][1] \in Ids
      BY <1>2, <3>2, ElementOfSeq
    <3> QED
      BY <3>2, <3>3 DEF Ids
  <2>6. data[i].part \in Int /\ part[s] \in Int
    BY <1>2, <2>2
  <2>7. i \in Int /\ k \in Int
    BY <1>2 DEF Ids
  <2> DEFINE x == data[i].part
             y == part[s]
             b == held[s][1]
  <2>8. x \in Int /\ y \in Int /\ b \in Int /\ i = b + x - 1 /\ k = b + y - 1
    BY <2>4, <2>5, <2>6
  <2> HIDE DEF x, y, b
  <2>9. i - k = x - y
    BY <2>7, <2>8
  <2> QED
    BY <2>6, <2>7, <2>9 DEF x, y
<1>10. BetweenScans'
  BY <1>1, <1>2, <1>5 DEF InSequence, BetweenScans
<1>11. Flagged'
  <2> SUFFICES ASSUME NEW i \in Ids, data'[i] \in LoopCtx
               PROVE  \/ pending'[i]
                      \/ /\ pc'[data'[i].from] = "flag"
                         /\ held'[data'[i].from][part'[data'[i].from]] = i
                      \/ loopPc' \in {"deliver", "release"} /\ cursor' = i
    BY DEF Flagged
  <2>1. CASE i = k
    <3>1. data'[i].from = s /\ held'[s][part'[s]] = i
      BY <1>1, <1>3, <1>4, <2>1
    <3> QED
      BY <1>5, <3>1
  <2>2. CASE i # k
    <3>1. data'[i] = data[i] /\ data[i].from \in Senders
      BY <1>4, <2>2, LoopCtxIs
    <3>2. pc[data[i].from] = "flag" => pc'[data[i].from] = "flag"
      BY <1>5, <3>1
    <3> QED
      BY <1>1, <3>1, <3>2 DEF InSequence, Flagged
  <2> QED
    BY <2>1, <2>2
<1>12. Ahead'
  <2> SUFFICES ASSUME loopPc # "poll", NEW i \in Ids, data'[i] \in LoopCtx PROVE cursor <= i
    BY <1>1, Zenon DEF Ahead
  <2>1. s \notin LoopSenders
    BY <1>1 DEF InSequence, BetweenScans
  <2>2. i # k /\ data'[i] = data[i]
    BY <1>4, <1>8, <2>1
  <2> QED
    BY <2>2 DEF InSequence, Ahead
<1>13. Ascending'
  <2> SUFFICES ASSUME NEW i \in Ids, NEW j \in Ids, data'[i] \in LoopCtx, data'[j] \in LoopCtx,
                      Same(data'[i], data'[j]), data'[i].part <= data'[j].part
               PROVE  i <= j
    BY Zenon DEF Ascending, Same
  <2>1. CASE i # k /\ j # k
    BY <1>4, <2>1 DEF InSequence, Ascending
  <2>2. CASE i # k /\ j = k
    <3>1. data'[i] = data[i] /\ data'[j] = new /\ s \in LoopSenders
      BY <1>4, <1>8, <2>2
    <3>2. data[i].part <= part[s] /\ Same(data[i], new)
      BY <1>3, <3>1
    <3> QED
      BY <1>9, <2>2, <3>1, <3>2
  <2>3. CASE i = k /\ j # k
    <3>1. data'[j] = data[j] /\ data'[i] = new /\ s \in LoopSenders
      BY <1>4, <1>8, <2>3
    <3>2. part[s] <= data[j].part /\ Same(data[j], new)
      BY <1>3, <3>1 DEF Same
    <3> QED
      BY <1>9, <2>3, <3>1, <3>2
  <2>4. CASE i = k /\ j = k
    BY <2>4 DEF Ids
  <2> QED
    BY <2>1, <2>2, <2>3, <2>4
<1>14. Placed'
  <2> SUFFICES ASSUME NEW t \in LoopSenders, Sending(t)', NEW i \in Ids,
                      data'[i] \in LoopCtx, data'[i].from = t, data'[i].call = call'[t]
               PROVE  data'[i].part \in 1 .. Len(held'[t]) /\ i = held'[t][data'[i].part]
    BY Zenon DEF Placed
  <2>1. CASE i = k
    BY <1>1, <1>2, <1>3, <1>4, <2>1
  <2>2. CASE i # k
    <3>1. data'[i] = data[i] /\ Sending(t)
      BY <1>2, <1>4, <1>6, <2>2
    <3> QED
      BY <1>1, <3>1 DEF InSequence, Placed
  <2> QED
    BY <2>1, <2>2
<1>15. WrittenBefore'
  <2> SUFFICES ASSUME NEW i \in Ids, data'[i] \in LoopCtx, ~ (loopPc = "release" /\ i = cursor),
                      NEW c \in Ctx, Written(c), Same(c, data'[i])
               PROVE  c.part < data'[i].part
    BY <1>1, <1>7, Zenon DEF WrittenBefore, Same
  <2>1. CASE i = k
    <3>1. c.from = s /\ c.call = call[s] /\ s \in LoopSenders
      BY <1>3, <1>4, <1>8, <2>1 DEF Same
    <3> QED
      BY <1>1, <3>1 DEF InSequence, WrittenAfter
  <2>2. CASE i # k
    BY <1>4, <2>2 DEF InSequence, WrittenBefore
  <2> QED
    BY <2>1, <2>2
<1>16. WrittenAfter'
  <2>1. \A t \in LoopSenders : pc'[t] # "idle" => pc[t] # "idle"
    BY <1>1, <1>2, <1>5
  <2> QED
    BY <1>1, <1>7, <2>1, Zenon DEF InSequence, WrittenAfter
<1>17. LoopPartsInOrder'
  BY <1>1, Zenon DEF InSequence, LoopPartsInOrder, InOrder
<1> QED
  BY <1>10, <1>11, <1>12, <1>13, <1>14, <1>15, <1>16, <1>17, Zenon DEF InSequence

-----------------------------------------------------------------------------
(* The loop thread.                                                        *)

\* The visit of an async ends: none of the parts to come is behind the scan.
LEMMA AdvanceAhead ==
    ASSUME Known, BetweenScans, Ahead, Advance, data'[cursor] \notin LoopCtx, loopPc # "poll",
           \A i \in Ids : data'[i] \in LoopCtx => data[i] = data'[i], UNCHANGED pc
    PROVE  BetweenScans' /\ Ahead' /\ loopPc' \in {"scan", "poll"}
<1>1. cursor \in Ids /\ Ids \subseteq Int
  BY DEF Known, Shape, TypeOK, Ids
<1>2. CASE loopPc' = "poll"
  BY <1>2 DEF BetweenScans, Ahead
<1>3. CASE loopPc' = "scan" /\ cursor' = cursor + 1
  <2>1. \A i \in Ids : data'[i] \in LoopCtx => cursor <= i /\ i # cursor
    BY DEF Ahead
  <2>2. \A i \in Ids : data'[i] \in LoopCtx => cursor' <= i
    BY <1>1, <1>3, <2>1
  <2> QED
    BY <1>3, <2>2 DEF BetweenScans, Ahead
<1> QED
  BY <1>2, <1>3 DEF Advance

\* The steps of the loop that move no context.
LEMMA QuietSequence ==
    ASSUME Known, Shape', InSequence,
           Drain \/ Visit \/ (\E p \in Peers : Close(p)) \/ UNCHANGED vars
    PROVE  InSequence'
<1>1. UNCHANGED <<data, wire, pc, call, held, part>>
  BY Zenon DEF Drain, Visit, Close, vars, outVars, senderVars
<1>2. \A c : Written(c)' <=> Written(c)
  BY <1>1, Zenon DEF Written
<1>3. Ascending' /\ Placed' /\ WrittenAfter' /\ LoopPartsInOrder'
  <2>1. Ascending' /\ LoopPartsInOrder'
    BY <1>1, Zenon DEF InSequence, Ascending, LoopPartsInOrder, InOrder
  <2>2. Placed'
    BY <1>1, Zenon DEF InSequence, Placed, Sending
  <2>3. WrittenAfter'
    BY <1>1, <1>2, Zenon DEF InSequence, WrittenAfter
  <2> QED
    BY <2>1, <2>2, <2>3
<1>4. WrittenBefore'
  <2>1. loopPc = "release" => UNCHANGED <<loopPc, cursor>>
    BY DEF Drain, Visit, Close, vars
  <2>2. \A i \in Ids : ~ (loopPc' = "release" /\ i = cursor') => ~ (loopPc = "release" /\ i = cursor)
    BY <2>1
  <2> QED
    BY <1>1, <1>2, <2>2, Zenon DEF InSequence, WrittenBefore
<1>5. BetweenScans' /\ Flagged' /\ Ahead'
  <2>1. CASE Drain
    <3>1. /\ loopPc = "poll" /\ loopPc' = "scan" /\ cursor' = 0 /\ UNCHANGED pending
          /\ \A s \in LoopSenders : pc[s] = "idle"
      BY <2>1, Zenon DEF Drain, InCallback
    <3>2. \A i \in Ids : 0 <= i
      BY DEF Ids
    <3>3. Flagged'
      BY <1>1, <3>1 DEF InSequence, Flagged
    <3> QED
      BY <1>1, <3>1, <3>2, <3>3 DEF BetweenScans, Ahead
  <2>2. CASE Visit
    <3>1. cursor \in Ids /\ loopPc = "scan" /\ pending \in [Ids -> BOOLEAN]
      BY <2>2 DEF Visit, Known, Shape, TypeOK
    <3>2. CASE pending' = [pending EXCEPT ![cursor] = FALSE] /\ loopPc' = "deliver" /\ UNCHANGED cursor
      <4>1. \A i \in Ids \ {cursor} : pending'[i] = pending[i]
        BY <3>1, <3>2
      <4>2. Flagged'
        BY <1>1, <3>1, <3>2, <4>1 DEF InSequence, Flagged
      <4> QED
        BY <1>1, <3>1, <3>2, <4>2 DEF InSequence, BetweenScans, Ahead
    <3>3. CASE ~ pending[cursor] /\ Advance /\ UNCHANGED pending
      <4>1. data[cursor] \notin LoopCtx
        <5> SUFFICES ASSUME data[cursor] \in LoopCtx PROVE FALSE
          OBVIOUS
        <5>1. pc[data[cursor].from] = "idle"
          BY <3>1, LoopCtxIs DEF InSequence, BetweenScans
        <5> QED
          BY <3>1, <3>3, <5>1 DEF InSequence, Flagged
      <4>2. BetweenScans' /\ Ahead' /\ loopPc' \in {"scan", "poll"}
        BY <1>1, <3>1, <3>3, <4>1, AdvanceAhead DEF InSequence
      <4>3. Flagged'
        BY <1>1, <3>1, <3>3 DEF InSequence, Flagged
      <4> QED
        BY <4>2, <4>3
    <3> QED
      BY <2>2, <3>2, <3>3, Zenon DEF Visit
  <2>3. CASE (\E p \in Peers : Close(p)) \/ UNCHANGED vars
    <3>1. UNCHANGED <<loopPc, cursor, pending>>
      BY <2>3, Zenon DEF Close, vars
    <3> QED
      BY <1>1, <3>1, Zenon DEF InSequence, BetweenScans, Flagged, Ahead
  <2> QED
    BY <2>1, <2>2, <2>3
<1> QED
  BY <1>3, <1>4, <1>5, Zenon DEF InSequence

\* What async_send_callback writes comes after what was written of its message,
\* and before what the asyncs still hold of it.
LEMMA DeliverSequence ==
    ASSUME Known, Shape', InSequence, Deliver
    PROVE  InSequence'
<1> DEFINE ctx == data[cursor]
<1>1. /\ loopPc = "deliver" /\ cursor \in Ids /\ Ids \subseteq Int
      /\ UNCHANGED <<data, pending, pc, call, held, part>>
      /\ \A i \in Ids : data[i] \in Ctx \cup {NoCtx}
  <2>1. cursor \in Ids /\ Ids \subseteq Int /\ \A i \in Ids : data[i] \in Ctx \cup {NoCtx}
    <3>1. cursor \in Ids /\ data \in [Ids -> Ctx \cup {NoCtx}]
      BY DEF Known, Shape, TypeOK
    <3>2. Ids \subseteq Int
      BY DEF Ids
    <3> QED
      BY <3>1, <3>2
  <2>2. loopPc = "deliver" /\ UNCHANGED <<data, pending, pc, call, held, part>>
    BY Zenon DEF Deliver, senderVars
  <2> QED
    BY <2>1, <2>2
<1>2. Ascending' /\ Placed'
  BY <1>1, Zenon DEF InSequence, Ascending, Placed, Sending
<1>3. \A s \in LoopSenders : pc'[s] = "idle"
  BY <1>1 DEF InSequence, BetweenScans
<1>4. WrittenAfter'
  BY <1>3, Zenon DEF WrittenAfter
<1>5. CASE ctx = NoCtx /\ Advance /\ UNCHANGED outVars
  <2>1. UNCHANGED wire /\ ctx \notin LoopCtx
    BY <1>5, LoopCtxIs DEF outVars
  <2>2. BetweenScans' /\ Ahead' /\ loopPc' \in {"scan", "poll"}
    BY <1>1, <1>5, <2>1, AdvanceAhead DEF InSequence
  <2>3. Flagged'
    BY <1>1, <2>1 DEF InSequence, Flagged
  <2>4. \A c : Written(c)' <=> Written(c)
    BY <2>1, Zenon DEF Written
  <2>5. WrittenBefore'
    BY <1>1, <2>4 DEF InSequence, WrittenBefore
  <2>6. LoopPartsInOrder'
    BY <2>1, Zenon DEF InSequence, LoopPartsInOrder, InOrder
  <2> QED
    BY <1>2, <1>4, <2>2, <2>3, <2>5, <2>6, Zenon DEF InSequence
<1>6. CASE ctx # NoCtx /\ Dispose(ctx) /\ loopPc' = "release" /\ UNCHANGED cursor
  <2> DEFINE q == ctx.peer
  <2>1. ctx \in Ctx /\ q \in Peers /\ wire \in [Peers -> Seq(Ctx)]
    BY <1>1, <1>6 DEF Known, Shape, TypeOK, Ctx
  <2>2. BetweenScans' /\ Flagged' /\ Ahead'
    BY <1>1, <1>6 DEF InSequence, BetweenScans, Flagged, Ahead
  <2>3. wire' = wire \/ wire' = [wire EXCEPT ![q] = Append(@, ctx)]
    BY <1>6, Zenon DEF Dispose
  <2>4. \A i \in Ids : data[i] \in LoopCtx => \A c \in Ctx :
          Written(c) /\ Same(c, data[i]) => c.part < data[i].part
    BY <1>1, Zenon DEF InSequence, WrittenBefore
  <2>5. CASE wire' = wire
    <3>1. \A c : Written(c)' <=> Written(c)
      BY <2>5, Zenon DEF Written
    <3>2. WrittenBefore'
      BY <1>1, <2>4, <3>1, Zenon DEF WrittenBefore
    <3>3. LoopPartsInOrder'
      BY <2>5, Zenon DEF InSequence, LoopPartsInOrder, InOrder
    <3> QED
      BY <1>2, <1>4, <2>2, <3>2, <3>3, Zenon DEF InSequence
  <2>6. CASE wire' = [wire EXCEPT ![q] = Append(@, ctx)]
    <3> HIDE DEF ctx
    <3>1. /\ wire'[q] = Append(wire[q], ctx) /\ wire[q] \in Seq(Ctx)
          /\ \A p \in Peers : p # q => wire'[p] = wire[p]
      BY <2>1, <2>6
    <3>2. /\ DOMAIN wire'[q] = 1 .. Len(wire[q]) + 1 /\ Len(wire[q]) \in Nat
          /\ DOMAIN wire[q] = 1 .. Len(wire[q])
          /\ \A j \in 1 .. Len(wire[q]) : wire'[q][j] = wire[q][j] /\ wire[q][j] \in Ctx
          /\ wire'[q][Len(wire[q]) + 1] = ctx
      BY <2>1, <3>1
    <3>3. \A c : Written(c)' => Written(c) \/ c = ctx
      <4> SUFFICES ASSUME NEW c, Written(c)' PROVE Written(c) \/ c = ctx
        OBVIOUS
      <4>1. PICK p \in Peers : \E j \in DOMAIN wire'[p] : wire'[p][j] = c
        BY Zenon DEF Written
      <4>2. PICK j \in DOMAIN wire'[p] : wire'[p][j] = c
        BY <4>1
      <4>3. CASE p # q
        BY <3>1, <4>2, <4>3, Zenon DEF Written
      <4>4. CASE p = q
        <5>1. j \in 1 .. Len(wire[q]) \/ j = Len(wire[q]) + 1
          BY <3>2, <4>2, <4>4
        <5> QED
          BY <2>1, <3>2, <4>2, <4>4, <5>1, Zenon DEF Written
      <4> QED
        BY <4>3, <4>4
    <3>4. WrittenBefore'
      <4> SUFFICES ASSUME NEW i \in Ids, data[i] \in LoopCtx, i # cursor,
                          NEW c \in Ctx, Written(c) \/ c = ctx, Same(c, data[i])
                   PROVE  c.part < data[i].part
        BY <1>1, <1>6, <3>3, Zenon DEF WrittenBefore
      <4>1. CASE Written(c)
        BY <2>4, <4>1, Zenon
      <4>2. CASE c = ctx
        <5>1. data[i] \in Ctx /\ ctx \in LoopCtx
          BY <2>1, <4>2 DEF LoopCtx, Same
        <5>2. ctx.part \in Int /\ data[i].part \in Int
          BY <2>1, <5>1 DEF Ctx
        <5>3. cursor <= i
          BY <1>1 DEF InSequence, Ahead
        <5>4. data[i].part <= ctx.part => i <= cursor
          BY <1>1, <4>2, <5>1 DEF InSequence, Ascending, Same, ctx
        <5> QED
          BY <1>1, <4>2, <5>2, <5>3, <5>4
      <4> QED
        BY <4>1, <4>2
    <3>5. LoopPartsInOrder'
      <4> SUFFICES ASSUME NEW p \in Peers, NEW j \in DOMAIN wire'[p], NEW k \in DOMAIN wire'[p],
                          wire'[p][j].from \in LoopSenders,
                          wire'[p][j].from = wire'[p][k].from,
                          wire'[p][j].call = wire'[p][k].call,
                          wire'[p][j].part < wire'[p][k].part
                   PROVE  j < k
        BY Zenon DEF LoopPartsInOrder, InOrder
      <4>1. CASE p # q
        BY <3>1, <4>1 DEF InSequence, LoopPartsInOrder, InOrder
      <4>2. CASE p = q /\ j \in DOMAIN wire[q] /\ k \in DOMAIN wire[q]
        <5>1. wire'[p][j] = wire[q][j] /\ wire'[p][k] = wire[q][k]
          BY <3>2, <4>2
        <5> QED
          BY <2>1, <4>2, <5>1, Zenon DEF InSequence, LoopPartsInOrder, InOrder
      <4>3. CASE p = q /\ j \in DOMAIN wire[q] /\ k = Len(wire[q]) + 1
        BY <3>2, <4>3
      <4>4. CASE p = q /\ j = Len(wire[q]) + 1 /\ k \in DOMAIN wire[q]
        <5> DEFINE c == wire[q][k]
        <5>1. c \in Ctx /\ Written(c) /\ wire'[p][j] = ctx /\ wire'[p][k] = c
          BY <2>1, <3>2, <4>4 DEF Written
        <5> HIDE DEF c
        <5>2. ctx \in LoopCtx /\ Same(c, ctx) /\ ctx.part < c.part
          BY <2>1, <5>1 DEF LoopCtx, Same
        <5>3. c.part < ctx.part
          BY <1>1, <2>4, <5>1, <5>2, Zenon DEF ctx
        <5>4. c.part \in Int /\ ctx.part \in Int
          BY <2>1, <5>1 DEF Ctx
        <5> QED
          BY <5>2, <5>3, <5>4
      <4>5. CASE p = q /\ j = Len(wire[q]) + 1 /\ k = Len(wire[q]) + 1
        <5>1. wire'[p][j] = ctx /\ wire'[p][k] = ctx
          BY <3>2, <4>5
        <5>2. ctx.part \in Int
          BY <2>1 DEF Ctx
        <5> QED
          BY <5>1, <5>2
      <4>6. \A m \in DOMAIN wire'[q] : m \in DOMAIN wire[q] \/ m = Len(wire[q]) + 1
        BY <3>2
      <4> QED
        BY <4>1, <4>2, <4>3, <4>4, <4>5, <4>6, Zenon
    <3> QED
      BY <1>2, <1>4, <2>2, <3>4, <3>5, Zenon DEF InSequence
  <2> QED
    BY <2>3, <2>5, <2>6
<1> QED
  BY <1>5, <1>6, Zenon DEF Deliver

LEMMA ReleaseSequence ==
    ASSUME Known, Shape', InSequence, Release
    PROVE  InSequence'
<1>1. /\ loopPc = "release" /\ cursor \in Ids
      /\ data' = [data EXCEPT ![cursor] = NoCtx] /\ data \in [Ids -> Ctx \cup {NoCtx}]
      /\ UNCHANGED <<pending, wire, pc, call, held, part>> /\ Advance
  BY Zenon DEF Release, senderVars, outVars, Known, Shape, TypeOK
<1>2. data'[cursor] = NoCtx /\ \A i \in Ids \ {cursor} : data'[i] = data[i]
  BY <1>1
<1>3. \A i \in Ids : data'[i] \in LoopCtx => i # cursor /\ data'[i] = data[i]
  BY <1>2, LoopCtxIs
<1>4. \A c : Written(c)' <=> Written(c)
  BY <1>1, Zenon DEF Written
<1>5. BetweenScans' /\ Ahead' /\ loopPc' \in {"scan", "poll"}
  BY <1>1, <1>3, AdvanceAhead DEF InSequence
<1>6. Flagged'
  BY <1>1, <1>3 DEF InSequence, Flagged
<1>7. Ascending'
  BY <1>3 DEF InSequence, Ascending
<1>8. Placed'
  BY <1>1, <1>3 DEF InSequence, Placed, Sending
<1>9. WrittenBefore'
  BY <1>3, <1>4 DEF InSequence, WrittenBefore
<1>10. WrittenAfter'
  BY <1>1, <1>4, Zenon DEF InSequence, WrittenAfter
<1>11. LoopPartsInOrder'
  BY <1>1, Zenon DEF InSequence, LoopPartsInOrder, InOrder
<1> QED
  BY <1>5, <1>6, <1>7, <1>8, <1>9, <1>10, <1>11, Zenon DEF InSequence

LEMMA NextSequence == Known /\ Shape' /\ InSequence /\ [Next]_vars => InSequence'
<1> SUFFICES ASSUME Known, Shape', InSequence, [Next]_vars PROVE InSequence'
  OBVIOUS
<1>1. ASSUME NEW s \in Senders, Store(s) \/ Moves(s) PROVE InSequence'
  BY <1>1, StoreSequence, MovesSequence
<1> QED
  BY <1>1, QuietSequence, DeliverSequence, ReleaseSequence, Zenon DEF Next, Send, Loop, Moves

\* The parts of a message sent by a callback of the loop thread reach uv_write in
\* order, whatever other threads do to the pool ("初始化在前的先执行",
\* CAsyncs.cpp:147-151).
THEOREM LoopPartsStayInOrder == Spec => []LoopPartsInOrder
<1>1. Init => Known /\ InSequence
  BY InitShape, InitOrdered, InitOnce, InitSequence DEF Known
<1>2. Known /\ InSequence /\ [Next]_vars => Known' /\ InSequence'
  BY NextShape, NextOrdered, NextOnce, NextSequence DEF Known
<1>3. Known /\ InSequence => LoopPartsInOrder
  BY DEF InSequence
<1> QED
  BY <1>1, <1>2, <1>3, PTL DEF Spec
=============================================================================
