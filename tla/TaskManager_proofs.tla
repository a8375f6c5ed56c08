------------------------- MODULE TaskManager_proofs -------------------------
(***************************************************************************)
(* Proofs about TaskManager, for any number of threads and tasks: no       *)
(* finished task is left without a wake-up, a task is in one place from    *)
(* its post to the end of its request, and the list of the requests is     *)
(* exact as long as no two threads are in it at once.                      *)
(***************************************************************************)
EXTENDS TaskManager, LoopLifecycle_proofs, FiniteSetTheorems

-----------------------------------------------------------------------------
(* A task manager is a loop with an owner.                                 *)

\* Every step of a task manager is one of the loop and its owner, or none.
LEMMA StepMaps == ASSUME [TaskNext]_allVars PROVE [Next]_vars
<1>1. CASE UNCHANGED allVars
  BY <1>1, Zenon DEF allVars
<1>2. CASE LifeOwner
  BY <1>2, Zenon DEF LifeOwner, Next
<1>3. CASE LifeLoop
  BY <1>3, Zenon DEF LifeLoop, Next, Loop
<1>4. CASE LifeSend
  BY <1>4, Zenon DEF LifeSend, Next
<1>5. ASSUME NEW p \in Posters, Link(p) \/ Posting(p) PROVE UNCHANGED vars
  BY <1>5, Zenon DEF Link, Posting, LinkNext, LinkPrev, Submit
<1>6. ASSUME NEW w \in Workers, Take(w) \/ Work(w) PROVE UNCHANGED vars
  BY <1>6, Zenon DEF Take, Work
<1>7. CASE LoopTasks
  <2>1. CASE VisitStop
    BY <2>1, Zenon DEF VisitStop, Next, Loop
  <2>2. CASE \/ VisitWork \/ TakeDone \/ Unlink \/ UnlinkAborts \/ UnlinkPrev
             \/ CallAfter \/ FreeRequest
    BY <2>2, Zenon DEF VisitWork, TakeDone, Unlink, UnlinkAborts, UnlinkPrev, CallAfter, FreeRequest
  <2> QED
    BY <1>7, <2>1, <2>2, Zenon DEF LoopTasks
<1> QED
  BY <1>1, <1>2, <1>3, <1>4, <1>5, <1>6, <1>7, Zenon DEF TaskNext

LEMMA ManagerIsLoop == TaskSpec => Spec
<1>1. TaskInit => Init
  BY Zenon DEF TaskInit
<1>2. [TaskNext]_allVars => [Next]_vars
  BY StepMaps, Zenon
<1> QED
  BY <1>1, <1>2, PTL DEF TaskSpec, Spec

-----------------------------------------------------------------------------
(* Finished tasks.                                                         *)

LEMMA NoLostDoneStep == ASSUME NoLostDone, [TaskNext]_allVars PROVE NoLostDone'
<1> USE DEF NoLostDone
<1>1. CASE UNCHANGED <<doneVars, scan>>
  BY <1>1, Zenon DEF doneVars
<1>2. CASE UNCHANGED allVars
  BY <1>1, <1>2, Zenon DEF allVars, taskVars, scanVars
<1>3. CASE LifeOwner \/ LifeLoop \/ LifeSend
  BY <1>1, <1>3, Zenon DEF LifeOwner, LifeLoop, LifeSend, taskVars, scanVars
<1>4. ASSUME NEW p \in Posters, Link(p) \/ Posting(p) PROVE NoLostDone'
  BY <1>1, <1>4, Zenon DEF Link, Posting, LinkNext, LinkPrev, Submit, scanVars
<1>5. ASSUME NEW w \in Workers, Take(w) PROVE NoLostDone'
  BY <1>1, <1>5, Zenon DEF Take, scanVars
<1>6. ASSUME NEW w \in Workers, Work(w) PROVE NoLostDone'
  BY <1>6, Zenon DEF Work
\* The loop lowers the flag only when it goes on to take the queue.
<1>7. CASE VisitWork
  <2>1. scan = "none" /\ finished' = finished
    BY <1>7, Zenon DEF VisitWork
  <2>2. finished # <<>> => scan' = "visited"
    BY <1>7, <2>1 DEF VisitWork
  <2> QED
    BY <2>1, <2>2, Zenon
<1>8. CASE TakeDone
  BY <1>8, Zenon DEF TakeDone
<1>9. CASE VisitStop
  <2>1. scan = "taken" /\ UNCHANGED doneVars
    BY <1>9, Zenon DEF VisitStop
  <2> QED
    BY <2>1 DEF doneVars
<1>10. CASE Unlink \/ UnlinkAborts \/ UnlinkPrev \/ CallAfter \/ FreeRequest
  BY <1>1, <1>10, Zenon DEF Unlink, UnlinkAborts, UnlinkPrev, CallAfter, FreeRequest
<1> QED
  BY <1>2, <1>3, <1>4, <1>5, <1>6, <1>7, <1>8, <1>9, <1>10, Zenon DEF TaskNext, LoopTasks

\* No finished task is left without a wake-up, for any number of threads and tasks
\* (threadpool.c:83-90, 227-246).
THEOREM DoneNeverLost == TaskSpec => []NoLostDone
<1>1. TaskInit => NoLostDone
  BY Zenon DEF TaskInit, NoLostDone
<1>2. NoLostDone /\ [TaskNext]_allVars => NoLostDone'
  BY NoLostDoneStep, Zenon
<1> QED
  BY <1>1, <1>2, PTL DEF TaskSpec

-----------------------------------------------------------------------------
(* Where a task is.                                                        *)

Has(s, t) == \E i \in DOMAIN s : s[i] = t
Once(s) == \A i, j \in DOMAIN s : s[i] = s[j] => i = j

Posted(t)   == \E p \in Posters : poster[p].task = t
Waits(t)    == Has(wq, t)
Busy(t)     == \E w \in Workers : worker[w] = t
Finished(t) == Has(finished, t)
Batched(t)  == Has(batch, t)

Somewhere(t) == Posted(t) \/ Waits(t) \/ Busy(t) \/ Finished(t) \/ Batched(t)

\* No place has a task twice,
Singly ==
    /\ \A p, q \in Posters : poster[p].task = poster[q].task => poster[p].task = Idle \/ p = q
    /\ \A v, w \in Workers : worker[v] = worker[w] => worker[v] = Idle \/ v = w
    /\ Once(wq) /\ Once(finished) /\ Once(batch)

\* no two places have the same one,
Apart ==
    \A t \in Tasks :
        /\ Posted(t) => ~ Waits(t) /\ ~ Busy(t) /\ ~ Finished(t) /\ ~ Batched(t)
        /\ Waits(t) => ~ Busy(t) /\ ~ Finished(t) /\ ~ Batched(t)
        /\ Busy(t) => ~ Finished(t) /\ ~ Batched(t)
        /\ Finished(t) => ~ Batched(t)

\* and the place of a task tells which of its callbacks were called.
Staged ==
    \A t \in Tasks :
        /\ Posted(t) \/ Waits(t) \/ Busy(t) => worked[t] = 0
        /\ Posted(t) \/ Waits(t) \/ Busy(t) \/ Finished(t) => after[t] = 0
        /\ Batched(t) => (after[t] = 1 <=> InBatch("called") /\ Head(batch) = t)
        /\ t > posts => ~ Somewhere(t) /\ worked[t] = 0 /\ after[t] = 0
        /\ t <= posts => Somewhere(t) \/ after[t] = 1

\* What the posters and the loop are in the middle of.
InStep ==
    /\ \A p \in Posters : poster[p].at = "no" <=> poster[p].task = Idle
    /\ scan # "taken" => batch = <<>>
    /\ batch = <<>> => step = "unlink"
    /\ poster["loop"].at # "no" => step = "called"

\* The parts of TaskTypeOK that are not LoopLifecycle's.
PosterTypes ==
    /\ posts \in 0 .. MaxTasks
    /\ poster \in [Posters -> [at : {"no", "append", "close", "submit"}, task : Tasks \cup {Idle}]]
ListTypes == next \in [Nodes -> Nodes] /\ prev \in [Nodes -> Nodes]
PlaceTypes ==
    /\ wq \in Seq(Tasks) /\ finished \in Seq(Tasks) /\ batch \in Seq(Tasks)
    /\ worker \in [Workers -> Tasks \cup {Idle}]
    /\ worked \in [Tasks -> 0 .. 1] /\ after \in [Tasks -> 0 .. 1]
StepTypes ==
    /\ flagged \in BOOLEAN
    /\ scan \in {"none", "visited", "taken"}
    /\ step \in {"unlink", "unlink prev", "call", "called", "aborted"}

TaskTypes == PosterTypes /\ ListTypes /\ PlaceTypes /\ StepTypes

Homes == Singly /\ Apart /\ Staged

PlaceInv == TaskTypes /\ InStep /\ Homes

LEMMA TaskTypesAgree == TaskTypeOK <=> TypeOK /\ TaskTypes
  BY Zenon DEF TaskTypeOK, TaskTypes, PosterTypes, ListTypes, PlaceTypes, StepTypes

LEMMA TaskFacts ==
    /\ MaxTasks \in Nat /\ Tasks \subseteq Nat /\ Idle \notin Tasks /\ Head0 \notin Tasks
    /\ Posters = {"main", "loop"} /\ Nodes = Tasks \cup {Head0}
  BY TaskAssumption DEF Tasks, Head0, Posters, Nodes

\* What takes the head of a queue, and what adds to its end.
LEMMA TailHas ==
    ASSUME NEW S, NEW s \in Seq(S), s # <<>>
    PROVE  /\ Head(s) \in S /\ Tail(s) \in Seq(S) /\ Has(s, Head(s))
           /\ Once(s) => Once(Tail(s)) /\ \A t : Has(Tail(s), t) <=> Has(s, t) /\ t # Head(s)
<1>1. /\ Len(s) \in Nat /\ Len(s) >= 1 /\ DOMAIN s = 1 .. Len(s) /\ Head(s) = s[1]
      /\ Tail(s) \in Seq(S) /\ DOMAIN Tail(s) = 1 .. Len(s) - 1
      /\ \A i \in 1 .. Len(s) - 1 : Tail(s)[i] = s[i + 1]
  OBVIOUS
<1>2. 1 \in DOMAIN s /\ s[1] \in S
  BY <1>1
<1>3. ASSUME Once(s) PROVE Once(Tail(s))
  BY <1>1, <1>3 DEF Once
<1>4. ASSUME Once(s), NEW t PROVE Has(Tail(s), t) <=> Has(s, t) /\ t # Head(s)
  <2>1. ASSUME Has(Tail(s), t) PROVE Has(s, t) /\ t # Head(s)
    <3>1. PICK i \in 1 .. Len(s) - 1 : s[i + 1] = t
      BY <1>1, <2>1 DEF Has
    <3>2. i + 1 \in DOMAIN s /\ i + 1 # 1
      BY <1>1, <3>1
    <3> QED
      BY <1>1, <1>2, <1>4, <3>1, <3>2 DEF Has, Once
  <2>2. ASSUME Has(s, t), t # Head(s) PROVE Has(Tail(s), t)
    <3>1. PICK i \in DOMAIN s : s[i] = t
      BY <2>2 DEF Has
    <3>2. i - 1 \in 1 .. Len(s) - 1 /\ (i - 1) + 1 = i
      BY <1>1, <2>2, <3>1
    <3> QED
      BY <1>1, <3>1, <3>2 DEF Has
  <2> QED
    BY <2>1, <2>2
<1> QED
  BY <1>1, <1>2, <1>3, <1>4 DEF Has

LEMMA AppendHas ==
    ASSUME NEW S, NEW s \in Seq(S), NEW x \in S
    PROVE  /\ Append(s, x) \in Seq(S) /\ \A t : Has(Append(s, x), t) <=> Has(s, t) \/ t = x
           /\ Once(s) /\ ~ Has(s, x) => Once(Append(s, x))
<1>1. /\ Len(s) \in Nat /\ DOMAIN s = 1 .. Len(s)
      /\ Append(s, x) \in Seq(S) /\ DOMAIN Append(s, x) = 1 .. Len(s) + 1
      /\ \A i \in 1 .. Len(s) : Append(s, x)[i] = s[i]
      /\ Append(s, x)[Len(s) + 1] = x
  OBVIOUS
<1>2. \A i \in 1 .. Len(s) + 1 : i \in 1 .. Len(s) \/ i = Len(s) + 1
  BY <1>1
<1>3. \A i \in 1 .. Len(s) : i \in 1 .. Len(s) + 1
  BY <1>1
<1>4. Len(s) + 1 \in 1 .. Len(s) + 1
  BY <1>1
<1>5. ASSUME NEW t PROVE Has(Append(s, x), t) <=> Has(s, t) \/ t = x
  BY <1>1, <1>2, <1>3, <1>4, Zenon DEF Has
<1>6. ASSUME Once(s), ~ Has(s, x) PROVE Once(Append(s, x))
  <2> SUFFICES ASSUME NEW i \in 1 .. Len(s) + 1, NEW j \in 1 .. Len(s) + 1,
                      Append(s, x)[i] = Append(s, x)[j]
               PROVE  i = j
    BY <1>1, Zenon DEF Once
  <2> QED
    BY <1>1, <1>2, <1>6, Zenon DEF Once, Has
<1> QED
  BY <1>1, <1>5, <1>6, Zenon

\* A step that moves no task.
LEMMA NoneMoved ==
    ASSUME Homes, UNCHANGED <<posts, wq, worker, finished, batch, worked, after>>,
           \A p \in Posters : poster'[p].task = poster[p].task,
           InBatch("called")' <=> InBatch("called")
    PROVE  Homes'
<1>1. /\ \A t : Posted(t)' <=> Posted(t)
      /\ \A t : Waits(t)' <=> Waits(t)
      /\ \A t : Busy(t)' <=> Busy(t)
      /\ \A t : Finished(t)' <=> Finished(t)
      /\ \A t : Batched(t)' <=> Batched(t)
  BY Zenon DEF Posted, Waits, Busy, Finished, Batched, Has
<1>2. Singly'
  BY Zenon DEF Homes, Singly, Once
<1>3. Apart'
  BY <1>1, Zenon DEF Homes, Apart
<1>4. Staged'
  BY <1>1, Zenon DEF Homes, Staged, Somewhere
<1> QED
  BY <1>2, <1>3, <1>4, Zenon DEF Homes

\* What is left to show of a step that moves tasks: the five places afterwards.
LEMMA LinkHomes ==
    ASSUME PlaceInv, NEW p \in Posters, Link(p) PROVE Homes'
<1> DEFINE new == posts + 1
<1>1. /\ posts \in Nat /\ posts < MaxTasks /\ posts' = new /\ poster[p].at = "no"
      /\ poster' = [poster EXCEPT ![p] = [at |-> "append", task |-> new]]
      /\ UNCHANGED <<threadVars, doneVars, scanVars>>
  BY TaskFacts DEF Link, MayPost, PlaceInv, TaskTypes, PosterTypes
<1>2. new \in Tasks /\ new > posts /\ new \in Nat
  BY <1>1, TaskFacts DEF Tasks
<1>3. /\ ~ Posted(new) /\ ~ Waits(new) /\ ~ Busy(new) /\ ~ Finished(new) /\ ~ Batched(new)
      /\ worked[new] = 0 /\ after[new] = 0
  BY <1>2, Zenon DEF PlaceInv, Homes, Staged, Somewhere
<1>4. poster[p].task = Idle /\ DOMAIN poster = Posters
  BY <1>1 DEF PlaceInv, InStep, TaskTypes, PosterTypes
<1>5. /\ poster'[p].task = new
      /\ \A q \in Posters : q # p => poster'[q].task = poster[q].task
  BY <1>1, <1>4
<1> HIDE DEF new
<1>6. \A t \in Tasks : Posted(t)' <=> Posted(t) \/ t = new
  BY <1>4, <1>5, TaskFacts, Zenon DEF Posted
<1>7. /\ \A t : Waits(t)' <=> Waits(t)
      /\ \A t : Busy(t)' <=> Busy(t)
      /\ \A t : Finished(t)' <=> Finished(t)
      /\ \A t : Batched(t)' <=> Batched(t)
      /\ InBatch("called")' <=> InBatch("called")
      /\ UNCHANGED <<wq, worker, worked, finished, batch, after>>
  BY <1>1, Zenon DEF Waits, Busy, Finished, Batched, Has, InBatch, threadVars, doneVars, scanVars
<1>8. Singly'
  <2>1. \A q, r \in Posters :
            poster'[q].task = poster'[r].task => poster'[q].task = Idle \/ q = r
    BY <1>3, <1>5, Zenon DEF Posted, PlaceInv, Homes, Singly
  <2> QED
    BY <1>7, <2>1, Zenon DEF PlaceInv, Homes, Singly, Once
<1>9. Apart'
  BY <1>3, <1>6, <1>7, Zenon DEF PlaceInv, Homes, Apart
<1>10. Staged'
  <2>1. \A t \in Tasks : (t > posts' <=> t > posts /\ t # new) /\ (t <= posts' <=> t <= posts \/ t = new)
    BY <1>1, TaskFacts DEF new
  <2> QED
    BY <1>3, <1>6, <1>7, <2>1, Zenon DEF PlaceInv, Homes, Staged, Somewhere
<1> QED
  BY <1>8, <1>9, <1>10, Zenon DEF Homes

LEMMA SubmitHomes ==
    ASSUME PlaceInv, NEW p \in Posters, Submit(p) PROVE Homes'
<1> DEFINE x == poster[p].task
<1>1. /\ poster[p].at = "submit" /\ wq' = Append(wq, x)
      /\ poster' = [poster EXCEPT ![p] = [at |-> "no", task |-> Idle]]
      /\ UNCHANGED <<posts, worker, worked, doneVars, scanVars>>
  BY Zenon DEF Submit
<1>2. x \in Tasks /\ wq \in Seq(Tasks) /\ DOMAIN poster = Posters /\ x # Idle
  BY <1>1, TaskFacts DEF PlaceInv, InStep, TaskTypes, PosterTypes, PlaceTypes
<1>3. /\ poster'[p].task = Idle
      /\ \A q \in Posters : q # p => poster'[q].task = poster[q].task
  BY <1>1, <1>2
<1>3a. poster[p].task = x
  OBVIOUS
<1> HIDE DEF x
<1>4. /\ Posted(x) /\ ~ Waits(x) /\ ~ Busy(x) /\ ~ Finished(x) /\ ~ Batched(x)
  BY <1>2, <1>3a, Zenon DEF Posted, PlaceInv, Homes, Apart
<1>5. /\ \A t : Waits(t)' <=> Waits(t) \/ t = x
      /\ Once(wq) => Once(wq')
  BY <1>1, <1>2, <1>4, AppendHas, Zenon DEF Waits
<1>6. \A t \in Tasks : Posted(t)' <=> Posted(t) /\ t # x
  BY <1>2, <1>3, <1>3a, TaskFacts, Zenon DEF Posted, PlaceInv, Homes, Singly
<1>7. /\ \A t : Busy(t)' <=> Busy(t)
      /\ \A t : Finished(t)' <=> Finished(t)
      /\ \A t : Batched(t)' <=> Batched(t)
      /\ InBatch("called")' <=> InBatch("called")
      /\ UNCHANGED <<posts, worker, worked, finished, batch, after>>
  BY <1>1, Zenon DEF Busy, Finished, Batched, Has, InBatch, doneVars, scanVars
<1>8. Singly'
  <2>1. \A q, r \in Posters :
            poster'[q].task = poster'[r].task => poster'[q].task = Idle \/ q = r
    BY <1>3, Zenon DEF PlaceInv, Homes, Singly
  <2> QED
    BY <1>5, <1>7, <2>1, Zenon DEF PlaceInv, Homes, Singly, Once
<1>9. Apart'
  BY <1>4, <1>5, <1>6, <1>7, Zenon DEF PlaceInv, Homes, Apart
<1>10. Staged'
  <2>1. \A t \in Tasks : Somewhere(t)' <=> Somewhere(t)
    BY <1>2, <1>4, <1>5, <1>6, <1>7, Zenon DEF Somewhere
  <2> QED
    BY <1>2, <1>4, <1>5, <1>6, <1>7, <2>1, Zenon DEF PlaceInv, Homes, Staged
<1> QED
  BY <1>8, <1>9, <1>10, Zenon DEF Homes

LEMMA TakeHomes ==
    ASSUME PlaceInv, NEW w \in Workers, Take(w) PROVE Homes'
<1> DEFINE x == Head(wq)
<1>1. /\ worker[w] = Idle /\ wq # <<>> /\ wq' = Tail(wq) /\ wq \in Seq(Tasks)
      /\ worker' = [worker EXCEPT ![w] = x]
      /\ UNCHANGED <<posts, poster, worked, doneVars, scanVars>>
  BY Zenon DEF Take, PlaceInv, TaskTypes, PlaceTypes
<1>2. /\ x \in Tasks /\ Waits(x) /\ Once(wq')
      /\ \A t : Waits(t)' <=> Waits(t) /\ t # x
  BY <1>1, TailHas, Zenon DEF Waits, PlaceInv, Homes, Singly
<1>3. worker'[w] = x /\ \A v \in Workers : v # w => worker'[v] = worker[v]
  BY <1>1 DEF PlaceInv, TaskTypes, PlaceTypes
<1>4. ~ Posted(x) /\ ~ Busy(x) /\ ~ Finished(x) /\ ~ Batched(x)
  BY <1>2, Zenon DEF PlaceInv, Homes, Apart
<1> HIDE DEF x
<1>5. \A t \in Tasks : Busy(t)' <=> Busy(t) \/ t = x
  BY <1>1, <1>3, TaskFacts, Zenon DEF Busy
<1>6. /\ \A t : Posted(t)' <=> Posted(t)
      /\ \A t : Finished(t)' <=> Finished(t)
      /\ \A t : Batched(t)' <=> Batched(t)
      /\ InBatch("called")' <=> InBatch("called")
      /\ UNCHANGED <<posts, poster, worked, finished, batch, after>>
  BY <1>1, Zenon DEF Posted, Finished, Batched, Has, InBatch, doneVars, scanVars
<1>7. Singly'
  <2>1. \A u, v \in Workers : worker'[u] = worker'[v] => worker'[u] = Idle \/ u = v
    BY <1>3, <1>4, Zenon DEF Busy, PlaceInv, Homes, Singly
  <2> QED
    BY <1>2, <1>6, <2>1, Zenon DEF PlaceInv, Homes, Singly, Once
<1>8. Apart'
  BY <1>2, <1>4, <1>5, <1>6, Zenon DEF PlaceInv, Homes, Apart
<1>9. Staged'
  <2>1. \A t \in Tasks : Somewhere(t)' <=> Somewhere(t)
    BY <1>2, <1>5, <1>6, Zenon DEF Somewhere
  <2> QED
    BY <1>2, <1>5, <1>6, <2>1, Zenon DEF PlaceInv, Homes, Staged
<1> QED
  BY <1>7, <1>8, <1>9, Zenon DEF Homes

LEMMA WorkHomes ==
    ASSUME PlaceInv, NEW w \in Workers, Work(w) PROVE Homes'
<1> DEFINE x == worker[w]
<1>1. /\ x # Idle /\ finished' = Append(finished, x) /\ finished \in Seq(Tasks)
      /\ worker' = [worker EXCEPT ![w] = Idle] /\ worked' = [worked EXCEPT ![x] = @ + 1]
      /\ UNCHANGED <<posts, poster, wq, scanVars>>
  BY Zenon DEF Work, PlaceInv, TaskTypes, PlaceTypes
<1>2. x \in Tasks /\ Busy(x) /\ DOMAIN worker = Workers /\ DOMAIN worked = Tasks
  BY <1>1 DEF Busy, PlaceInv, TaskTypes, PlaceTypes
<1>3. worker'[w] = Idle /\ \A v \in Workers : v # w => worker'[v] = worker[v]
  BY <1>1, <1>2
<1>3a. worker[w] = x
  OBVIOUS
<1>4. ~ Posted(x) /\ ~ Waits(x) /\ ~ Finished(x) /\ ~ Batched(x)
  BY <1>2, Zenon DEF PlaceInv, Homes, Apart
<1>5. /\ \A t : Finished(t)' <=> Finished(t) \/ t = x
      /\ Once(finished) => Once(finished')
  BY <1>1, <1>2, <1>4, AppendHas, Zenon DEF Finished
<1>6. \A t \in Tasks : Busy(t)' <=> Busy(t) /\ t # x
  <2> HIDE DEF x
  <2>1. \A v \in Workers : worker[v] = x => v = w
    BY <1>1, <1>3a, Zenon DEF PlaceInv, Homes, Singly
  <2> QED
    BY <1>3, <1>3a, <2>1, TaskFacts, Zenon DEF Busy
<1>7. \A t \in Tasks : t # x => worked'[t] = worked[t]
  BY <1>1, <1>2
<1>8. /\ \A t : Posted(t)' <=> Posted(t)
      /\ \A t : Waits(t)' <=> Waits(t)
      /\ \A t : Batched(t)' <=> Batched(t)
      /\ InBatch("called")' <=> InBatch("called")
      /\ UNCHANGED <<posts, poster, wq, batch, after>>
  BY <1>1, Zenon DEF Posted, Waits, Batched, Has, InBatch, scanVars
<1> HIDE DEF x
<1>9. Singly'
  <2>1. \A u, v \in Workers : worker'[u] = worker'[v] => worker'[u] = Idle \/ u = v
    BY <1>3, Zenon DEF PlaceInv, Homes, Singly
  <2> QED
    BY <1>5, <1>8, <2>1, Zenon DEF PlaceInv, Homes, Singly, Once
<1>10. Apart'
  BY <1>2, <1>4, <1>5, <1>6, <1>8, Zenon DEF PlaceInv, Homes, Apart
<1>11. Staged'
  <2>1. \A t \in Tasks : Somewhere(t)' <=> Somewhere(t)
    BY <1>2, <1>5, <1>6, <1>8, Zenon DEF Somewhere
  <2>2. ~ (x > posts)
    BY <1>2, Zenon DEF PlaceInv, Homes, Staged, Somewhere
  <2>3. after[x] = 0
    BY <1>2, Zenon DEF PlaceInv, Homes, Staged
  <2> QED
    BY <1>2, <1>4, <1>5, <1>6, <1>7, <1>8, <2>1, <2>2, <2>3, Zenon DEF PlaceInv, Homes, Staged
<1> QED
  BY <1>9, <1>10, <1>11, Zenon DEF Homes

LEMMA TakeDoneHomes == ASSUME PlaceInv, TakeDone PROVE Homes'
<1>1. /\ batch' = finished /\ finished' = <<>> /\ batch = <<>> /\ step = "unlink"
      /\ UNCHANGED <<posts, poster, threadVars, step, after>>
  BY DEF TakeDone, PlaceInv, InStep
<1>2. /\ \A t : Batched(t)' <=> Finished(t)
      /\ \A t : ~ Finished(t)'
      /\ \A t : ~ Batched(t)
  BY <1>1 DEF Batched, Finished, Has
<1>3. /\ \A t : Posted(t)' <=> Posted(t)
      /\ \A t : Waits(t)' <=> Waits(t)
      /\ \A t : Busy(t)' <=> Busy(t)
      /\ UNCHANGED <<posts, poster, wq, worker, worked, after>>
  BY <1>1, Zenon DEF Posted, Waits, Busy, Has, threadVars
<1>4. ~ InBatch("called")'
  BY <1>1 DEF InBatch
<1>5. Singly'
  <2>1. Once(batch') /\ Once(finished')
    BY <1>1 DEF Once, PlaceInv, Homes, Singly
  <2> QED
    BY <1>3, <2>1, Zenon DEF PlaceInv, Homes, Singly, Once
<1>6. Apart'
  BY <1>2, <1>3, Zenon DEF PlaceInv, Homes, Apart
<1>7. Staged'
  <2>1. \A t \in Tasks : after[t] = 1 => after[t] # 0
    OBVIOUS
  <2> QED
    BY <1>2, <1>3, <1>4, <2>1, Zenon DEF PlaceInv, Homes, Staged, Somewhere
<1> QED
  BY <1>5, <1>6, <1>7, Zenon DEF Homes

LEMMA CallAfterHomes == ASSUME PlaceInv, CallAfter PROVE Homes'
<1> DEFINE x == Head(batch)
<1>1. /\ batch # <<>> /\ step = "call" /\ step' = "called"
      /\ after' = [after EXCEPT ![x] = @ + 1] /\ after \in [Tasks -> 0 .. 1]
      /\ batch \in Seq(Tasks)
      /\ UNCHANGED <<posts, poster, threadVars, doneVars, batch>>
  BY Zenon DEF CallAfter, InBatch, PlaceInv, TaskTypes, PlaceTypes
<1>2. x \in Tasks /\ Batched(x)
  BY <1>1, TailHas, Zenon DEF Batched
<1>3. ~ InBatch("called") /\ InBatch("called")' /\ Head(batch)' = x
  BY <1>1 DEF InBatch
<1> HIDE DEF x
<1>4. after[x] # 1 /\ after[x] \in 0 .. 1
  BY <1>1, <1>2, <1>3, Zenon DEF PlaceInv, Homes, Staged
<1>5. after'[x] = 1 /\ \A t \in Tasks : t # x => after'[t] = after[t]
  BY <1>1, <1>2, <1>4
<1>6. ~ Posted(x) /\ ~ Waits(x) /\ ~ Busy(x) /\ ~ Finished(x)
  BY <1>2, Zenon DEF PlaceInv, Homes, Apart
<1>7. /\ \A t : Posted(t)' <=> Posted(t)
      /\ \A t : Waits(t)' <=> Waits(t)
      /\ \A t : Busy(t)' <=> Busy(t)
      /\ \A t : Finished(t)' <=> Finished(t)
      /\ \A t : Batched(t)' <=> Batched(t)
      /\ UNCHANGED <<posts, poster, wq, worker, worked, finished, batch>>
  BY <1>1, Zenon DEF Posted, Waits, Busy, Finished, Batched, Has, threadVars, doneVars
<1>8. Singly'
  BY <1>7, Zenon DEF PlaceInv, Homes, Singly, Once
<1>9. Apart'
  BY <1>7, Zenon DEF PlaceInv, Homes, Apart
<1>10. Staged'
  <2>1. ~ (x > posts)
    BY <1>2, Zenon DEF PlaceInv, Homes, Staged, Somewhere
  <2>2. \A t \in Tasks : Somewhere(t)' <=> Somewhere(t)
    BY <1>7, Zenon DEF Somewhere
  <2> QED
    BY <1>2, <1>3, <1>5, <1>6, <1>7, <2>1, <2>2, Zenon DEF PlaceInv, Homes, Staged
<1> QED
  BY <1>8, <1>9, <1>10, Zenon DEF Homes

LEMMA FreeHomes == ASSUME PlaceInv, FreeRequest PROVE Homes'
<1> DEFINE x == Head(batch)
<1>1. /\ batch # <<>> /\ step = "called" /\ step' = "unlink" /\ batch' = Tail(batch)
      /\ batch \in Seq(Tasks)
      /\ UNCHANGED <<posts, poster, threadVars, doneVars, after>>
  BY Zenon DEF FreeRequest, InBatch, PlaceInv, TaskTypes, PlaceTypes
<1>2. /\ x \in Tasks /\ Batched(x) /\ Once(batch')
      /\ \A t : Batched(t)' <=> Batched(t) /\ t # x
  BY <1>1, TailHas, Zenon DEF Batched, PlaceInv, Homes, Singly
<1>3. InBatch("called") /\ ~ InBatch("called")' /\ Head(batch) = x
  BY <1>1 DEF InBatch
<1> HIDE DEF x
<1>4. after[x] = 1
  BY <1>2, <1>3, Zenon DEF PlaceInv, Homes, Staged
<1>5. /\ \A t : Posted(t)' <=> Posted(t)
      /\ \A t : Waits(t)' <=> Waits(t)
      /\ \A t : Busy(t)' <=> Busy(t)
      /\ \A t : Finished(t)' <=> Finished(t)
      /\ UNCHANGED <<posts, poster, wq, worker, worked, finished, after>>
  BY <1>1, Zenon DEF Posted, Waits, Busy, Finished, Has, threadVars, doneVars
<1>6. Singly'
  BY <1>2, <1>5, Zenon DEF PlaceInv, Homes, Singly, Once
<1>7. Apart'
  BY <1>2, <1>5, Zenon DEF PlaceInv, Homes, Apart
<1>8. Staged'
  BY <1>2, <1>3, <1>4, <1>5, Zenon DEF PlaceInv, Homes, Staged, Somewhere
<1> QED
  BY <1>6, <1>7, <1>8, Zenon DEF Homes

\* The steps that write to the list only, or to the loop of LoopLifecycle.
ListSteps == (\E p \in Posters : LinkNext(p) \/ LinkPrev(p)) \/ Unlink \/ UnlinkAborts \/ UnlinkPrev
LifeSteps == LifeOwner \/ LifeLoop \/ LifeSend \/ UNCHANGED allVars

LEMMA QuietHomes ==
    ASSUME PlaceInv, ListSteps \/ LifeSteps \/ VisitWork \/ VisitStop PROVE Homes'
<1>1. /\ UNCHANGED <<posts, wq, worker, finished, batch, worked, after>>
      /\ \A p \in Posters : poster'[p].task = poster[p].task
      /\ InBatch("called")' <=> InBatch("called")
  <2>1. ASSUME NEW p \in Posters, LinkNext(p) \/ LinkPrev(p)
        PROVE  /\ UNCHANGED <<posts, wq, worker, finished, batch, worked, after, step>>
               /\ \A q \in Posters : poster'[q].task = poster[q].task
    <3>1. \E l \in {"close", "submit"} : poster' = [poster EXCEPT ![p].at = l]
      BY <2>1 DEF LinkNext, LinkPrev
    <3>2. poster \in [Posters -> [at : {"no", "append", "close", "submit"}, task : Tasks \cup {Idle}]]
      BY DEF PlaceInv, TaskTypes, PosterTypes
    <3>3. \A q \in Posters : poster'[q].task = poster[q].task
      BY <3>1, <3>2
    <3> QED
      BY <2>1, <3>3, Zenon DEF LinkNext, LinkPrev, threadVars, doneVars, scanVars
  <2>2. CASE Unlink \/ UnlinkAborts \/ UnlinkPrev
    <3>1. UNCHANGED <<posts, poster, wq, worker, finished, batch, worked, after>>
      BY <2>2, Zenon DEF Unlink, UnlinkAborts, UnlinkPrev, threadVars, doneVars
    <3>2. ~ InBatch("called")' /\ ~ InBatch("called")
      BY <2>2 DEF Unlink, UnlinkAborts, UnlinkPrev, InBatch
    <3> QED
      BY <3>1, <3>2, Zenon
  <2>3. CASE LifeSteps \/ VisitWork \/ VisitStop
    <3>1. UNCHANGED <<posts, poster, wq, worker, finished, batch, worked, after, step>>
      BY <2>3, Zenon DEF LifeSteps, LifeOwner, LifeLoop, LifeSend, VisitWork, VisitStop,
                         allVars, taskVars, threadVars, doneVars, scanVars
    <3> QED
      BY <3>1, Zenon DEF InBatch
  <2> QED
    BY <2>1, <2>2, <2>3, Zenon DEF ListSteps, InBatch
<1> QED
  BY <1>1, NoneMoved, Zenon DEF PlaceInv

LEMMA HomesStep == ASSUME PlaceInv, [TaskNext]_allVars PROVE Homes'
<1>1. ASSUME NEW p \in Posters, Link(p) \/ Posting(p) PROVE Homes'
  BY <1>1, LinkHomes, SubmitHomes, QuietHomes, Zenon DEF Posting, ListSteps
<1>2. ASSUME NEW w \in Workers, Take(w) \/ Work(w) PROVE Homes'
  BY <1>2, TakeHomes, WorkHomes, Zenon
<1>3. CASE LoopTasks
  BY <1>3, TakeDoneHomes, CallAfterHomes, FreeHomes, QuietHomes, Zenon DEF LoopTasks, ListSteps
<1>4. CASE LifeSteps
  BY <1>4, QuietHomes, Zenon
<1> QED
  BY <1>1, <1>2, <1>3, <1>4, Zenon DEF TaskNext, LifeSteps

-----------------------------------------------------------------------------
(* The types, and what the posters and the loop are in the middle of.      *)

\* The steps of a poster.
LEMMA PosterStep ==
    ASSUME PlaceInv, NEW p \in Posters, Link(p) \/ Posting(p) PROVE TaskTypes' /\ InStep'
<1> USE DEF Posting
<1>1. poster \in [Posters -> [at : {"no", "append", "close", "submit"}, task : Tasks \cup {Idle}]]
  BY DEF PlaceInv, TaskTypes, PosterTypes
<1>2. UNCHANGED <<finished, flagged, scan, batch, step, after, worker, worked>>
  BY Zenon DEF Link, LinkNext, LinkPrev, Submit, threadVars, doneVars, scanVars
<1>3. /\ poster' \in [Posters -> [at : {"no", "append", "close", "submit"}, task : Tasks \cup {Idle}]]
      /\ posts' \in 0 .. MaxTasks
      /\ poster'[p].at = "no" <=> poster'[p].task = Idle
      /\ \A q \in Posters : q # p => poster'[q] = poster[q]
      /\ p = "loop" /\ poster'[p].at # "no" => poster[p].at # "no" \/ step = "called"
  <2>1. CASE Link(p)
    <3>1. posts + 1 \in Tasks /\ posts + 1 # Idle /\ posts + 1 \in 0 .. MaxTasks
      BY <2>1, TaskFacts DEF Link, MayPost, PlaceInv, TaskTypes, PosterTypes, Tasks
    <3> QED
      BY <1>1, <2>1, <3>1 DEF Link, MayPost
  <2>2. CASE LinkNext(p) \/ LinkPrev(p)
    <3>1. poster[p].task # Idle /\ posts' \in 0 .. MaxTasks
      BY <2>2 DEF LinkNext, LinkPrev, PlaceInv, InStep, TaskTypes, PosterTypes
    <3>2. poster[p].at # "no" /\ \E l \in {"close", "submit"} : poster' = [poster EXCEPT ![p].at = l]
      BY <2>2 DEF LinkNext, LinkPrev
    <3> QED
      BY <1>1, <3>1, <3>2
  <2>3. CASE Submit(p)
    <3>1. posts' \in 0 .. MaxTasks
      BY <2>3 DEF Submit, PlaceInv, TaskTypes, PosterTypes
    <3> QED
      BY <1>1, <2>3, <3>1 DEF Submit
  <2> QED
    BY <2>1, <2>2, <2>3
<1>4. ListTypes'
  <2>1. next \in [Nodes -> Nodes] /\ prev \in [Nodes -> Nodes] /\ Head0 \in Nodes
    BY TaskFacts DEF PlaceInv, TaskTypes, ListTypes
  <2>2. CASE Link(p)
    <3>1. posts + 1 \in Nodes
      BY <2>2, TaskFacts DEF Link, MayPost, PlaceInv, TaskTypes, PosterTypes, Tasks
    <3> QED
      BY <2>1, <2>2, <3>1 DEF Link, ListTypes
  <2>3. CASE LinkNext(p) \/ LinkPrev(p)
    <3>1. poster[p].task \in Nodes
      BY <1>1, <2>3, TaskFacts DEF LinkNext, LinkPrev, PlaceInv, InStep
    <3> QED
      BY <2>1, <2>3, <3>1 DEF LinkNext, LinkPrev, ListTypes
  <2>4. CASE Submit(p)
    BY <2>1, <2>4 DEF Submit, ListTypes, listVars
  <2> QED
    BY <2>2, <2>3, <2>4
<1>5. PlaceTypes'
  <2>1. CASE Submit(p)
    <3>1. poster[p].task \in Tasks /\ wq \in Seq(Tasks)
      BY <1>1, <2>1 DEF Submit, PlaceInv, InStep, TaskTypes, PlaceTypes
    <3>2. wq' \in Seq(Tasks)
      BY <2>1, <3>1 DEF Submit
    <3> QED
      BY <1>2, <3>2, Zenon DEF PlaceInv, TaskTypes, PlaceTypes
  <2>2. CASE wq' = wq
    BY <1>2, <2>2, Zenon DEF PlaceInv, TaskTypes, PlaceTypes
  <2> QED
    BY <2>1, <2>2, Zenon DEF Link, LinkNext, LinkPrev, threadVars
<1>6. StepTypes'
  BY <1>2, Zenon DEF PlaceInv, TaskTypes, StepTypes
<1>7. InStep'
  <2>1. \A q \in Posters : poster'[q].at = "no" <=> poster'[q].task = Idle
    BY <1>3, Zenon DEF PlaceInv, InStep
  <2>2. poster'["loop"].at # "no" => step' = "called"
    <3>1. "loop" \in Posters
      BY DEF Posters
    <3> QED
      BY <1>2, <1>3, <3>1, Zenon DEF PlaceInv, InStep
  <2> QED
    BY <1>2, <2>1, <2>2, Zenon DEF PlaceInv, InStep
<1> QED
  BY <1>3, <1>4, <1>5, <1>6, <1>7, Zenon DEF TaskTypes, PosterTypes

\* Those of a thread of the pool.
LEMMA ThreadStep ==
    ASSUME PlaceInv, NEW w \in Workers, Take(w) \/ Work(w) PROVE TaskTypes' /\ InStep'
<1>1. UNCHANGED <<posts, poster, next, prev, scan, batch, step, after>>
  BY Zenon DEF Take, Work, listVars, scanVars
<1>2. PlaceTypes' /\ flagged' \in BOOLEAN
  <2>0. PlaceTypes /\ flagged \in BOOLEAN
    BY DEF PlaceInv, TaskTypes, StepTypes
  <2>1. CASE Take(w)
    <3>1. Head(wq) \in Tasks /\ Tail(wq) \in Seq(Tasks)
      BY <2>0, <2>1 DEF Take, PlaceTypes
    <3> QED
      BY <1>1, <2>0, <2>1, <3>1 DEF Take, PlaceTypes, doneVars
  <2>2. CASE Work(w)
    <3>1. worker[w] \in Tasks /\ Busy(worker[w])
      BY <2>0, <2>2 DEF Work, PlaceTypes, Busy
    <3>2. worked[worker[w]] = 0
      BY <3>1, Zenon DEF PlaceInv, Homes, Staged
    <3> QED
      BY <1>1, <2>0, <2>2, <3>1, <3>2 DEF Work, PlaceTypes
  <2> QED
    BY <2>1, <2>2
<1> QED
  BY <1>1, <1>2, Zenon DEF PlaceInv, TaskTypes, PosterTypes, ListTypes, StepTypes, InStep

\* Those of the loop.
LEMMA LoopStep ==
    ASSUME PlaceInv, LoopTasks PROVE TaskTypes' /\ InStep'
<1>0. /\ PosterTypes /\ ListTypes /\ PlaceTypes /\ StepTypes /\ InStep
  BY DEF PlaceInv, TaskTypes
<1>1. UNCHANGED <<posts, poster, wq, worker, worked>>
  BY Zenon DEF LoopTasks, VisitWork, TakeDone, VisitStop, Unlink, UnlinkAborts, UnlinkPrev, CallAfter,
               FreeRequest, threadVars
<1>2. batch # <<>> => Head(batch) \in Tasks /\ Head(batch) \in Nodes
  BY <1>0, TaskFacts DEF PlaceTypes
<1>3. ListTypes'
  <2>1. CASE Unlink \/ UnlinkPrev
    <3>1. batch # <<>>
      BY <2>1 DEF Unlink, UnlinkPrev, InBatch
    <3> QED
      BY <1>0, <1>2, <2>1, <3>1 DEF Unlink, UnlinkPrev, ListTypes
  <2>2. CASE UNCHANGED listVars
    BY <1>0, <2>2 DEF listVars, ListTypes
  <2> QED
    BY <2>1, <2>2, Zenon DEF LoopTasks, VisitWork, TakeDone, VisitStop, UnlinkAborts, CallAfter, FreeRequest
<1>4. PlaceTypes'
  <2>1. CASE TakeDone
    BY <1>0, <1>1, <2>1 DEF TakeDone, PlaceTypes
  <2>2. CASE CallAfter
    <3>1. batch # <<>> /\ ~ InBatch("called") /\ UNCHANGED <<batch, finished>>
      BY <2>2 DEF CallAfter, InBatch, doneVars
    <3>2. after[Head(batch)] # 1
      <4>1. Has(batch, Head(batch))
        BY <1>0, <3>1, TailHas, Zenon DEF PlaceTypes
      <4> QED
        BY <1>2, <3>1, <4>1, Zenon DEF PlaceInv, Homes, Staged, Batched
    <3> QED
      BY <1>0, <1>1, <1>2, <2>2, <3>1, <3>2 DEF CallAfter, PlaceTypes
  <2>3. CASE FreeRequest
    BY <1>0, <1>1, <2>3 DEF FreeRequest, InBatch, PlaceTypes, doneVars
  <2>4. CASE UNCHANGED <<finished, batch, after>>
    BY <1>0, <1>1, <2>4, Zenon DEF PlaceTypes
  <2> QED
    BY <2>1, <2>2, <2>3, <2>4, Zenon DEF LoopTasks, VisitWork, VisitStop, Unlink, UnlinkAborts,
                                                 UnlinkPrev, doneVars
<1>5. StepTypes'
  BY <1>0 DEF LoopTasks, VisitWork, TakeDone, VisitStop, Unlink, UnlinkAborts, UnlinkPrev, CallAfter, FreeRequest,
             StepTypes, doneVars
<1>6. InStep'
  BY <1>0, <1>1 DEF LoopTasks, VisitWork, TakeDone, VisitStop, Unlink, UnlinkAborts, UnlinkPrev, CallAfter,
                    FreeRequest, InBatch, InStep
<1> QED
  BY <1>0, <1>1, <1>3, <1>4, <1>5, <1>6, Zenon DEF PosterTypes, TaskTypes

LEMMA PlaceStep == PlaceInv /\ [TaskNext]_allVars => PlaceInv'
<1> SUFFICES ASSUME PlaceInv, [TaskNext]_allVars PROVE TaskTypes' /\ InStep'
  BY HomesStep, Zenon DEF PlaceInv
<1>1. CASE LifeSteps
  <2>1. UNCHANGED taskVars
    BY <1>1, Zenon DEF LifeSteps, LifeOwner, LifeLoop, LifeSend, allVars
  <2> QED
    BY <2>1, Zenon DEF PlaceInv, TaskTypes, PosterTypes, ListTypes, PlaceTypes, StepTypes, InStep,
                       taskVars, listVars, threadVars, doneVars, scanVars
<1>2. ASSUME NEW p \in Posters, Link(p) \/ Posting(p) PROVE TaskTypes' /\ InStep'
  BY <1>2, PosterStep, Zenon
<1>3. ASSUME NEW w \in Workers, Take(w) \/ Work(w) PROVE TaskTypes' /\ InStep'
  BY <1>3, ThreadStep, Zenon
<1>4. CASE LoopTasks
  BY <1>4, LoopStep, Zenon
<1> QED
  BY <1>1, <1>2, <1>3, <1>4, Zenon DEF TaskNext, LifeSteps

LEMMA PlaceInit == TaskInit => PlaceInv
<1> SUFFICES ASSUME TaskInit PROVE PlaceInv
  OBVIOUS
<1> USE TaskFacts
<1>1. TaskTypes
  <2>1. PosterTypes
    BY DEF TaskInit, PosterTypes
  <2>2. ListTypes
    BY DEF TaskInit, ListTypes
  <2>3. PlaceTypes
    BY DEF TaskInit, PlaceTypes
  <2>4. StepTypes
    BY DEF TaskInit, StepTypes
  <2> QED
    BY <2>1, <2>2, <2>3, <2>4 DEF TaskTypes
<1>2. InStep
  BY DEF TaskInit, InStep
<1>3. \A t \in Tasks : ~ Somewhere(t) /\ worked[t] = 0 /\ after[t] = 0
  <2> SUFFICES ASSUME NEW t \in Tasks PROVE ~ Somewhere(t) /\ worked[t] = 0 /\ after[t] = 0
    OBVIOUS
  <2>1. t # Idle
    OBVIOUS
  <2>2. ~ Posted(t) /\ ~ Busy(t) /\ worked[t] = 0 /\ after[t] = 0
    BY <2>1 DEF TaskInit, Posted, Busy
  <2>3. ~ Waits(t) /\ ~ Finished(t) /\ ~ Batched(t)
    BY DEF TaskInit, Waits, Finished, Batched, Has
  <2> QED
    BY <2>2, <2>3, Zenon DEF Somewhere
<1>4. Singly
  BY DEF TaskInit, Singly, Once
<1>5. Apart
  BY <1>3, Zenon DEF Apart, Somewhere
<1>6. Staged
  <2>1. \A t \in Tasks : ~ (t <= posts)
    BY DEF TaskInit, Tasks
  <2> QED
    BY <1>3, <2>1, Zenon DEF Staged, Somewhere
<1> QED
  BY <1>1, <1>2, <1>4, <1>5, <1>6, Zenon DEF PlaceInv, Homes

\* For any number of threads and tasks.
LEMMA PlacesHold == TaskSpec => []PlaceInv
  BY PlaceInit, PlaceStep, PTL DEF TaskSpec

\* TaskTypeOK, for any number of threads and tasks: no task is worked on twice or
\* called back twice (CTask.cpp:16-41).
THEOREM ManagerTypes == TaskSpec => []TaskTypeOK
<1>1. TaskSpec => []TypeOK
  BY ManagerIsLoop, LifecycleTypes, PTL
<1>2. TypeOK /\ PlaceInv => TaskTypeOK
  BY TaskTypesAgree, Zenon DEF PlaceInv
<1> QED
  BY <1>1, <1>2, PlacesHold, PTL

-----------------------------------------------------------------------------
(* One place.                                                              *)

\* What has at most one element is of size 0 or 1.
LEMMA SizeOne ==
    ASSUME NEW S, \A i, j \in S : i = j
    PROVE  Cardinality(S) = IF S = {} THEN 0 ELSE 1
<1>1. CASE S = {}
  BY <1>1, FS_EmptySet
<1>2. CASE S # {}
  <2>1. PICK x \in S : TRUE
    BY <1>2
  <2>2. S = {x}
    BY <2>1
  <2> QED
    BY <1>2, <2>2, FS_Singleton
<1> QED
  BY <1>1, <1>2

LEMMA InOnce == ASSUME NEW s, NEW t, Once(s) PROVE In(t, s) = IF Has(s, t) THEN 1 ELSE 0
<1> DEFINE S == {i \in DOMAIN s : s[i] = t}
<1>1. \A i, j \in S : i = j
  BY DEF Once
<1>2. S = {} <=> ~ Has(s, t)
  BY DEF Has
<1>3. In(t, s) = Cardinality(S)
  BY DEF In
<1> HIDE DEF S
<1>4. Cardinality(S) = IF S = {} THEN 0 ELSE 1
  BY <1>1, SizeOne
<1> QED
  BY <1>2, <1>3, <1>4

LEMMA HeldAre ==
    ASSUME PlaceInv, NEW t \in Tasks
    PROVE  Held(t) = (IF Posted(t) THEN 1 ELSE 0) + (IF Waits(t) THEN 1 ELSE 0)
                     + (IF Busy(t) THEN 1 ELSE 0) + (IF Finished(t) THEN 1 ELSE 0)
                     + (IF Batched(t) THEN 1 ELSE 0)
<1> DEFINE P == {p \in Posters : poster[p].task = t}
<1> DEFINE W == {w \in Workers : worker[w] = t}
<1>1. t # Idle
  BY TaskFacts
<1>2. Cardinality(P) = IF Posted(t) THEN 1 ELSE 0
  <2>1. \A i, j \in P : i = j
    BY <1>1, Zenon DEF PlaceInv, Homes, Singly
  <2>2. P = {} <=> ~ Posted(t)
    BY DEF Posted
  <2> HIDE DEF P
  <2>3. Cardinality(P) = IF P = {} THEN 0 ELSE 1
    BY <2>1, SizeOne
  <2> QED
    BY <2>2, <2>3
<1>3. Cardinality(W) = IF Busy(t) THEN 1 ELSE 0
  <2>1. \A i, j \in W : i = j
    BY <1>1, Zenon DEF PlaceInv, Homes, Singly
  <2>2. W = {} <=> ~ Busy(t)
    BY DEF Busy
  <2> HIDE DEF W
  <2>3. Cardinality(W) = IF W = {} THEN 0 ELSE 1
    BY <2>1, SizeOne
  <2> QED
    BY <2>2, <2>3
<1>4. /\ In(t, wq) = IF Waits(t) THEN 1 ELSE 0
      /\ In(t, finished) = IF Finished(t) THEN 1 ELSE 0
      /\ In(t, batch) = IF Batched(t) THEN 1 ELSE 0
  BY InOnce, Zenon DEF PlaceInv, Homes, Singly, Waits, Finished, Batched
<1>5. Held(t) = Cardinality(P) + In(t, wq) + Cardinality(W) + In(t, finished) + In(t, batch)
  BY Zenon DEF Held
<1> HIDE DEF P, W
<1>6. Held(t) = (IF Posted(t) THEN 1 ELSE 0) + (IF Waits(t) THEN 1 ELSE 0)
                     + (IF Busy(t) THEN 1 ELSE 0) + (IF Finished(t) THEN 1 ELSE 0)
                     + (IF Batched(t) THEN 1 ELSE 0)
  BY <1>2, <1>3, <1>4, <1>5
<1> QED
  BY <1>6

\* A posted task is in one place until its request is freed, and in none before it
\* is posted, for any number of threads and tasks (CTask.cpp:30-41, 95-103).
THEOREM TaskInOnePlace == TaskSpec => []OnePlace
<1>1. ASSUME PlaceInv PROVE OnePlace
  <2> SUFFICES ASSUME NEW t \in Tasks
               PROVE  Held(t) + (IF after[t] = 1 /\ In(t, batch) = 0 THEN 1 ELSE 0)
                      = (IF t <= posts THEN 1 ELSE 0)
    BY Zenon DEF OnePlace
  <2>1. In(t, batch) = IF Batched(t) THEN 1 ELSE 0
    BY <1>1, InOnce, Zenon DEF PlaceInv, Homes, Singly, Batched
  <2>2. /\ Posted(t) => ~ Waits(t) /\ ~ Busy(t) /\ ~ Finished(t) /\ ~ Batched(t)
        /\ Waits(t) => ~ Busy(t) /\ ~ Finished(t) /\ ~ Batched(t)
        /\ Busy(t) => ~ Finished(t) /\ ~ Batched(t)
        /\ Finished(t) => ~ Batched(t)
    BY <1>1, Zenon DEF PlaceInv, Homes, Apart
  <2>3. /\ Posted(t) \/ Waits(t) \/ Busy(t) \/ Finished(t) => after[t] = 0
        /\ t > posts => ~ Somewhere(t) /\ after[t] = 0
        /\ t <= posts => Somewhere(t) \/ after[t] = 1
    BY <1>1, Zenon DEF PlaceInv, Homes, Staged
  <2>4. posts \in Nat /\ t \in Nat
    BY <1>1, TaskFacts DEF PlaceInv, TaskTypes, PosterTypes
  <2>5. CASE t > posts
    BY <1>1, <2>1, <2>3, <2>4, <2>5, HeldAre DEF Somewhere
  <2>6. CASE ~ (t > posts)
    <3>1. t <= posts /\ (Somewhere(t) \/ after[t] = 1)
      BY <2>3, <2>4, <2>6
    <3>2. Held(t) = (IF Posted(t) THEN 1 ELSE 0) + (IF Waits(t) THEN 1 ELSE 0)
                     + (IF Busy(t) THEN 1 ELSE 0) + (IF Finished(t) THEN 1 ELSE 0)
                     + (IF Batched(t) THEN 1 ELSE 0)
      BY <1>1, HeldAre, Zenon
    <3> QED
      BY <2>1, <2>2, <2>3, <3>1, <3>2 DEF Somewhere
  <2> QED
    BY <2>5, <2>6
<1> QED
  BY <1>1, PlacesHold, PTL

-----------------------------------------------------------------------------
(* The list: a ring of nodes, and its states between two writes.  They are *)
(* stated of any successor and predecessor functions nx and pv and of any  *)
(* set S of nodes with the head z.                                         *)

Ring(nx, pv, S) ==
    \A n \in S : /\ nx[n] \in S /\ pv[n] \in S
                 /\ nx[pv[n]] = n /\ pv[nx[n]] = n

\* The node t, not in the ring yet, knows its neighbours,
Appending(nx, pv, S, z, t) == Ring(nx, pv, S) /\ nx[t] = z /\ pv[t] = pv[z]

\* and its predecessor knows it, the head does not.
Closing(nx, pv, S, z, t) ==
    /\ nx[t] = z /\ pv[t] = pv[z] /\ pv[z] \in S /\ nx[pv[z]] = t
    /\ \A n \in S \ {z} : pv[n] \in S /\ nx[pv[n]] = n
    /\ \A n \in S \ {pv[z]} : nx[n] \in S /\ pv[nx[n]] = n

\* The predecessor of the node h, not in S, passes it over, its successor does not.
\* A node that only points to itself would have no neighbours to tell.
Bypassed(nx, pv, S, h) ==
    \/ pv[h] = h /\ nx[h] = h /\ Ring(nx, pv, S)
    \/ /\ pv[h] \in S /\ nx[h] \in S /\ nx[pv[h]] = nx[h] /\ pv[nx[h]] = h
       /\ \A n \in S \ {nx[h]} : pv[n] \in S /\ nx[pv[n]] = n
       /\ \A n \in S \ {pv[h]} : nx[n] \in S /\ pv[nx[n]] = n

LEMMA RingLink ==
    ASSUME NEW N, NEW nx \in [N -> N], NEW pv \in [N -> N], NEW S \in SUBSET N,
           NEW z \in S, NEW t \in N, t \notin S, Ring(nx, pv, S)
    PROVE  Appending([nx EXCEPT ![t] = z], [pv EXCEPT ![t] = pv[z]], S, z, t)
BY DEF Ring, Appending

LEMMA RingLinkNext ==
    ASSUME NEW N, NEW nx \in [N -> N], NEW pv \in [N -> N], NEW S \in SUBSET N,
           NEW z \in S, NEW t \in N, t \notin S, Appending(nx, pv, S, z, t)
    PROVE  Closing([nx EXCEPT ![pv[t]] = t], pv, S, z, t)
<1> DEFINE l == pv[z]
<1> DEFINE ny == [nx EXCEPT ![l] = t]
<1>1. pv[t] = l /\ nx[t] = z /\ l \in S /\ l \in N /\ nx[l] = z /\ t # l
  BY DEF Appending, Ring
<1>2. ny[l] = t /\ \A n \in N : n # l => ny[n] = nx[n]
  BY <1>1
<1>3. \A n \in S : n \in N /\ nx[n] \in S /\ pv[n] \in S /\ nx[pv[n]] = n /\ pv[nx[n]] = n
  BY DEF Appending, Ring
<1>4. l = pv[z]
  OBVIOUS
<1>5. ny = [nx EXCEPT ![pv[t]] = t]
  BY <1>1
<1> HIDE DEF l, ny
<1>6. \A n \in S \ {z} : pv[n] \in S /\ ny[pv[n]] = n
  BY <1>1, <1>2, <1>3
<1>7. \A n \in S \ {pv[z]} : ny[n] \in S /\ pv[ny[n]] = n
  BY <1>2, <1>3, <1>4
<1>8. ny[t] = z
  BY <1>1, <1>2
<1>9. Closing(ny, pv, S, z, t)
  BY <1>1, <1>2, <1>4, <1>6, <1>7, <1>8 DEF Closing
<1> QED
  BY <1>5, <1>9

LEMMA RingLinkPrev ==
    ASSUME NEW N, NEW nx \in [N -> N], NEW pv \in [N -> N], NEW S \in SUBSET N,
           NEW z \in S, NEW t \in N, t \notin S, Closing(nx, pv, S, z, t)
    PROVE  Ring(nx, [pv EXCEPT ![z] = t], S \cup {t})
<1> DEFINE l == pv[z]
<1> DEFINE pw == [pv EXCEPT ![z] = t]
<1>1. /\ nx[t] = z /\ pv[t] = l /\ l \in S /\ nx[l] = t /\ z # t /\ pv[z] = l
      /\ \A n \in S \ {z} : pv[n] \in S /\ nx[pv[n]] = n
      /\ \A n \in S \ {l} : nx[n] \in S /\ pv[nx[n]] = n
  BY DEF Closing
<1>2. pw[z] = t /\ \A n \in N : n # z => pw[n] = pv[n]
  OBVIOUS
<1> HIDE DEF l, pw
<1>3. ASSUME NEW n \in S \cup {t} PROVE nx[n] \in S \cup {t} /\ pw[nx[n]] = n
  <2>1. CASE n = t
    BY <1>1, <1>2, <2>1
  <2>2. CASE n = l
    BY <1>1, <1>2, <2>2
  <2>3. CASE n # t /\ n # l
    <3>1. nx[n] \in S /\ pv[nx[n]] = n /\ nx[n] # z
      BY <1>1, <1>3, <2>3
    <3> QED
      BY <1>2, <3>1
  <2> QED
    BY <2>1, <2>2, <2>3
<1>4. ASSUME NEW n \in S \cup {t} PROVE pw[n] \in S \cup {t} /\ nx[pw[n]] = n
  BY <1>1, <1>2, <1>4
<1> QED
  BY <1>3, <1>4 DEF Ring, pw

LEMMA RingUnlink ==
    ASSUME NEW N, NEW nx \in [N -> N], NEW pv \in [N -> N], NEW S \in SUBSET N,
           NEW h \in S, Ring(nx, pv, S)
    PROVE  Bypassed([nx EXCEPT ![pv[h]] = nx[h]], pv, S \ {h}, h)
<1> DEFINE l == pv[h]
<1> DEFINE r == nx[h]
<1> DEFINE ny == [nx EXCEPT ![l] = r]
<1>1. \A n \in S : n \in N /\ nx[n] \in S /\ pv[n] \in S /\ nx[pv[n]] = n /\ pv[nx[n]] = n
  BY DEF Ring
<1>2. l = pv[h] /\ r = nx[h] /\ l \in S /\ r \in S /\ l \in N /\ nx[l] = h /\ pv[r] = h /\ h \in N
  BY <1>1
<1>3. ny[l] = r /\ \A n \in N : n # l => ny[n] = nx[n]
  BY <1>2
<1> HIDE DEF l, r, ny
<1>4. CASE l = h
  <2>1. r = h /\ ny[h] = h
    BY <1>2, <1>3, <1>4
  <2>2. Ring(ny, pv, S \ {h})
    BY <1>1, <1>2, <1>3, <1>4, <2>1 DEF Ring
  <2> QED
    BY <1>2, <1>4, <2>1, <2>2 DEF Bypassed, ny, l, r
<1>5. CASE l # h
  <2>1. r # h /\ ny[h] = r
    BY <1>2, <1>3, <1>5
  <2>2. \A n \in (S \ {h}) \ {r} : pv[n] \in S \ {h} /\ ny[pv[n]] = n
    BY <1>1, <1>2, <1>3
  <2>3. \A n \in (S \ {h}) \ {l} : ny[n] \in S \ {h} /\ pv[ny[n]] = n
    BY <1>1, <1>2, <1>3
  <2>4. Bypassed(ny, pv, S \ {h}, h)
    BY <1>2, <1>3, <1>5, <2>1, <2>2, <2>3 DEF Bypassed
  <2> QED
    BY <2>4 DEF ny, l, r
<1> QED
  BY <1>4, <1>5

LEMMA RingUnlinkPrev ==
    ASSUME NEW N, NEW nx \in [N -> N], NEW pv \in [N -> N], NEW S \in SUBSET N,
           NEW h \in N, h \notin S, Bypassed(nx, pv, S, h)
    PROVE  Ring(nx, [pv EXCEPT ![nx[h]] = pv[h]], S)
<1> DEFINE l == pv[h]
<1> DEFINE r == nx[h]
<1> DEFINE pw == [pv EXCEPT ![r] = l]
<1>1. l = pv[h] /\ r = nx[h] /\ r \in N
  OBVIOUS
<1>2. pw[r] = l /\ \A n \in N : n # r => pw[n] = pv[n]
  BY <1>1
<1> HIDE DEF l, r, pw
<1>3. CASE l = h /\ r = h /\ Ring(nx, pv, S)
  BY <1>1, <1>2, <1>3 DEF Ring, pw
<1>4. CASE /\ l \in S /\ r \in S /\ nx[l] = r /\ pv[r] = h
           /\ \A n \in S \ {r} : pv[n] \in S /\ nx[pv[n]] = n
           /\ \A n \in S \ {l} : nx[n] \in S /\ pv[nx[n]] = n
  <2>1. ASSUME NEW n \in S PROVE nx[n] \in S /\ pw[nx[n]] = n
    <3>1. CASE n = l
      BY <1>2, <1>4, <3>1
    <3>2. CASE n # l
      <4>1. nx[n] \in S /\ pv[nx[n]] = n /\ nx[n] # r
        BY <1>4, <3>2
      <4> QED
        BY <1>2, <4>1
    <3> QED
      BY <3>1, <3>2
  <2>2. ASSUME NEW n \in S PROVE pw[n] \in S /\ nx[pw[n]] = n
    BY <1>2, <1>4
  <2> QED
    BY <1>1, <2>1, <2>2 DEF Ring, pw
<1> QED
  BY <1>1, <1>3, <1>4 DEF Bypassed

\* A ring in one piece: no set of nodes without the head is closed under nx.
Whole(nx, S, z) == \A C \in SUBSET (S \ {z}) : (\A n \in C : nx[n] \in C) => C = {}

LEMMA WholeLink ==
    ASSUME NEW N, NEW nx \in [N -> N], NEW S \in SUBSET N, NEW z \in S,
           NEW t \in N, t \notin S, NEW l \in S, nx[t] = z, Whole(nx, S, z)
    PROVE  Whole([nx EXCEPT ![l] = t], S \cup {t}, z)
<1> DEFINE ny == [nx EXCEPT ![l] = t]
<1> SUFFICES ASSUME NEW C \in SUBSET ((S \cup {t}) \ {z}), \A n \in C : ny[n] \in C
             PROVE  C = {}
  BY DEF Whole
<1>1. t # l /\ t # z /\ l \in N
  OBVIOUS
<1>2. ny[t] = z /\ ny[l] = t /\ \A n \in N : n # l => ny[n] = nx[n]
  BY <1>1
<1> HIDE DEF ny
<1>3. t \notin C /\ l \notin C
  BY <1>2
<1>4. C \in SUBSET (S \ {z}) /\ \A n \in C : n \in N /\ n # l
  BY <1>3
<1>5. \A n \in C : nx[n] \in C
  BY <1>2, <1>4
<1> QED
  BY <1>4, <1>5 DEF Whole

LEMMA WholeUnlink ==
    ASSUME NEW N, NEW nx \in [N -> N], NEW S \in SUBSET N, NEW z \in S,
           NEW h \in S, h # z, NEW l \in N, nx[l] = h, Whole(nx, S, z)
    PROVE  Whole([nx EXCEPT ![l] = nx[h]], S \ {h}, z)
<1> DEFINE r == nx[h]
<1> DEFINE ny == [nx EXCEPT ![l] = r]
<1>0. ny = [nx EXCEPT ![l] = nx[h]] /\ r = nx[h]
  OBVIOUS
<1> SUFFICES ASSUME NEW C \in SUBSET ((S \ {h}) \ {z}), \A n \in C : ny[n] \in C
             PROVE  C = {}
  BY <1>0 DEF Whole
<1>1. ny[l] = r /\ \A n \in N : n # l => ny[n] = nx[n]
  OBVIOUS
<1> HIDE DEF ny, r
<1>2. C \in SUBSET (S \ {z}) /\ \A n \in C : n \in N
  OBVIOUS
<1>3. CASE l \notin C
  <2>1. \A n \in C : nx[n] \in C
    BY <1>1, <1>2, <1>3
  <2> QED
    BY <1>2, <2>1 DEF Whole
<1>4. CASE l \in C
  <2> DEFINE D == C \cup {h}
  <2>1. D \in SUBSET (S \ {z})
    BY <1>2
  <2>2. r \in C
    BY <1>1, <1>4
  <2>3. \A n \in D : nx[n] \in D
    BY <1>0, <1>1, <1>2, <2>2
  <2>4. D = {}
    BY <2>1, <2>3 DEF Whole
  <2> QED
    BY <2>4
<1> QED
  BY <1>3, <1>4

LEMMA WholeKept ==
    ASSUME NEW nx, NEW ny, NEW S, NEW z, \A n \in S : ny[n] = nx[n], Whole(nx, S, z)
    PROVE  Whole(ny, S, z)
BY DEF Whole

\* A node of a ring in one piece is not the only one, and the head has a successor.
LEMMA RingNotEmpty ==
    ASSUME NEW nx, NEW pv, NEW S, NEW z \in S, NEW h \in S, h # z,
           Ring(nx, pv, S), Whole(nx, S, z)
    PROVE  nx[z] # z
<1> SUFFICES ASSUME nx[z] = z PROVE FALSE
  OBVIOUS
<1> DEFINE C == S \ {z}
<1>1. C \in SUBSET (S \ {z}) /\ C # {}
  OBVIOUS
<1>2. \A n \in C : nx[n] \in C
  BY DEF Ring
<1> QED
  BY <1>1, <1>2 DEF Whole

LEMMA ClosingNotEmpty ==
    ASSUME NEW nx, NEW pv, NEW S, NEW z \in S, NEW t, t \notin S, Closing(nx, pv, S, z, t)
    PROVE  nx[z] # z
BY DEF Closing

-----------------------------------------------------------------------------
(* active_reqs, as long as no two threads are in it at once.               *)

Ready == Linked \cup {Head0}

Listed ==
    /\ Quiet => Ring(next, prev, Ready)
    /\ \A p \in Posters : LET t == poster[p].task IN
           /\ poster[p].at = "append" => Appending(next, prev, Ready \ {t}, Head0, t)
           /\ poster[p].at = "close" => Closing(next, prev, Ready \ {t}, Head0, t)
    /\ step = "unlink prev" => Bypassed(next, prev, Ready \ {Head(batch)}, Head(batch))

\* The nodes whose successors are set.
Joined ==
    Ready \ ({poster[p].task : p \in {q \in Posters : poster[q].at = "append"}}
             \cup (IF step = "unlink prev" THEN {Head(batch)} ELSE {}))

ListInv ==
    PlaceInv /\ Listed /\ Whole(next, Joined, Head0) /\ step # "aborted"

\* The head of the batch is in the batch.
LEMMA HeadBatched ==
    ASSUME PlaceInv, batch # <<>> PROVE Head(batch) \in Tasks /\ Batched(Head(batch))
  BY TailHas, Zenon DEF PlaceInv, TaskTypes, PlaceTypes, Batched

LEMMA LinkedFacts ==
    ASSUME PlaceInv
    PROVE  /\ Linked \subseteq Tasks /\ Ready \subseteq Nodes
           /\ \A t \in Tasks : Posted(t) => t \in Linked
           /\ batch # <<>> /\ step \in {"unlink", "unlink prev"} => Head(batch) \in Linked
<1>1. posts \in Nat /\ posts <= MaxTasks /\ \A t \in Tasks : t \in Nat /\ t >= 1
  BY TaskFacts DEF PlaceInv, TaskTypes, PosterTypes, Tasks
<1>2. Linked \subseteq Tasks
  BY <1>1, TaskFacts DEF Linked, Tasks
<1>3. \A t \in Tasks : Somewhere(t) => t \in 1 .. posts
  <2>1. \A t \in Tasks : t > posts => ~ Somewhere(t)
    BY Zenon DEF PlaceInv, Homes, Staged
  <2> QED
    BY <1>1, <2>1
<1>4. ASSUME NEW t \in Tasks, Posted(t) PROVE t \in Linked
  <2>1. t \in 1 .. posts
    BY <1>3, <1>4, Zenon DEF Somewhere
  <2>2. after[t] = 0 /\ ~ Batched(t)
    BY <1>4, Zenon DEF PlaceInv, Homes, Apart, Staged
  <2>3. batch # <<>> => Head(batch) # t
    BY <2>2, HeadBatched, Zenon
  <2> QED
    BY <2>1, <2>2, <2>3, Zenon DEF Linked, InBatch
<1>5. ASSUME batch # <<>>, step \in {"unlink", "unlink prev"} PROVE Head(batch) \in Linked
  <2>1. Head(batch) \in Tasks /\ Batched(Head(batch))
    BY <1>5, HeadBatched
  <2>2. Head(batch) \in 1 .. posts
    BY <1>3, <2>1, Zenon DEF Somewhere
  <2>3. ~ InBatch("called") /\ ~ InBatch("call")
    BY <1>5 DEF InBatch
  <2>4. after[Head(batch)] # 1
    BY <2>1, <2>3, Zenon DEF PlaceInv, Homes, Staged
  <2>5. after[Head(batch)] = 0
    BY <2>1, <2>4 DEF PlaceInv, TaskTypes, PlaceTypes
  <2> QED
    BY <2>2, <2>3, <2>5, Zenon DEF Linked
<1> QED
  BY <1>2, <1>4, <1>5, TaskFacts DEF Ready

\* Who writes to the list, writes alone.
LEMMA Alone ==
    ASSUME PlaceInv, ~ Overlap
    PROVE  /\ \A p, q \in Posters : Linking(p) /\ Linking(q) => p = q
           /\ \A p \in Posters : Linking(p) => step # "unlink prev"
           /\ poster["loop"].at # "no" => step = "called"
BY TaskFacts DEF PlaceInv, InStep, Overlap, Linking

\* A step that neither writes to the list nor changes who is in it.
LEMMA ListKept ==
    ASSUME Listed, UNCHANGED <<next, prev>>, Linked' = Linked, Quiet' => Quiet,
           \A p \in Posters : \/ poster'[p] = poster[p]
                              \/ ~ Linking(p)',
           step' = "unlink prev" => step = "unlink prev" /\ batch' = batch
    PROVE  Listed'
<1>1. Ready' = Ready
  BY DEF Ready
<1>2. Quiet' => Ring(next, prev, Ready)'
  BY <1>1, Zenon DEF Listed, Ring
<1>3. ASSUME NEW p \in Posters
      PROVE  LET t == poster'[p].task IN
             /\ poster'[p].at = "append" => Appending(next, prev, Ready \ {t}, Head0, t)
             /\ poster'[p].at = "close" => Closing(next, prev, Ready \ {t}, Head0, t)
  <2>1. CASE poster'[p] = poster[p]
    BY <2>1, Zenon DEF Listed
  <2>2. CASE ~ Linking(p)'
    BY <2>2 DEF Linking
  <2> QED
    BY <2>1, <2>2
<1>4. step' = "unlink prev" => Bypassed(next', prev', Ready' \ {Head(batch')}, Head(batch'))
  BY <1>1, Zenon DEF Listed
<1> QED
  BY <1>1, <1>2, <1>3, <1>4, Zenon DEF Listed

\* The tasks in the list stay the same unless one is linked or unlinked.
LEMMA SameLinked ==
    ASSUME PlaceInv, UNCHANGED <<posts, after>>, InBatch("call")' <=> InBatch("call"),
           InBatch("call") => batch' = batch
    PROVE  Linked' = Linked
  BY Zenon DEF Linked

LEMMA LinkListed ==
    ASSUME ListInv, ~ Overlap, ~ Overlap', PlaceInv', NEW p \in Posters, Link(p)
    PROVE  Listed' /\ Whole(next', Joined', Head0)
<1> DEFINE t == posts + 1
<1>1. /\ poster[p].at = "no" /\ posts \in Nat /\ posts < MaxTasks
      /\ UNCHANGED <<batch, step, after>>
  BY DEF Link, MayPost, scanVars, ListInv, PlaceInv, TaskTypes, PosterTypes
<1>2. t \in Tasks /\ t > posts /\ t \in Nodes /\ t # Head0
  BY <1>1, TaskFacts DEF Tasks
<1>3. /\ poster' = [poster EXCEPT ![p] = [at |-> "append", task |-> t]]
      /\ next' = [next EXCEPT ![t] = Head0] /\ prev' = [prev EXCEPT ![t] = prev[Head0]]
      /\ posts' = t
  BY DEF Link
<1>4. next \in [Nodes -> Nodes] /\ prev \in [Nodes -> Nodes] /\ Head0 \in Ready
  BY DEF ListInv, PlaceInv, TaskTypes, ListTypes, Ready
<1>5. /\ \A q \in Posters : ~ Linking(q) /\ (q # p => poster'[q] = poster[q])
      /\ step # "unlink prev"
  <2>1. /\ poster'[p].at = "append"
        /\ \A q \in Posters : q # p => poster'[q] = poster[q]
    BY <1>3 DEF ListInv, PlaceInv, TaskTypes, PosterTypes
  <2>2. Linking(p)' /\ ~ Linking(p)
    BY <1>1, <2>1 DEF Linking
  <2>3. \A q \in Posters : q # p => ~ Linking(q)'
    BY <2>2, TaskFacts DEF PlaceInv, InStep, Overlap, Linking
  <2>4. step' # "unlink prev"
    BY <2>2, TaskFacts DEF PlaceInv, InStep, Overlap, Linking
  <2> QED
    BY <1>1, <2>1, <2>2, <2>3, <2>4 DEF Linking
<1>6. Ring(next, prev, Ready)
  <2>1. Quiet
    BY <1>5, Zenon DEF Quiet
  <2> QED
    BY <2>1, Zenon DEF ListInv, Listed
<1>7. t \notin Ready /\ Ready' \ {t} = Ready
  <2>1. t \notin Linked
    BY <1>1, <1>2 DEF Linked
  <2>2. after[t] = 0 /\ ~ Batched(t)
    BY <1>2, Zenon DEF ListInv, PlaceInv, Homes, Staged, Somewhere
  <2>3. InBatch("call") => Head(batch) # t
    BY <2>2, HeadBatched, Zenon DEF ListInv, InBatch
  <2>4. Linked' = Linked \cup {t}
    BY <1>1, <1>3, <2>2, <2>3 DEF Linked, InBatch
  <2> QED
    BY <1>2, <2>1, <2>4 DEF Ready
<1>8. Ready \subseteq Nodes
  BY LinkedFacts DEF ListInv
<1>9. poster'[p] = [at |-> "append", task |-> t] /\ \A q \in Posters : q # p => ~ Linking(q)'
  BY <1>3, <1>5 DEF ListInv, PlaceInv, TaskTypes, PosterTypes, Linking
<1> HIDE DEF t
<1>10. Appending(next', prev', Ready' \ {t}, Head0, t)
  BY <1>2, <1>3, <1>4, <1>6, <1>7, <1>8, RingLink
<1>11. ~ Quiet' /\ step' # "unlink prev"
  <2>1. Linking(p)' /\ step' = step
    BY <1>1, <1>9 DEF Linking
  <2> QED
    BY <1>5, <2>1, Zenon DEF Quiet
<1>12. ASSUME NEW q \in Posters
       PROVE  LET u == poster'[q].task IN
              /\ poster'[q].at = "append" => Appending(next', prev', Ready' \ {u}, Head0, u)
              /\ poster'[q].at = "close" => Closing(next', prev', Ready' \ {u}, Head0, u)
  <2>1. CASE q = p
    BY <1>9, <1>10, <2>1
  <2>2. CASE q # p
    BY <1>9, <2>2 DEF Linking
  <2> QED
    BY <2>1, <2>2
<1>13. Whole(next', Joined', Head0)
  <2>1. Joined = Ready
    BY <1>5 DEF Joined, Linking
  <2>2. {poster'[q].task : q \in {r \in Posters : poster'[r].at = "append"}} = {t}
    BY <1>9 DEF Linking
  <2>3. Joined' = Ready
    BY <1>7, <1>11, <2>2 DEF Joined
  <2>4. \A n \in Ready : next'[n] = next[n]
    BY <1>3, <1>4, <1>7, <1>8
  <2> QED
    BY <2>1, <2>3, <2>4, WholeKept DEF ListInv
<1> QED
  BY <1>11, <1>12, <1>13, Zenon DEF Listed

LEMMA PostingListed ==
    ASSUME ListInv, ~ Overlap, NEW p \in Posters, LinkNext(p) \/ LinkPrev(p)
    PROVE  Listed' /\ Whole(next', Joined', Head0)
<1> DEFINE t == poster[p].task
<1>1. poster \in [Posters -> [at : {"no", "append", "close", "submit"}, task : Tasks \cup {Idle}]]
  BY DEF ListInv, PlaceInv, TaskTypes, PosterTypes
<1>2. t \in Tasks /\ t \in Nodes /\ t # Head0 /\ poster[p].at # "no" /\ Posted(t)
  BY <1>1, TaskFacts DEF LinkNext, LinkPrev, ListInv, PlaceInv, InStep, Posted
<1>3. next \in [Nodes -> Nodes] /\ prev \in [Nodes -> Nodes]
  BY DEF ListInv, PlaceInv, TaskTypes, ListTypes
<1>4. /\ \A q \in Posters : q # p => ~ Linking(q)
      /\ step # "unlink prev" /\ step' = step
  <2>1. Linking(p) /\ step' = step
    BY Zenon DEF LinkNext, LinkPrev, scanVars, Linking
  <2> QED
    BY <2>1, Alone DEF ListInv
<1>5. Ready' = Ready
  <2>1. UNCHANGED <<posts, after, batch, step>>
    BY Zenon DEF LinkNext, LinkPrev, scanVars
  <2>2. Linked' = Linked
    BY <2>1, Zenon DEF Linked, InBatch
  <2> QED
    BY <2>2, Zenon DEF Ready
<1>6. /\ Ready \ {t} \subseteq Nodes /\ t \notin Ready \ {t} /\ Head0 \in Ready \ {t}
      /\ (Ready \ {t}) \cup {t} = Ready
  <2>1. t \in Linked /\ Ready \subseteq Nodes
    BY <1>2, LinkedFacts DEF ListInv
  <2> QED
    BY <1>2, <2>1 DEF Ready
<1>7. CASE LinkNext(p)
  <2>1. /\ poster[p].at = "append" /\ poster' = [poster EXCEPT ![p].at = "close"]
        /\ next' = [next EXCEPT ![prev[t]] = t] /\ prev' = prev
    BY <1>7 DEF LinkNext
  <2>2. /\ poster'[p].at = "close" /\ poster'[p].task = t
        /\ \A q \in Posters : q # p => ~ Linking(q)'
    BY <1>1, <1>4, <2>1 DEF Linking
  <2>3. Appending(next, prev, Ready \ {t}, Head0, t)
    BY <2>1, Zenon DEF ListInv, Listed
  <2> HIDE DEF t
  <2>4. Closing(next', prev', Ready' \ {t}, Head0, t)
    BY <1>2, <1>3, <1>5, <1>6, <2>1, <2>3, RingLinkNext
  <2>5. ~ Quiet' /\ step' # "unlink prev"
    BY <1>4, <2>2 DEF Quiet, Linking
  <2>6. ASSUME NEW q \in Posters
        PROVE  LET u == poster'[q].task IN
               /\ poster'[q].at = "append" => Appending(next', prev', Ready' \ {u}, Head0, u)
               /\ poster'[q].at = "close" => Closing(next', prev', Ready' \ {u}, Head0, u)
    <3>1. CASE q = p
      BY <2>2, <2>4, <3>1
    <3>2. CASE q # p
      BY <2>2, <3>2 DEF Linking
    <3> QED
      BY <3>1, <3>2
  <2>7. Whole(next', Joined', Head0)
    <3>0. {r \in Posters : poster[r].at = "append"} = {p} /\ poster[p].task = t
      BY <1>4, <2>1 DEF Linking, t
    <3>1. {poster[q].task : q \in {r \in Posters : poster[r].at = "append"}} = {t}
      BY <3>0
    <3>2. Joined = Ready \ {t}
      BY <1>4, <3>1 DEF Joined
    <3>3. Joined' = Ready
      BY <1>4, <1>5, <2>2 DEF Joined, Linking
    <3>4. prev[t] \in Ready \ {t} /\ next[t] = Head0
      BY <1>6, <2>3 DEF Appending, Ring
    <3>5. Whole([next EXCEPT ![prev[t]] = t], (Ready \ {t}) \cup {t}, Head0)
      BY <1>2, <1>3, <1>6, <3>2, <3>4, WholeLink DEF ListInv
    <3> QED
      BY <1>6, <2>1, <3>3, <3>5
  <2> QED
    BY <2>5, <2>6, <2>7, Zenon DEF Listed
<1>8. CASE LinkPrev(p)
  <2>1. /\ poster[p].at = "close" /\ poster' = [poster EXCEPT ![p].at = "submit"]
        /\ prev' = [prev EXCEPT ![Head0] = t] /\ next' = next
    BY <1>8 DEF LinkPrev
  <2>2. \A q \in Posters : ~ Linking(q)'
    BY <1>1, <1>4, <2>1 DEF Linking
  <2>3. Closing(next, prev, Ready \ {t}, Head0, t)
    BY <2>1, Zenon DEF ListInv, Listed
  <2> HIDE DEF t
  <2>4. Ring(next, [prev EXCEPT ![Head0] = t], (Ready \ {t}) \cup {t})
    BY <1>2, <1>3, <1>6, <2>3, RingLinkPrev
  <2>5. Ring(next', prev', Ready')
    BY <1>5, <1>6, <2>1, <2>4
  <2>6. Joined' = Ready /\ Joined = Ready
    BY <1>4, <1>5, <2>1, <2>2 DEF Joined, Linking
  <2> QED
    BY <1>4, <2>1, <2>2, <2>5, <2>6 DEF Listed, ListInv, Linking
<1> QED
  BY <1>7, <1>8

LEMMA UnlinkListed ==
    ASSUME ListInv, ~ Overlap, ~ Overlap', Unlink \/ UnlinkPrev
    PROVE  Listed' /\ Whole(next', Joined', Head0)
<1> DEFINE h == Head(batch)
<1>0. h = Head(batch)
  OBVIOUS
<1>1. /\ batch # <<>> /\ UNCHANGED <<posts, after, batch, poster>>
      /\ step \in {"unlink", "unlink prev"} /\ step' \in {"unlink prev", "call"}
  BY DEF Unlink, UnlinkPrev, InBatch
<1>2. /\ h \in Linked /\ h \in Tasks /\ h \in Nodes /\ h # Head0 /\ Ready \subseteq Nodes
      /\ Linked \subseteq Tasks
  BY <1>1, LinkedFacts, HeadBatched, TaskFacts DEF ListInv
<1>3. next \in [Nodes -> Nodes] /\ prev \in [Nodes -> Nodes]
  BY DEF ListInv, PlaceInv, TaskTypes, ListTypes
<1>4. \A q \in Posters : ~ Linking(q)
  <2>1. poster["loop"].at = "no"
    BY <1>1 DEF ListInv, PlaceInv, InStep
  <2>2. step = "unlink prev" \/ step' = "unlink prev"
    BY DEF Unlink, UnlinkPrev, InBatch
  <2>3. ~ Linking("main")
    BY <1>1, <2>2 DEF Overlap, Linking
  <2> QED
    BY <2>1, <2>3, TaskFacts DEF Linking
<1>5. \A q \in Posters : ~ Linking(q)'
  BY <1>1, <1>4, Zenon DEF Linking
<1>6. CASE Unlink
  <2>1. /\ step = "unlink" /\ step' = "unlink prev"
        /\ next' = [next EXCEPT ![prev[h]] = next[h]] /\ prev' = prev
    BY <1>6 DEF Unlink, InBatch
  <2>2. Ready' = Ready
    BY <1>1, <2>1 DEF Ready, Linked, InBatch
  <2>3. Ring(next, prev, Ready)
    <3>1. Quiet
      BY <1>4, <2>1 DEF Quiet
    <3> QED
      BY <3>1, Zenon DEF ListInv, Listed
  <2>4. h' = h /\ h \in Ready
    BY <1>1, <1>2 DEF Ready
  <2>5. h = Head(batch) /\ h' = Head(batch)'
    OBVIOUS
  <2> HIDE DEF h
  <2>6. Bypassed(next', prev', Ready' \ {h}, h)
    BY <1>2, <1>3, <2>1, <2>2, <2>3, <2>4, RingUnlink
  <2>7. Bypassed(next', prev', Ready' \ {Head(batch')}, Head(batch'))
    BY <1>1, <2>5, <2>6
  <2>8. ~ Quiet'
    BY <2>1 DEF Quiet
  <2>9. Joined = Ready /\ Joined' = Ready \ {h}
    BY <1>1, <1>4, <1>5, <2>1, <2>2, <2>5 DEF Joined, Linking
  <2>10. prev[h] \in Nodes /\ next[prev[h]] = h /\ Head0 \in Ready
    BY <1>2, <1>3, <2>3, <2>4 DEF Ring, Ready
  <2>11. Whole(next', Joined', Head0)
    BY <1>2, <1>3, <2>1, <2>4, <2>9, <2>10, WholeUnlink DEF ListInv
  <2> QED
    BY <1>5, <2>7, <2>8, <2>11 DEF Listed, Linking
<1>7. CASE UnlinkPrev
  <2>1. /\ step = "unlink prev" /\ step' = "call"
        /\ prev' = [prev EXCEPT ![next[h]] = prev[h]] /\ next' = next
    BY <1>7 DEF UnlinkPrev, InBatch
  <2>2. Ready' = Ready \ {h}
    <3>1. Linked' = Linked \ {h}
      BY <1>1, <2>1 DEF Linked, InBatch
    <3> QED
      BY <1>2, <3>1 DEF Ready
  <2>3. Bypassed(next, prev, Ready \ {h}, h)
    BY <2>1, Zenon DEF ListInv, Listed
  <2> HIDE DEF h
  <2>4. Ring(next', prev', Ready')
    BY <1>2, <1>3, <2>1, <2>2, <2>3, RingUnlinkPrev
  <2>5. Joined = Ready \ {h} /\ Joined' = Ready \ {h}
    BY <1>1, <1>4, <1>5, <2>1, <2>2, <1>0 DEF Joined, Linking
  <2> QED
    BY <1>5, <2>1, <2>4, <2>5 DEF Listed, ListInv, Linking
<1> QED
  BY <1>6, <1>7

\* The list is not empty when the loop unlinks: uv-common.h:138.
LEMMA NeverAborts == ASSUME ListInv, ~ Overlap, UnlinkAborts PROVE FALSE
<1> DEFINE h == Head(batch)
<1>1. batch # <<>> /\ step = "unlink" /\ next[Head0] = Head0
  BY DEF UnlinkAborts, InBatch
<1>2. /\ h \in Linked /\ h \in Tasks /\ h # Head0 /\ Linked \subseteq Tasks /\ Batched(h)
  BY <1>1, LinkedFacts, HeadBatched, TaskFacts DEF ListInv
<1> HIDE DEF h
<1>3. h \in Ready /\ Head0 \in Ready /\ Head0 \notin Linked
  BY <1>2, TaskFacts DEF Ready
<1>4. poster["loop"].at = "no"
  BY <1>1 DEF ListInv, PlaceInv, InStep
<1>5. CASE ~ Linking("main")
  <2>1. Quiet /\ Joined = Ready
    BY <1>1, <1>4, <1>5, TaskFacts DEF Quiet, Linking, Joined
  <2>2. Ring(next, prev, Ready) /\ Whole(next, Ready, Head0)
    BY <2>1 DEF ListInv, Listed
  <2> QED
    BY <1>1, <1>2, <1>3, <2>2, RingNotEmpty
<1>6. CASE Linking("main")
  <2> DEFINE t == poster["main"].task
  <2>1. "main" \in Posters /\ poster["main"].at \in {"append", "close"}
    BY <1>6, TaskFacts DEF Linking
  <2>2. t \in Tasks /\ Posted(t)
    BY <2>1, TaskFacts DEF ListInv, PlaceInv, InStep, TaskTypes, PosterTypes, Posted
  <2>3. t # h /\ t # Head0
    BY <1>2, <2>2, TaskFacts, Zenon DEF ListInv, PlaceInv, Homes, Apart
  <2>4. CASE poster["main"].at = "append"
    <3>1. {poster[q].task : q \in {r \in Posters : poster[r].at = "append"}} = {t}
      BY <1>4, <2>1, <2>4, TaskFacts
    <3>2. Joined = Ready \ {t}
      BY <1>1, <3>1 DEF Joined
    <3>3. Ring(next, prev, Ready \ {t})
      BY <2>1, <2>4 DEF ListInv, Listed, Appending
    <3> HIDE DEF t
    <3> QED
      BY <1>1, <1>2, <1>3, <2>3, <3>2, <3>3, RingNotEmpty DEF ListInv
  <2>5. CASE poster["main"].at = "close"
    <3>1. Closing(next, prev, Ready \ {t}, Head0, t)
      BY <2>1, <2>5 DEF ListInv, Listed
    <3> HIDE DEF t
    <3> QED
      BY <1>1, <1>3, <2>3, <3>1, ClosingNotEmpty
  <2> QED
    BY <2>1, <2>4, <2>5
<1> QED
  BY <1>5, <1>6

LEMMA CallAfterListed ==
    ASSUME ListInv, CallAfter PROVE Listed' /\ Whole(next', Joined', Head0)
<1>1. /\ batch # <<>> /\ step = "call" /\ step' = "called"
      /\ after' = [after EXCEPT ![Head(batch)] = @ + 1]
      /\ UNCHANGED <<next, prev, posts, poster, batch>>
  BY Zenon DEF CallAfter, InBatch, listVars
<1>2. Head(batch) \in Tasks /\ after \in [Tasks -> 0 .. 1] /\ Linked \subseteq Tasks
  BY <1>1, HeadBatched, LinkedFacts DEF ListInv, PlaceInv, TaskTypes, PlaceTypes
<1>3. Linked' = Linked
  <2> DEFINE h == Head(batch)
  <2>1. h = Head(batch) /\ h = Head(batch)'
    BY <1>1
  <2>2. posts \in 0 .. MaxTasks /\ 1 .. posts \subseteq Tasks
    BY TaskFacts DEF ListInv, PlaceInv, TaskTypes, PosterTypes, Tasks
  <2>3. Linked = {t \in 1 .. posts : after[t] = 0 /\ t # h}
    BY <1>1 DEF Linked, InBatch
  <2>4. after[h] # 1
    <3>1. ~ InBatch("called") /\ Batched(h)
      BY <1>1, HeadBatched DEF InBatch, ListInv
    <3> QED
      BY <1>2, <3>1, Zenon DEF ListInv, PlaceInv, Homes, Staged
  <2>5. \A t \in Tasks : after'[t] = 0 <=> after[t] = 0 /\ t # h
    BY <1>1, <1>2, <2>4
  <2>6. Linked' = {t \in 1 .. posts : after'[t] = 0}
    BY <1>1 DEF Linked, InBatch
  <2> HIDE DEF h
  <2> QED
    BY <2>2, <2>3, <2>5, <2>6
<1>4. Quiet' => Quiet
  BY <1>1 DEF Quiet, Linking
<1>5. Joined' = Joined
  BY <1>1, <1>3 DEF Joined, Ready
<1> QED
  BY <1>1, <1>3, <1>4, <1>5, ListKept DEF ListInv

LEMMA OtherListed ==
    ASSUME ListInv,
           \/ LifeSteps \/ VisitWork \/ TakeDone \/ VisitStop \/ FreeRequest
           \/ \E p \in Posters : Submit(p)
           \/ \E w \in Workers : Take(w) \/ Work(w)
    PROVE  Listed' /\ Whole(next', Joined', Head0)
<1>1. UNCHANGED <<next, prev, posts, after>>
  BY Zenon DEF LifeSteps, LifeOwner, LifeLoop, LifeSend, VisitWork, TakeDone, VisitStop, FreeRequest,
               Submit, Take, Work, allVars, taskVars, listVars, scanVars
<1>2. \/ UNCHANGED <<batch, step>>
      \/ TakeDone /\ batch = <<>> /\ step = "unlink" /\ step' = "unlink"
      \/ FreeRequest /\ step = "called" /\ step' = "unlink"
  <2>1. CASE TakeDone
    BY <2>1 DEF TakeDone, ListInv, PlaceInv, InStep
  <2>2. CASE FreeRequest
    BY <2>2 DEF FreeRequest, InBatch
  <2> QED
    BY <2>1, <2>2, Zenon DEF LifeSteps, LifeOwner, LifeLoop, LifeSend, VisitWork, VisitStop,
               Submit, Take, Work, allVars, taskVars, scanVars
<1>3. Linked' = Linked
  <2>1. (InBatch("call")' <=> InBatch("call")) /\ (InBatch("call") => batch' = batch)
    BY <1>2 DEF InBatch
  <2> QED
    BY <1>1, <2>1, SameLinked, Zenon DEF ListInv
<1>4. \A p \in Posters : poster'[p] = poster[p] \/ (~ Linking(p)' /\ ~ Linking(p))
  <2>1. ASSUME NEW q \in Posters, Submit(q)
        PROVE  \A p \in Posters : poster'[p] = poster[p] \/ (~ Linking(p)' /\ ~ Linking(p))
    BY <2>1 DEF Submit, ListInv, PlaceInv, TaskTypes, PosterTypes, Linking
  <2>2. CASE poster' = poster
    BY <2>2
  <2> QED
    BY <2>1, <2>2, Zenon DEF LifeSteps, LifeOwner, LifeLoop, LifeSend, VisitWork, TakeDone, VisitStop,
               FreeRequest, Take, Work, allVars, taskVars
<1>5. step' = "unlink prev" => step = "unlink prev" /\ batch' = batch
  BY <1>2
<1>6. step = "unlink prev" => step' = step
  BY <1>2
<1>7. \A p \in Posters : Linking(p) => Linking(p)' /\ poster'[p] = poster[p]
  BY <1>4, Zenon DEF Linking
<1>8. \A p \in Posters : Linking(p)' => Linking(p) /\ poster'[p] = poster[p]
  BY <1>4, Zenon DEF Linking
<1>9. Quiet' => Quiet
  BY <1>6, <1>7, Zenon DEF Quiet
<1>10. Joined' = Joined
  <2>1. {poster'[q].task : q \in {r \in Posters : poster'[r].at = "append"}}
        = {poster[q].task : q \in {r \in Posters : poster[r].at = "append"}}
    <3>1. \A p \in Posters : \/ poster'[p] = poster[p]
                             \/ poster'[p].at # "append" /\ poster[p].at # "append"
      BY <1>4 DEF Linking
    <3> QED
      BY <3>1
  <2>2. Ready' = Ready
    BY <1>3 DEF Ready
  <2> QED
    BY <1>5, <1>6, <2>1, <2>2, Zenon DEF Joined
<1> QED
  BY <1>1, <1>3, <1>4, <1>5, <1>9, <1>10, ListKept, Zenon DEF ListInv

LEMMA ListStep == ListInv /\ ~ Overlap /\ ~ Overlap' /\ [TaskNext]_allVars => ListInv'
<1> SUFFICES ASSUME ListInv, ~ Overlap, ~ Overlap', [TaskNext]_allVars
             PROVE  Listed' /\ Whole(next', Joined', Head0) /\ step' # "aborted"
  BY PlaceStep, Zenon DEF ListInv
<1>0. PlaceInv'
  BY PlaceStep, Zenon DEF ListInv
<1>1. ASSUME NEW p \in Posters, Link(p) \/ Posting(p)
      PROVE  Listed' /\ Whole(next', Joined', Head0)
  BY <1>0, <1>1, LinkListed, PostingListed, OtherListed, Zenon DEF Posting
<1>2. ASSUME NEW w \in Workers, Take(w) \/ Work(w)
      PROVE  Listed' /\ Whole(next', Joined', Head0)
  BY <1>2, OtherListed, Zenon
<1>3. ASSUME LoopTasks PROVE Listed' /\ Whole(next', Joined', Head0)
  BY <1>3, UnlinkListed, NeverAborts, CallAfterListed, OtherListed, Zenon DEF LoopTasks
<1>4. ASSUME LifeSteps PROVE Listed' /\ Whole(next', Joined', Head0)
  BY <1>4, OtherListed, Zenon
<1>5. step' # "aborted"
  <2>1. step' # step => step' # "aborted" \/ UnlinkAborts
    BY Zenon DEF TaskNext, LifeOwner, LifeLoop, LifeSend, Link, Posting, LinkNext, LinkPrev, Submit,
                 Take, Work, LoopTasks, VisitWork, TakeDone, VisitStop, Unlink, UnlinkPrev, CallAfter,
                 FreeRequest, allVars, taskVars, scanVars
  <2> QED
    BY <2>1, NeverAborts DEF ListInv
<1> QED
  BY <1>1, <1>2, <1>3, <1>4, <1>5, Zenon DEF TaskNext, LifeSteps

LEMMA ListInit == TaskInit => ListInv
<1> SUFFICES ASSUME TaskInit PROVE Listed /\ Whole(next, Joined, Head0) /\ step # "aborted"
  BY PlaceInit, Zenon DEF ListInv
<1>1. Ready = {Head0} /\ Head0 \in Nodes
  BY TaskFacts DEF TaskInit, Ready, Linked
<1>2. Ring(next, prev, Ready)
  BY <1>1 DEF TaskInit, Ring
<1>3. \A p \in Posters : poster[p].at = "no"
  BY DEF TaskInit
<1>4. Whole(next, Joined, Head0)
  BY <1>1 DEF Whole, Joined
<1> QED
  BY <1>2, <1>3, <1>4, TaskFacts DEF TaskInit, Listed

\* As long as no two threads are in active_reqs at once, it is a doubly linked list
\* of the requests under way, and libuv's assertion that it is not empty holds, for
\* any number of threads and tasks and whoever posts them (uv-common.h:130-143,
\* CTask.cpp:95-103).
THEOREM ListStaysExact == TaskSpec => ListExact
<1>1. TaskInit => ListInv
  BY ListInit, Zenon
<1>2. ListInv /\ ~ Overlap /\ ~ Overlap' /\ [TaskNext]_allVars => ListInv'
  BY ListStep, Zenon
<1>3. ListInv => step # "aborted" /\ (Quiet => Exact)
  BY Zenon DEF ListInv, Listed, Exact, Ring, Ready
<1> QED
  BY <1>1, <1>2, <1>3, PTL DEF TaskSpec, ListExact
=============================================================================
