----------------------------- MODULE ServicesProofs -----------------------------
(***************************************************************************)
(* Proofs about the parts of a process that do work for others or store    *)
(* for them: WorkerPool, the waiting of zprocess, the main thread and the  *)
(* events, the graph jobs, the key-value stores and the SQL server's rows; *)
(* and the theorems about all of the parts together.                       *)
(***************************************************************************)
EXTENDS ServicesMC, PartsProofs, StoreProofs

------------------------------------------------------------------------------
(* PoolWorkOnItems *)

\* The first item that no worker has taken yet: those from it on, that were sent, are in the channel.
FirstLeft == nextItem - Len(jobs)
Undone == { i \in 1..WorkItems : done[i] = 0 }

PoolTypes ==
    /\ jobs \in Seq(1..WorkItems) /\ nextItem \in 1..Left /\ Len(jobs) < nextItem
    /\ closed \in BOOLEAN /\ returned \in BOOLEAN
    /\ workers \in [PoolWorkers -> 0..Left]
    /\ done \in [1..WorkItems -> 0..1]

\* An item is in the channel, in its turn, or with one worker, or done.
ItemsArePlaced ==
    /\ \A k \in 1..Len(jobs) : jobs[k] = FirstLeft + k - 1
    /\ \A i \in 1..WorkItems :
          i < FirstLeft <=> done[i] = 1 \/ \E p \in PoolWorkers : workers[p] = i
    /\ \A p \in PoolWorkers : workers[p] \in 1..WorkItems =>
          /\ done[workers[p]] = 0
          /\ \A q \in PoolWorkers : workers[q] = workers[p] => q = p

CountIsOfUndone == waitCount = Cardinality(Undone)

PoolEndsInOrder ==
    /\ closed => nextItem = Left
    /\ \A p \in PoolWorkers : workers[p] = Left => closed /\ jobs = <<>>
    /\ returned => Undone = {}

PoolInv == PoolTypes /\ ItemsArePlaced /\ CountIsOfUndone /\ PoolEndsInOrder

\* The items that are not done can be counted.
LEMMA UndoneIsFinite ==
    ASSUME PoolTypes
    PROVE  IsFiniteSet(Undone) /\ Cardinality(Undone) \in 0..WorkItems
<1>1. IsFiniteSet(1..WorkItems) /\ Cardinality(1..WorkItems) = WorkItems
  BY FS_Interval, ProcessAssumption
<1>2. Undone \subseteq 1..WorkItems
  BY DEF Undone
<1>3. IsFiniteSet(Undone) /\ Cardinality(Undone) <= Cardinality(1..WorkItems)
  BY <1>1, <1>2, FS_Subset
<1> QED
  BY <1>1, <1>3, FS_CardinalityType, ProcessAssumption

LEMMA PoolInvInit == PoolInit => PoolInv
<1> SUFFICES ASSUME PoolInit PROVE PoolInv
  OBVIOUS
<1>1. closed \in BOOLEAN /\ returned \in BOOLEAN
  BY Zenon DEF PoolInit
<1>2. /\ jobs = <<>> /\ nextItem = 1 /\ Len(jobs) = 0 /\ waitCount = WorkItems
      /\ \A p \in PoolWorkers : workers[p] = 0
      /\ \A i \in 1..WorkItems : done[i] = 0
      /\ ~closed /\ ~returned
  BY DEF PoolInit
<1>3. PoolTypes
  BY <1>1, <1>2, ProcessAssumption DEF PoolInit, PoolTypes, Left
<1>4. ItemsArePlaced
  BY <1>2, ProcessAssumption DEF ItemsArePlaced, FirstLeft
<1>5. CountIsOfUndone
  <2>1. Undone = 1..WorkItems
    BY <1>2 DEF Undone
  <2>2. Cardinality(1..WorkItems) = WorkItems
    BY FS_Interval, ProcessAssumption
  <2> QED
    BY <1>2, <2>1, <2>2 DEF CountIsOfUndone
<1>6. PoolEndsInOrder
  BY <1>2, ProcessAssumption DEF PoolEndsInOrder, Left
<1> QED
  BY <1>3, <1>4, <1>5, <1>6 DEF PoolInv

LEMMA PoolInvGives ==
    ASSUME PoolInv
    PROVE  /\ PoolIsComplete
           /\ waitCount \in 0..WorkItems /\ nextItem \in 1..Left /\ workers \in [PoolWorkers -> 0..Left]
<1>1. waitCount \in 0..WorkItems
  BY UndoneIsFinite DEF PoolInv, CountIsOfUndone
<1>2. ASSUME \A p \in PoolWorkers : workers[p] = Left PROVE Undone = {}
  <2>1. closed /\ jobs = <<>> /\ nextItem = Left
    BY <1>2, ProcessAssumption DEF PoolInv, PoolEndsInOrder
  <2>2. FirstLeft = Left
    BY <2>1, ProcessAssumption DEF FirstLeft, Left
  <2>3. \A i \in 1..WorkItems : done[i] = 1
    BY <1>2, <2>2, ProcessAssumption DEF PoolInv, ItemsArePlaced, Left
  <2> QED
    BY <2>3 DEF Undone
<1>3. Undone = {} => waitCount = 0
  BY FS_EmptySet DEF PoolInv, CountIsOfUndone
<1>4. returned => \A i \in 1..WorkItems : done[i] = 1
  BY DEF PoolInv, PoolEndsInOrder, PoolTypes, Undone
<1>5. returned => \A p \in PoolWorkers : workers[p] \in {0, Left}
  BY <1>4, ProcessAssumption DEF PoolInv, PoolTypes, ItemsArePlaced, Left
<1> QED
  BY <1>1, <1>2, <1>3, <1>4, <1>5 DEF PoolIsComplete, PoolInv, PoolTypes

LEMMA PoolInvStep == PoolInv /\ [PoolNext]_poolVars => PoolInv'
<1> SUFFICES ASSUME PoolInv, [PoolNext]_poolVars PROVE PoolInv'
  OBVIOUS
<1> USE ProcessAssumption DEF PoolInv
<1>1. CASE SendJob
  <2>1. /\ nextItem <= WorkItems /\ jobs' = Append(jobs, nextItem) /\ nextItem' = nextItem + 1
        /\ UNCHANGED <<closed, workers, done, waitCount, returned>>
    BY <1>1 DEF SendJob
  <2>2. Len(jobs') = Len(jobs) + 1 /\ FirstLeft' = FirstLeft
    BY <2>1 DEF PoolTypes, FirstLeft
  <2>3. PoolTypes'
    BY <2>1, <2>2 DEF PoolTypes, Left
  <2>4. \A k \in 1..Len(jobs') : jobs'[k] = FirstLeft + k - 1
    <3>1. Len(jobs) \in Nat /\ jobs \in Seq(1..WorkItems) /\ nextItem \in Nat
      BY DEF PoolTypes, Left
    <3>2. jobs'[Len(jobs) + 1] = nextItem /\ \A k \in 1..Len(jobs) : jobs'[k] = jobs[k]
      BY <2>1, <3>1
    <3>3. FirstLeft \in Int /\ nextItem = FirstLeft + Len(jobs)
      BY <3>1 DEF FirstLeft
    <3> HIDE DEF FirstLeft
    <3>4. \A k \in 1..Len(jobs) : jobs'[k] = FirstLeft + k - 1
      BY <3>2 DEF ItemsArePlaced
    <3>5. jobs'[Len(jobs) + 1] = FirstLeft + (Len(jobs) + 1) - 1
      BY <3>1, <3>2, <3>3
    <3>6. \A k \in 1..(Len(jobs) + 1) : k \in 1..Len(jobs) \/ k = Len(jobs) + 1
      BY <3>1
    <3> QED
      BY <2>2, <3>4, <3>5, <3>6
  <2>5. ItemsArePlaced'
    BY <2>1, <2>2, <2>4 DEF ItemsArePlaced
  <2>6. CountIsOfUndone' /\ PoolEndsInOrder'
    BY <2>1 DEF CountIsOfUndone, Undone, PoolEndsInOrder, Left
  <2> QED
    BY <2>3, <2>5, <2>6
<1>2. CASE CloseJobs
  BY <1>2 DEF CloseJobs, PoolTypes, ItemsArePlaced, FirstLeft, CountIsOfUndone, Undone, PoolEndsInOrder, Left
<1>3. ASSUME NEW p \in PoolWorkers, TakeJob(p) PROVE PoolInv'
  <2>1. /\ workers[p] = 0 /\ jobs # <<>>
        /\ workers' = [workers EXCEPT ![p] = Head(jobs)] /\ jobs' = Tail(jobs)
        /\ UNCHANGED <<nextItem, closed, done, waitCount, returned>>
    BY <1>3 DEF TakeJob
  <2>2. /\ Head(jobs) = FirstLeft /\ FirstLeft \in 1..WorkItems
        /\ Len(jobs') = Len(jobs) - 1 /\ FirstLeft' = FirstLeft + 1
        /\ jobs' \in Seq(1..WorkItems)
        /\ \A k \in 1..Len(jobs') : jobs'[k] = jobs[k + 1]
    <3>1. Len(jobs) \in Nat \ {0} /\ jobs \in Seq(1..WorkItems)
      BY <2>1 DEF PoolTypes
    <3>2. jobs[1] = FirstLeft /\ jobs[1] \in 1..WorkItems /\ Head(jobs) = jobs[1]
      BY <3>1 DEF ItemsArePlaced, PoolTypes, FirstLeft
    <3> QED
      BY <2>1, <3>1, <3>2 DEF FirstLeft, PoolTypes
  <2>3. /\ workers'[p] = FirstLeft
        /\ \A q \in PoolWorkers \ {p} : workers'[q] = workers[q]
        /\ workers' \in [PoolWorkers -> 0..Left]
    BY <2>1, <2>2 DEF PoolTypes, Left
  <2>4. PoolTypes'
    BY <2>1, <2>2, <2>3 DEF PoolTypes
  <2>5. done[FirstLeft] = 0 /\ \A q \in PoolWorkers : workers[q] # FirstLeft
    BY <2>2 DEF ItemsArePlaced, PoolTypes
  <2>6. \A k \in 1..Len(jobs') : jobs'[k] = FirstLeft' + k - 1
    <3>1. Len(jobs) \in Nat /\ FirstLeft \in Int
      BY <2>2 DEF PoolTypes
    <3> HIDE DEF FirstLeft
    <3>2. \A k \in 1..Len(jobs) : jobs[k] = FirstLeft + k - 1
      BY DEF ItemsArePlaced
    <3> QED
      BY <2>2, <3>1, <3>2
  <2>7. \A i \in 1..WorkItems :
           i < FirstLeft + 1 <=> done[i] = 1 \/ \E q \in PoolWorkers : workers'[q] = i
    <3>1. FirstLeft \in Int
      BY <2>2
    <3> HIDE DEF FirstLeft
    <3> TAKE i \in 1..WorkItems
    <3>2. CASE i = FirstLeft
      BY <2>3, <3>1, <3>2
    <3>3. CASE i # FirstLeft
      BY <2>1, <2>3, <3>1, <3>3 DEF ItemsArePlaced
    <3> QED
      BY <3>2, <3>3
  <2>8. \A q \in PoolWorkers : workers'[q] \in 1..WorkItems =>
           /\ done[workers'[q]] = 0
           /\ \A r \in PoolWorkers : workers'[r] = workers'[q] => r = q
    BY <2>3, <2>5 DEF ItemsArePlaced
  <2>9. ItemsArePlaced'
    BY <2>1, <2>2, <2>6, <2>7, <2>8 DEF ItemsArePlaced
  <2>10. CountIsOfUndone' /\ PoolEndsInOrder'
    BY <2>1, <2>2, <2>3 DEF CountIsOfUndone, Undone, PoolEndsInOrder, Left
  <2> QED
    BY <2>4, <2>9, <2>10
<1>4. ASSUME NEW p \in PoolWorkers, DoJob(p) PROVE PoolInv'
  <2> DEFINE i == workers[p]
  <2>1. /\ i \in 1..WorkItems /\ done' = [done EXCEPT ![i] = done[i] + 1]
        /\ workers' = [workers EXCEPT ![p] = 0] /\ waitCount' = waitCount - 1
        /\ UNCHANGED <<jobs, nextItem, closed, returned>>
    BY <1>4 DEF DoJob, CountAfter
  <2>2. done[i] = 0 /\ \A q \in PoolWorkers \ {p} : workers[q] # i
    BY <2>1 DEF ItemsArePlaced
  <2>3. /\ done' \in [1..WorkItems -> 0..1] /\ done'[i] = 1
        /\ \A j \in 1..WorkItems \ {i} : done'[j] = done[j]
    BY <2>1, <2>2 DEF PoolTypes
  <2>4. /\ workers' \in [PoolWorkers -> 0..Left] /\ workers'[p] = 0
        /\ \A q \in PoolWorkers \ {p} : workers'[q] = workers[q]
    BY <2>1 DEF PoolTypes, Left
  <2>5. PoolTypes'
    BY <2>1, <2>3, <2>4 DEF PoolTypes
  <2>6. ItemsArePlaced'
    <3>1. FirstLeft' = FirstLeft /\ jobs' = jobs
      BY <2>1 DEF FirstLeft
    <3>2. \A j \in 1..WorkItems :
             j < FirstLeft <=> done'[j] = 1 \/ \E q \in PoolWorkers : workers'[q] = j
      BY <2>2, <2>3, <2>4, SMTT(30) DEF ItemsArePlaced
    <3>3. \A q \in PoolWorkers : workers'[q] \in 1..WorkItems =>
             /\ done'[workers'[q]] = 0
             /\ \A r \in PoolWorkers : workers'[r] = workers'[q] => r = q
      <4> HIDE DEF i
      <4>1. \A q \in PoolWorkers : workers'[q] \in 1..WorkItems => q # p /\ workers'[q] = workers[q]
        BY <2>4
      <4> QED
        BY <2>1, <2>2, <2>3, <4>1 DEF ItemsArePlaced, PoolTypes
    <3> QED
      BY <3>1, <3>2, <3>3 DEF ItemsArePlaced
  <2>7. CountIsOfUndone'
    <3>1. Undone' = Undone \ {i} /\ i \in Undone
      BY <2>1, <2>2, <2>3 DEF Undone
    <3>2. Cardinality(Undone \ {i}) = Cardinality(Undone) - 1
      BY <3>1, UndoneIsFinite, FS_RemoveElement
    <3> QED
      BY <2>1, <3>1, <3>2 DEF CountIsOfUndone
  <2>8. PoolEndsInOrder'
    BY <2>1, <2>3, <2>4 DEF PoolEndsInOrder, Left, Undone
  <2> QED
    BY <2>5, <2>6, <2>7, <2>8
<1>5. ASSUME NEW p \in PoolWorkers, WorkerEnds(p) PROVE PoolInv'
  <2>1. /\ workers[p] = 0 /\ jobs = <<>> /\ closed /\ workers' = [workers EXCEPT ![p] = Left]
        /\ UNCHANGED <<jobs, nextItem, closed, done, waitCount, returned>>
    BY <1>5 DEF WorkerEnds
  <2>2. /\ workers' \in [PoolWorkers -> 0..Left] /\ workers'[p] = Left
        /\ \A q \in PoolWorkers \ {p} : workers'[q] = workers[q]
    BY <2>1 DEF PoolTypes, Left
  <2>3. PoolTypes' /\ PoolEndsInOrder' /\ CountIsOfUndone'
    BY <2>1, <2>2 DEF PoolTypes, PoolEndsInOrder, CountIsOfUndone, Undone
  <2>4. \A j \in 1..WorkItems : (\E q \in PoolWorkers : workers'[q] = j) <=> \E q \in PoolWorkers : workers[q] = j
    BY <2>1, <2>2 DEF Left
  <2>5. FirstLeft' = FirstLeft
    BY <2>1 DEF FirstLeft
  <2>6. \A q \in PoolWorkers : workers'[q] \in 1..WorkItems => q # p /\ workers'[q] = workers[q]
    BY <2>2 DEF Left
  <2>7. ItemsArePlaced'
    BY <2>1, <2>2, <2>4, <2>5, <2>6 DEF ItemsArePlaced
  <2> QED
    BY <2>3, <2>7
<1>6. CASE PoolReturns
  <2>1. /\ closed /\ waitCount = 0 /\ returned' = TRUE
        /\ UNCHANGED <<jobs, nextItem, closed, workers, done, waitCount>>
    BY <1>6 DEF PoolReturns
  <2>2. Undone = {}
    BY <2>1, UndoneIsFinite, FS_EmptySet DEF CountIsOfUndone
  <2>3. returned' \in BOOLEAN
    BY <2>1, Zenon
  <2> QED
    BY <2>1, <2>2, <2>3 DEF PoolTypes, ItemsArePlaced, FirstLeft, CountIsOfUndone, Undone, PoolEndsInOrder
<1>7. CASE UNCHANGED poolVars
  BY <1>7 DEF poolVars, PoolTypes, ItemsArePlaced, FirstLeft, CountIsOfUndone, Undone, PoolEndsInOrder
<1> QED
  BY <1>1, <1>2, <1>3, <1>4, <1>5, <1>6, <1>7 DEF PoolNext

------------------------------------------------------------------------------
(* RunFuncUntilContextDone and OnceWait *)

\* What is in the channel was put there by a goroutine that has ended.
WaitInv ==
    /\ WaitsAreHonest
    /\ waits \in [Waiters -> {"unused", "waits", "ready", "timed out"}]
    /\ doneChannel \in Nat /\ ready \in BOOLEAN
    /\ doneChannel > 0 => running = "ended"
    /\ running = "unused" => completed = "unused"

LEMMA WaitInvInit == WaitInit => WaitInv
<1>1. WaitInit => ready \in BOOLEAN
  BY Zenon DEF WaitInit
<1> QED
  BY <1>1 DEF WaitInit, WaitInv, WaitsAreHonest

LEMMA WaitInvStep == WaitInv /\ [WaitNext]_waitVars => WaitInv'
<1> SUFFICES ASSUME WaitInv, [WaitNext]_waitVars PROVE WaitInv'
  OBVIOUS
<1> USE DEF WaitInv, WaitsAreHonest
<1>1. ASSUME NEW deadline \in BOOLEAN, RunFunc(deadline) PROVE WaitInv'
  BY <1>1 DEF RunFunc
<1>2. CASE FuncReturns
  BY <1>2 DEF FuncReturns
<1>3. CASE SendDone
  <2>1. /\ running = "sends" /\ running' = "ended" /\ doneChannel' = doneChannel + 1
        /\ UNCHANGED <<completed, ready, waits>>
    BY <1>3 DEF SendDone
  <2>2. doneChannel' \in Nat
    <3>1. doneChannel \in Nat
      BY Zenon
    <3> HIDE DEF WaitInv
    <3> QED
      BY <2>1, <3>1
  <2> QED
    BY <2>1, <2>2, Zenon
<1>4. CASE DeadlinePasses
  BY <1>4 DEF DeadlinePasses
<1>5. CASE FuncCompleted
  <2>1. /\ completed' = "yes" /\ doneChannel > 0 /\ doneChannel' = doneChannel - 1
        /\ UNCHANGED <<running, ready, waits>>
    BY <1>5 DEF FuncCompleted
  <2>2. doneChannel' \in Nat
    <3>1. doneChannel \in Nat
      BY Zenon
    <3> HIDE DEF WaitInv
    <3> QED
      BY <2>1, <3>1
  <2>3. running = "ended"
    BY <2>1
  <2> QED
    BY <2>1, <2>2, <2>3
<1>6. CASE FuncTimedOut
  BY <1>6 DEF FuncTimedOut
<1>7. CASE Done
  <2>1. ready' \in BOOLEAN /\ ready'
    BY <1>7, Zenon DEF Done
  <2>2. UNCHANGED <<running, doneChannel, completed, waits>>
    BY <1>7 DEF Done
  <2> QED
    BY <2>1, <2>2
<1>8. ASSUME NEW r \in Waiters, Wait(r) PROVE WaitInv'
  BY <1>8 DEF Wait
<1>9. ASSUME NEW r \in Waiters, WaitReturns(r) PROVE WaitInv'
  BY <1>9 DEF WaitReturns
<1>10. ASSUME NEW r \in Waiters, WaitTimesOut(r) PROVE WaitInv'
  BY <1>10 DEF WaitTimesOut
<1>11. CASE UNCHANGED waitVars
  BY <1>11 DEF waitVars
<1> QED
  BY <1>1, <1>2, <1>3, <1>4, <1>5, <1>6, <1>7, <1>8, <1>9, <1>10, <1>11 DEF WaitNext

------------------------------------------------------------------------------
(* The executor of the main thread *)

AskedPhases == {"unused", "sends", "waits", "lost", "returned"}
RunsOf == Waiters \cup {"nothing", "unstarted", "blocked"}

\* A function that is run was taken, and one that was not has never run; only a function that the
\* main thread is at, or blocks it, is of a caller that waits.
ExecutorInv ==
    /\ exeChannel \in BOOLEAN /\ mainRuns \in RunsOf
    /\ asks \in [Waiters -> AskedPhases] /\ waitsFor \subseteq Waiters /\ ran \in [Waiters -> 0..1]
    /\ exeChannel <=> mainRuns # "unstarted"
    /\ \A r \in Waiters : asks[r] \in {"unused", "sends", "lost", "waits"} => ran[r] = 0
    /\ \A r \in Waiters : mainRuns = r => asks[r] \in {"waits", "returned"} /\ ran[r] = 0
    /\ \A r \in Waiters : mainRuns = r => asks[r] = AfterSend(r)
    /\ \A r \in waitsFor : asks[r] # "unused"
    /\ \A r \in waitsFor : asks[r] = "returned" => ran[r] = 1
    /\ \A r \in Waiters : ran[r] = 1 => exeChannel

LEMMA ExecutorInvInit == ExecutorInit => ExecutorInv
<1> SUFFICES ASSUME ExecutorInit PROVE ExecutorInv
  OBVIOUS
<1>1. exeChannel \in BOOLEAN
  BY Zenon DEF ExecutorInit
<1> QED
  BY <1>1, ProcessAssumption DEF ExecutorInit, ExecutorInv, RunsOf, AskedPhases

LEMMA ExecutorInvGives == ExecutorInv => MainThreadRunsOnce /\ mainRuns \in Waiters \cup {"nothing", "unstarted", "blocked"}
  BY DEF ExecutorInv, MainThreadRunsOnce, RunsOf, AskedPhases

LEMMA ExecutorInvStep == ExecutorInv /\ [ExecutorNext]_executorVars => ExecutorInv'
<1> SUFFICES ASSUME ExecutorInv, [ExecutorNext]_executorVars PROVE ExecutorInv'
  OBVIOUS
<1> USE ProcessAssumption DEF ExecutorInv, RunsOf, AskedPhases
<1>1. CASE OnThreadExecutor
  <2>1. exeChannel' \in BOOLEAN
    BY <1>1, Zenon DEF OnThreadExecutor
  <2> QED
    BY <1>1, <2>1 DEF OnThreadExecutor, AfterSend
<1>2. ASSUME NEW r \in Waiters, NEW thenWaits \in BOOLEAN, RunFuncInMainThread(r, thenWaits) PROVE ExecutorInv'
  BY <1>2 DEF RunFuncInMainThread, AfterSend
<1>3. ASSUME NEW r \in Waiters, TakeFunc(r) PROVE ExecutorInv'
  BY <1>3 DEF TakeFunc, AfterSend
<1>4. ASSUME NEW r \in Waiters, FuncEnds(r) PROVE ExecutorInv'
  BY <1>4 DEF FuncEnds, AfterSend
<1>5. ASSUME NEW r \in Waiters, FuncSends(r) PROVE ExecutorInv'
  BY <1>5 DEF FuncSends, AfterSend
<1>6. CASE UNCHANGED executorVars
  BY <1>6 DEF executorVars, AfterSend
<1> QED
  BY <1>1, <1>2, <1>3, <1>4, <1>5, <1>6 DEF ExecutorNext

------------------------------------------------------------------------------
(* Server-sent events *)

EventPhases == {"unused", "looks", "receives", "leaves", "ended"}

EventInv ==
    /\ events \in [Subscribers -> EventPhases]
    /\ subscribers \subseteq Subscribers /\ notifying \subseteq Subscribers
    /\ SubscribersAreServed

LEMMA EventInvInit == EventInit => EventInv
  BY DEF EventInit, EventInv, EventPhases, SubscribersAreServed

LEMMA EventInvStep == EventInv /\ [EventNext]_eventVars => EventInv'
<1> SUFFICES ASSUME EventInv, [EventNext]_eventVars PROVE EventInv'
  OBVIOUS
<1> USE DEF EventInv, EventPhases, SubscribersAreServed
<1>1. ASSUME NEW s \in Subscribers, Subscribe(s) PROVE EventInv'
  BY <1>1 DEF Subscribe
<1>2. ASSUME NEW s \in Subscribers, ClientLeaves(s) \/ Look(s) PROVE EventInv'
  BY <1>2 DEF ClientLeaves, Look
<1>3. ASSUME NEW s \in Subscribers, Unsubscribe(s) PROVE EventInv'
  BY <1>3 DEF Unsubscribe
<1>4. ASSUME NEW marshals \in BOOLEAN, Notify(marshals) PROVE EventInv'
  BY <1>4 DEF Notify
<1>5. ASSUME NEW s \in Subscribers, SendEvent(s) PROVE EventInv'
  BY <1>5 DEF SendEvent
<1>6. CASE NotifyEnds
  BY <1>6 DEF NotifyEnds
<1>7. CASE UNCHANGED eventVars
  BY <1>7 DEF eventVars
<1> QED
  BY <1>1, <1>2, <1>3, <1>4, <1>5, <1>6, <1>7 DEF EventNext, NotifierSteps, HandlerSteps

\* The properties of the pool, the waits, the main thread and the events.
LEMMA ProcessesGive ==
    PoolInv /\ WaitInv /\ ExecutorInv /\ EventInv => WorkIsKept /\ ProcessTypeOK
  BY PoolInvGives, ExecutorInvGives DEF WorkIsKept, ProcessTypeOK, WaitInv, EventInv

------------------------------------------------------------------------------
(* Grapher: the jobs that draw columns, and the images that are rendered *)

Images == [Columns -> Nat]
SJobRecords == [window : Nat, drawnUntil : Nat, image : Images]
FileRecords == [columns : Images, modified : Nat, after : BOOLEAN]
UpdateRecords == [job : Nat, planned : Nat]

\* The image shows the window that `until` is in, up to there.
IsDrawn(job, until) ==
    /\ job.window = WindowOf(until)
    /\ \A x \in Columns : LET pixel == WindowStart(job.window) + x IN pixel < until => job.image[x] = pixel

GrapherTypes ==
    /\ graphTime \in Nat
    /\ sjobs \in Seq(SJobRecords)
    /\ inJobs \in 0..Len(sjobs)
    /\ updating \in [Updaters -> UpdateRecords]
    /\ \A u \in Updaters : updating[u].job # NoJob =>
          updating[u].job \in DOMAIN sjobs /\ updating[u].planned <= graphTime
    /\ rendering \in [AskedFor -> Nat]
    /\ files \in [Windows -> FileRecords]

\* A job in which no updates have met is drawn until where its last update will set drawnUntil,
\* or has set it.
JobsAreDrawn ==
    \A i \in DOMAIN sjobs \ mixedUp :
        /\ (\A u \in Updaters : updating[u].job # i) => IsDrawn(sjobs[i], sjobs[i].drawnUntil)
        /\ \A u \in Updaters : updating[u].job = i =>
              /\ IsDrawn(sjobs[i], updating[u].planned)
              /\ \A other \in Updaters : updating[other].job = i => other = u

GrapherInv ==
    /\ GrapherTypes /\ JobsAreDrawn
    /\ \A win \in Windows : files[win].after => IsWhole(win, files[win].columns)

\* A window is two columns, and a column is in one window.
LEMMA WindowsAreColumns ==
    /\ \A win \in Nat : /\ WindowStart(win) = 2 * win /\ WindowEnd(win) = 2 * win + 2 /\ WindowStart(win) \in Nat
    /\ \A p \in Nat : /\ WindowOf(p) \in Nat
                      /\ 2 * WindowOf(p) <= p /\ p < 2 * WindowOf(p) + 2
<1>1. Cardinality(Columns) = 2
  <2>1. Columns = {0, 1}
    BY DEF Columns
  <2>2. Cardinality({0}) = 1 /\ IsFiniteSet({0})
    BY FS_Singleton
  <2>3. Cardinality({0} \cup {1}) = Cardinality({0}) + 1
    BY <2>2, FS_AddElement
  <2>4. Columns = {0} \cup {1}
    BY <2>1
  <2> QED
    BY <2>2, <2>3, <2>4
<1> QED
  BY <1>1 DEF WindowStart, WindowEnd, WindowOf

\* A window of which nothing is drawn.
LEMMA EmptyIsImage == Empty \in Images
  BY DEF Empty, Images, Blank

LEMMA GrapherInvInit == GrapherInit => GrapherInv
<1> SUFFICES ASSUME GrapherInit PROVE GrapherInv
  OBVIOUS
<1>1. /\ graphTime = 0 /\ sjobs = <<>> /\ inJobs = NoJob
      /\ \A u \in Updaters : updating[u] = NoUpdate
      /\ updating = [u \in Updaters |-> NoUpdate]
      /\ rendering = [win \in AskedFor |-> Never]
      /\ files = [win \in Windows |-> NoFile]
  BY DEF GrapherInit
<1>2. NoUpdate \in UpdateRecords /\ NoUpdate.job = NoJob
  BY DEF NoUpdate, UpdateRecords, NoJob, Never
<1>3. NoFile \in FileRecords /\ NoFile.after = FALSE
  BY EmptyIsImage DEF NoFile, FileRecords, Never
<1>4. sjobs \in Seq(SJobRecords) /\ Len(sjobs) = 0 /\ DOMAIN sjobs = {}
  BY <1>1
<1>5. GrapherTypes
  BY <1>1, <1>2, <1>3, <1>4 DEF GrapherTypes, NoJob, Never
<1>6. JobsAreDrawn
  BY <1>4 DEF JobsAreDrawn
<1> QED
  BY <1>1, <1>3, <1>5, <1>6 DEF GrapherInv

LEMMA GrapherInvGives == GrapherInv => GraphsAreKept
<1> SUFFICES ASSUME GrapherInv PROVE GraphsAreKept
  OBVIOUS
<1>1. OldPartsAreWhole
  BY DEF GrapherInv, OldPartsAreWhole
<1>2. DrawnIsCurrent
  BY DEF GrapherInv, JobsAreDrawn, IsDrawn, DrawnIsCurrent
<1> QED
  BY <1>1, <1>2 DEF GraphsAreKept

\* A job that is drawn until drawnUntil is drawn on from there, in its window or a later one.
LEMMA DrawGoesOn ==
    ASSUME NEW job \in SJobRecords, NEW planned \in Nat, graphTime \in Nat, planned <= graphTime
    PROVE  LET to == [job EXCEPT !.window = WindowOf(planned),
                                 !.image = Draw(job.image, WindowOf(planned), job.drawnUntil, planned)]
           IN /\ to \in SJobRecords
              /\ IsDrawn(job, job.drawnUntil) /\ job.drawnUntil <= planned => IsDrawn(to, planned)
<1> DEFINE now == WindowOf(planned)
           image == Draw(job.image, now, job.drawnUntil, planned)
           to == [job EXCEPT !.window = now, !.image = image]
<1>1. now \in Nat /\ 2 * now <= planned /\ planned < 2 * now + 2 /\ WindowStart(now) = 2 * now
  BY WindowsAreColumns
<1>2. job.window \in Nat /\ job.drawnUntil \in Nat /\ job.image \in Images
  BY DEF SJobRecords
<1>3. \A x \in Columns :
         image[x] = IF 2 * now + x >= job.drawnUntil /\ 2 * now + x < planned THEN 2 * now + x ELSE job.image[x]
  <2> TAKE x \in Columns
  <2>1. 2 * now + x \in Nat
    BY <1>1 DEF Columns
  <2> QED
    BY <1>1, <2>1 DEF Draw
<1>4. image \in Images
  <2>1. image = [x \in Columns |-> image[x]]
    BY DEF Draw
  <2>2. \A x \in Columns : image[x] \in Nat
    BY <1>1, <1>2, <1>3 DEF Images, Columns
  <2> HIDE DEF image
  <2> QED
    BY <2>1, <2>2 DEF Images
<1> HIDE DEF image, now
<1>5. to \in SJobRecords /\ to.window = now /\ to.image = image
  BY <1>1, <1>4 DEF SJobRecords
<1>6. ASSUME IsDrawn(job, job.drawnUntil), job.drawnUntil <= planned, NEW x \in Columns, 2 * now + x < planned
      PROVE  image[x] = 2 * now + x
  <2>1. CASE 2 * now + x >= job.drawnUntil
    BY <1>3, <1>6, <2>1
  <2>2. CASE ~(2 * now + x >= job.drawnUntil)
    <3>1. x \in Nat /\ x < 2
      BY DEF Columns
    <3>2. /\ job.window = WindowOf(job.drawnUntil) /\ WindowStart(job.window) = 2 * job.window
          /\ 2 * job.window <= job.drawnUntil /\ job.drawnUntil < 2 * job.window + 2
      BY <1>2, <1>6, WindowsAreColumns DEF IsDrawn
    <3>3. job.window = now
      <4>1. \A m, n, d, p, y \in Nat :
               2 * n + y < d /\ 2 * m <= d /\ d < 2 * m + 2 /\ d <= p /\ p < 2 * n + 2 => m = n
        OBVIOUS
      <4>2. 2 * now + x < job.drawnUntil
        BY <1>1, <1>2, <2>2, <3>1
      <4> QED
        BY <1>1, <1>2, <1>6, <3>1, <3>2, <4>1, <4>2
    <3>4. job.image[x] = 2 * now + x
      BY <1>1, <1>2, <1>6, <2>2, <3>1, <3>2, <3>3 DEF IsDrawn
    <3> QED
      BY <1>3, <2>2, <3>4
  <2> QED
    BY <2>1, <2>2
<1>7. IsDrawn(job, job.drawnUntil) /\ job.drawnUntil <= planned => IsDrawn(to, planned)
  BY <1>1, <1>5, <1>6 DEF IsDrawn, now
<1> QED
  BY <1>5, <1>7 DEF now, image

\* A step that leaves the jobs and what they are in alone.
LEMMA ElsewhereKeepsGrapherInv ==
    ASSUME GrapherInv, UNCHANGED <<sjobs, updating, mixedUp>>,
           graphTime' \in Nat, graphTime <= graphTime', inJobs' \in 0..Len(sjobs),
           rendering' \in [AskedFor -> Nat], files' \in [Windows -> FileRecords],
           \A win \in Windows : files'[win].after => IsWhole(win, files'[win].columns)
    PROVE  GrapherInv'
<1>1. GrapherTypes'
  BY DEF GrapherInv, GrapherTypes, UpdateRecords
<1>2. JobsAreDrawn'
  BY DEF GrapherInv, JobsAreDrawn
<1> QED
  BY <1>1, <1>2 DEF GrapherInv, IsWhole

LEMMA AddJobKeepsGrapherInv == ASSUME GrapherInv, AddJob PROVE GrapherInv'
<1> DEFINE n == Cardinality(DOMAIN sjobs) + 1
           job == SJob(WindowOf(graphTime))
<1>1. Len(sjobs) \in Nat /\ DOMAIN sjobs = 1..Len(sjobs) /\ n = Len(sjobs) + 1
  <2>1. Len(sjobs) \in Nat /\ DOMAIN sjobs = 1..Len(sjobs)
    BY DEF GrapherInv, GrapherTypes
  <2> QED
    BY <2>1, FS_Interval
<1>2. /\ sjobs' = [i \in 1..n |-> IF i = n THEN job ELSE sjobs[i]] /\ inJobs' = n
      /\ UNCHANGED <<graphTime, updating, mixedUp, rendering, files>>
  BY DEF AddJob
<1> HIDE DEF n
<1>3. /\ WindowOf(graphTime) \in Nat /\ WindowStart(WindowOf(graphTime)) \in Nat
      /\ WindowOf(WindowStart(WindowOf(graphTime))) = WindowOf(graphTime)
  <2>1. graphTime \in Nat
    BY DEF GrapherInv, GrapherTypes
  <2>2. WindowOf(graphTime) \in Nat
    BY <2>1, WindowsAreColumns
  <2> DEFINE win == WindowOf(graphTime)  start == WindowStart(win)
  <2> HIDE DEF win
  <2>3. win \in Nat => start = 2 * win /\ start \in Nat
    BY WindowsAreColumns
  <2> HIDE DEF start
  <2>4. start \in Nat => /\ WindowOf(start) \in Nat
                         /\ 2 * WindowOf(start) <= start /\ start < 2 * WindowOf(start) + 2
    BY WindowsAreColumns
  <2>5. win \in Nat => WindowOf(start) = win
    BY <2>3, <2>4
  <2> QED
    BY <2>2, <2>3, <2>5 DEF win, start
<1>4. job \in SJobRecords
  BY <1>3, EmptyIsImage DEF SJob, SJobRecords
<1>5. IsDrawn(job, job.drawnUntil)
  BY <1>3 DEF SJob, IsDrawn, Columns
<1> HIDE DEF job
<1>6. \A i \in 1..Len(sjobs) : sjobs[i] \in SJobRecords
  BY <1>1 DEF GrapherInv, GrapherTypes
<1>7. /\ Len(sjobs') = n /\ DOMAIN sjobs' = 1..n /\ sjobs'[n] = job
      /\ \A i \in 1..Len(sjobs) : sjobs'[i] = sjobs[i]
  BY <1>1, <1>2
<1>8. sjobs' \in Seq(SJobRecords)
  BY <1>1, <1>2, <1>4, <1>6
<1>9. GrapherTypes'
  BY <1>1, <1>2, <1>7, <1>8 DEF GrapherInv, GrapherTypes
<1>10. JobsAreDrawn'
  <2>1. \A u \in Updaters : updating[u].job # n
    BY <1>1 DEF GrapherInv, GrapherTypes, NoJob
  <2>2. ASSUME NEW i \in DOMAIN sjobs' \ mixedUp'
        PROVE  /\ (\A u \in Updaters : updating'[u].job # i) => IsDrawn(sjobs'[i], sjobs'[i].drawnUntil)
               /\ \A u \in Updaters : updating'[u].job = i =>
                     /\ IsDrawn(sjobs'[i], updating'[u].planned)
                     /\ \A other \in Updaters : updating'[other].job = i => other = u
    <3>1. CASE i = n
      BY <1>2, <1>5, <1>7, <2>1, <3>1
    <3>2. CASE i # n
      <4>1. i \in DOMAIN sjobs \ mixedUp /\ sjobs'[i] = sjobs[i]
        BY <1>1, <1>2, <1>7, <3>2
      <4> QED
        BY <1>2, <4>1 DEF GrapherInv, JobsAreDrawn
    <3> QED
      BY <3>1, <3>2
  <2> QED
    BY <2>2 DEF JobsAreDrawn, IsDrawn
<1> QED
  BY <1>2, <1>9, <1>10 DEF GrapherInv, IsWhole

LEMMA BeginUpdateKeepsGrapherInv ==
    ASSUME GrapherInv, NEW u \in Updaters, NEW delay \in 0..MaxDelay, BeginUpdate(u, graphTime - delay)
    PROVE  GrapherInv'
<1> DEFINE planned == graphTime - delay
           job == sjobs[inJobs]
           to == [job EXCEPT !.window = WindowOf(planned),
                             !.image = Draw(job.image, WindowOf(planned), job.drawnUntil, planned)]
<1>1. /\ inJobs # NoJob /\ updating[u].job = NoJob /\ planned >= 0
      /\ sjobs' = [sjobs EXCEPT ![inJobs] = to]
      /\ updating' = [updating EXCEPT ![u] = [job |-> inJobs, planned |-> planned]]
      /\ UNCHANGED <<graphTime, inJobs, rendering, files>>
  BY DEF BeginUpdate
<1>2. mixedUp' = IF \/ \E other \in Updaters : updating[other].job = inJobs
                    \/ planned < job.drawnUntil
                 THEN mixedUp \union {inJobs} ELSE mixedUp
  BY DEF BeginUpdate
<1>3. /\ graphTime \in Nat /\ planned \in Nat /\ planned <= graphTime
      /\ sjobs \in Seq(SJobRecords) /\ inJobs \in DOMAIN sjobs /\ inJobs \in Nat /\ job \in SJobRecords
  BY <1>1 DEF GrapherInv, GrapherTypes, MaxDelay, NoJob
<1> HIDE DEF planned
<1>4. /\ to \in SJobRecords
      /\ IsDrawn(job, job.drawnUntil) /\ job.drawnUntil <= planned => IsDrawn(to, planned)
  BY <1>3, DrawGoesOn
<1> HIDE DEF to
<1>5. /\ sjobs' \in Seq(SJobRecords) /\ Len(sjobs') = Len(sjobs) /\ DOMAIN sjobs' = DOMAIN sjobs
      /\ sjobs'[inJobs] = to /\ \A i \in DOMAIN sjobs \ {inJobs} : sjobs'[i] = sjobs[i]
  BY <1>1, <1>3, <1>4
<1>6. [job |-> inJobs, planned |-> planned] \in UpdateRecords
  BY <1>3 DEF UpdateRecords
<1>7. /\ updating' \in [Updaters -> UpdateRecords]
      /\ updating'[u].job = inJobs /\ updating'[u].planned = planned
      /\ \A other \in Updaters \ {u} : updating'[other] = updating[other]
  BY <1>1, <1>6 DEF GrapherInv, GrapherTypes
<1>8. GrapherTypes'
  BY <1>1, <1>3, <1>5, <1>7 DEF GrapherInv, GrapherTypes
<1>9. JobsAreDrawn'
  <2>1. ASSUME NEW i \in DOMAIN sjobs \ mixedUp'
        PROVE  /\ (\A other \in Updaters : updating'[other].job # i) => IsDrawn(sjobs'[i], sjobs'[i].drawnUntil)
               /\ \A other \in Updaters : updating'[other].job = i =>
                     /\ IsDrawn(sjobs'[i], updating'[other].planned)
                     /\ \A o \in Updaters : updating'[o].job = i => o = other
    <3>0. i \in DOMAIN sjobs \ mixedUp
      BY <1>2
    <3>1. CASE i = inJobs
      <4>1. (\A other \in Updaters : updating[other].job # i) /\ ~(planned < job.drawnUntil)
        BY <1>2, <3>1
      <4>2. IsDrawn(job, job.drawnUntil)
        BY <3>0, <3>1, <4>1 DEF GrapherInv, JobsAreDrawn
      <4>3. job.drawnUntil <= planned
        BY <1>3, <4>1 DEF SJobRecords
      <4>4. IsDrawn(sjobs'[i], planned)
        BY <1>4, <1>5, <3>1, <4>2, <4>3
      <4> QED
        BY <1>7, <3>1, <4>1, <4>4
    <3>2. CASE i # inJobs
      <4>1. sjobs'[i] = sjobs[i]
        BY <1>5, <3>2
      <4>2. \A other \in Updaters : updating'[other].job = i <=> updating[other].job = i
        BY <1>1, <1>3, <1>7, <3>2, <3>0 DEF NoJob
      <4>3. \A other \in Updaters : updating'[other].job = i => updating'[other] = updating[other]
        BY <1>7, <3>2
      <4> QED
        BY <3>0, <4>1, <4>2, <4>3 DEF GrapherInv, JobsAreDrawn
    <3> QED
      BY <3>1, <3>2
  <2> QED
    BY <1>5, <2>1 DEF JobsAreDrawn, IsDrawn
<1> QED
  BY <1>1, <1>8, <1>9 DEF GrapherInv, IsWhole

LEMMA EndUpdateKeepsGrapherInv ==
    ASSUME GrapherInv, NEW u \in Updaters, EndUpdate(u) PROVE GrapherInv'
<1> DEFINE up == updating[u]
           job == sjobs[up.job]
           to == [job EXCEPT !.drawnUntil = up.planned]
           drawn == File(job.image, graphTime, FALSE)
<1>1. /\ up.job # NoJob
      /\ files' = [files EXCEPT ![job.window] = drawn]
      /\ sjobs' = [sjobs EXCEPT ![up.job].drawnUntil = up.planned]
      /\ inJobs' = up.job
      /\ updating' = [updating EXCEPT ![u].job = NoJob]
      /\ UNCHANGED <<graphTime, mixedUp, rendering>>
  BY DEF EndUpdate
<1>2. /\ graphTime \in Nat /\ up \in UpdateRecords /\ sjobs \in Seq(SJobRecords) /\ up.job \in DOMAIN sjobs
      /\ job \in SJobRecords
  BY <1>1 DEF GrapherInv, GrapherTypes
<1>3. up.job \in Nat /\ up.planned \in Nat
  BY <1>2 DEF UpdateRecords
<1>4. to \in SJobRecords /\ to.drawnUntil = up.planned /\ to.window = job.window /\ to.image = job.image
  <2> HIDE DEF job, up
  <2> QED
    BY <1>2, <1>3 DEF SJobRecords
<1>5. sjobs' = [sjobs EXCEPT ![up.job] = to]
  BY <1>1
<1>6. [up EXCEPT !.job = NoJob] \in UpdateRecords /\ [up EXCEPT !.job = NoJob].job = NoJob
  <2> HIDE DEF up
  <2> QED
    BY <1>2, <1>3 DEF UpdateRecords, NoJob
<1>7. updating' = [updating EXCEPT ![u] = [up EXCEPT !.job = NoJob]]
  BY <1>1
<1>8. drawn \in FileRecords /\ drawn.after = FALSE
  BY <1>2 DEF File, FileRecords, SJobRecords
<1> HIDE DEF to, drawn
<1>9. /\ sjobs' \in Seq(SJobRecords) /\ Len(sjobs') = Len(sjobs) /\ DOMAIN sjobs' = DOMAIN sjobs
      /\ sjobs'[up.job] = to /\ \A i \in DOMAIN sjobs \ {up.job} : sjobs'[i] = sjobs[i]
  BY <1>2, <1>4, <1>5
<1>10. /\ updating' \in [Updaters -> UpdateRecords]
       /\ updating'[u].job = NoJob
       /\ \A other \in Updaters \ {u} : updating'[other] = updating[other]
  BY <1>6, <1>7 DEF GrapherInv, GrapherTypes
<1>11. /\ files' \in [Windows -> FileRecords]
       /\ \A win \in Windows : files'[win].after => IsWhole(win, files'[win].columns)
  <2>1. \A win \in Windows : files'[win] = files[win] \/ files'[win] = drawn
    BY <1>1 DEF GrapherInv, GrapherTypes
  <2>2. files' = [win \in Windows |-> files'[win]]
    BY <1>1 DEF GrapherInv, GrapherTypes
  <2>3. \A win \in Windows : files'[win] \in FileRecords
    BY <1>8, <2>1 DEF GrapherInv, GrapherTypes
  <2>4. files' \in [Windows -> FileRecords]
    BY <2>2, <2>3
  <2> QED
    BY <1>8, <2>1, <2>4 DEF GrapherInv
<1>12. GrapherTypes'
  <2>1. inJobs' \in 0..Len(sjobs')
    BY <1>1, <1>2, <1>9
  <2> QED
    BY <1>1, <1>9, <1>10, <1>11, <2>1 DEF GrapherInv, GrapherTypes
<1>13. JobsAreDrawn'
  <2>1. ASSUME NEW i \in DOMAIN sjobs \ mixedUp
        PROVE  /\ (\A other \in Updaters : updating'[other].job # i) => IsDrawn(sjobs'[i], sjobs'[i].drawnUntil)
               /\ \A other \in Updaters : updating'[other].job = i =>
                     /\ IsDrawn(sjobs'[i], updating'[other].planned)
                     /\ \A o \in Updaters : updating'[o].job = i => o = other
    <3>1. i \in Nat \ {0}
      BY <1>2
    <3>2. CASE i = up.job
      <4>1. IsDrawn(job, up.planned) /\ \A other \in Updaters \ {u} : updating[other].job # i
        BY <2>1, <3>2 DEF GrapherInv, JobsAreDrawn
      <4>2. IsDrawn(to, to.drawnUntil)
        BY <1>4, <4>1 DEF IsDrawn
      <4> QED
        BY <1>9, <1>10, <3>1, <3>2, <4>1, <4>2 DEF NoJob
    <3>3. CASE i # up.job
      <4>1. sjobs'[i] = sjobs[i]
        BY <1>9, <2>1, <3>3
      <4>2. \A other \in Updaters : updating'[other].job = i <=> updating[other].job = i
        BY <1>10, <3>1, <3>3 DEF NoJob
      <4>3. \A other \in Updaters : updating'[other].job = i => updating'[other] = updating[other]
        BY <1>10, <3>1 DEF NoJob
      <4> QED
        BY <2>1, <4>1, <4>2, <4>3 DEF GrapherInv, JobsAreDrawn
    <3> QED
      BY <3>2, <3>3
  <2> QED
    BY <1>1, <1>9, <2>1 DEF JobsAreDrawn, IsDrawn
<1> QED
  BY <1>1, <1>11, <1>12, <1>13 DEF GrapherInv, IsWhole

LEMMA RenderKeepsGrapherInv ==
    ASSUME GrapherInv, NEW win \in AskedFor, BeginRender(win) \/ EndRender(win) PROVE GrapherInv'
<1>1. CASE BeginRender(win)
  <2>1. /\ rendering' = [rendering EXCEPT ![win] = graphTime]
        /\ UNCHANGED <<graphTime, sjobs, inJobs, updating, mixedUp, files>>
    BY <1>1 DEF BeginRender
  <2>2. rendering' \in [AskedFor -> Nat] /\ graphTime \in Nat
    BY <2>1 DEF GrapherInv, GrapherTypes
  <2> QED
    BY <2>1, <2>2, ElsewhereKeepsGrapherInv DEF GrapherInv, GrapherTypes
<1>2. CASE EndRender(win)
  <2> DEFINE drawn == File(Rendered(win), graphTime, rendering[win] >= WindowEnd(win))
  <2>1. /\ files' = [files EXCEPT ![win] = drawn]
        /\ rendering' = [rendering EXCEPT ![win] = Never]
        /\ UNCHANGED <<graphTime, sjobs, inJobs, updating, mixedUp>>
    BY <1>2 DEF EndRender
  <2>2. win \in Windows /\ win \in Nat /\ rendering[win] \in Nat /\ graphTime \in Nat
    BY DEF AskedFor, Windows, GrapherInv, GrapherTypes
  <2>3. WindowStart(win) = 2 * win /\ WindowEnd(win) = 2 * win + 2
    BY <2>2, WindowsAreColumns
  <2>4. \A x \in Columns : Rendered(win)[x] = IF 2 * win + x < rendering[win] THEN 2 * win + x ELSE Blank
    BY <2>3 DEF Rendered
  <2>5. Rendered(win) \in Images
    BY <2>2, <2>3 DEF Rendered, Images, Columns, Blank
  <2>6. rendering[win] >= WindowEnd(win) => IsWhole(win, Rendered(win))
    BY <2>2, <2>3, <2>4 DEF IsWhole, Columns
  <2>7. (rendering[win] >= WindowEnd(win)) \in BOOLEAN
    BY <2>2, <2>3
  <2>8. drawn \in FileRecords /\ drawn.columns = Rendered(win) /\ drawn.after = (rendering[win] >= WindowEnd(win))
    BY <2>2, <2>5, <2>7, Zenon DEF File, FileRecords
  <2> HIDE DEF drawn
  <2>9. /\ files' \in [Windows -> FileRecords] /\ files'[win] = drawn
        /\ \A x \in Windows \ {win} : files'[x] = files[x]
    BY <2>1, <2>2, <2>8 DEF GrapherInv, GrapherTypes
  <2>10. \A x \in Windows : files'[x].after => IsWhole(x, files'[x].columns)
    BY <2>6, <2>8, <2>9 DEF GrapherInv
  <2>11. rendering' \in [AskedFor -> Nat]
    BY <2>1 DEF GrapherInv, GrapherTypes, Never
  <2> QED
    BY <2>1, <2>2, <2>9, <2>10, <2>11, ElsewhereKeepsGrapherInv DEF GrapherInv, GrapherTypes
<1> QED
  BY <1>1, <1>2

LEMMA GrapherInvStep == GrapherInv /\ [GrapherNext]_grapherVars => GrapherInv'
<1> SUFFICES ASSUME GrapherInv, [GrapherNext]_grapherVars PROVE GrapherInv'
  OBVIOUS
<1>1. CASE RemoveJob \/ GraphTick \/ UNCHANGED grapherVars
  <2>1. graphTime \in Nat /\ Len(sjobs) \in Nat /\ inJobs \in 0..Len(sjobs)
    BY DEF GrapherInv, GrapherTypes
  <2>2. /\ UNCHANGED <<sjobs, updating, mixedUp, rendering, files>>
        /\ graphTime' \in Nat /\ graphTime <= graphTime' /\ inJobs' \in 0..Len(sjobs)
    BY <1>1, <2>1 DEF RemoveJob, GraphTick, grapherVars, NoJob
  <2>3. /\ rendering' \in [AskedFor -> Nat] /\ files' \in [Windows -> FileRecords]
        /\ \A win \in Windows : files'[win].after => IsWhole(win, files'[win].columns)
    BY <2>2 DEF GrapherInv, GrapherTypes
  <2> QED
    BY <2>2, <2>3, ElsewhereKeepsGrapherInv
<1> QED
  BY <1>1, AddJobKeepsGrapherInv, BeginUpdateKeepsGrapherInv, EndUpdateKeepsGrapherInv, RenderKeepsGrapherInv
     DEF GrapherNext

------------------------------------------------------------------------------
(* KeyValueStore *)

Stored == KeyedValues \cup {Absent}

StoreInv ==
    /\ raw \in [RawKeys -> Stored] /\ ownItems \in [StoreUsers -> Stored]
    /\ UsersAreApart

\* A user's key is in the raw store with that user's postfix, and no other's or none.
LEMMA KeysAreApart ==
    ASSUME NEW u \in StoreUsers
    PROVE  /\ postfixKey(u, <<>>) = <<u>> /\ postfixKey(u, <<u>>) = <<u, u>>
           /\ <<>> \in RawKeys /\ <<u>> \in RawKeys /\ <<u, u>> \in RawKeys
           /\ <<u>> # <<>> /\ <<u>>[1] = u /\ \A o : <<u>> # <<o, o>>
<1>1. postfixKey(u, <<>>) = <<u>> /\ postfixKey(u, <<u>>) = <<u, u>>
  <2>1. Append(<<>>, u) = <<u>>
    <3>1. <<>> \in Seq({u}) /\ <<u>> \in Seq({u}) /\ Len(<<u>>) = 1 /\ Len(<<>>) = 0
      OBVIOUS
    <3>2. Append(<<>>, u) \in Seq({u}) /\ Len(Append(<<>>, u)) = 1 /\ Append(<<>>, u)[1] = u
      BY <3>1, AppendProperties
    <3> QED
      BY <3>1, <3>2, SeqEqual
  <2>2. Append(<<u>>, u) = <<u, u>>
    <3>1. <<u, u>> \in Seq({u}) /\ <<u>> \in Seq({u}) /\ Len(<<u>>) = 1 /\ Len(<<u, u>>) = 2
      OBVIOUS
    <3>2. /\ Append(<<u>>, u) \in Seq({u}) /\ Len(Append(<<u>>, u)) = 2
          /\ Append(<<u>>, u)[1] = u /\ Append(<<u>>, u)[2] = u
      BY <3>1, AppendProperties
    <3>3. \A i \in 1..2 : Append(<<u>>, u)[i] = <<u, u>>[i]
      <4>1. \A i \in 1..2 : i = 1 \/ i = 2
        OBVIOUS
      <4>2. <<u, u>>[1] = u /\ <<u, u>>[2] = u
        OBVIOUS
      <4> QED
        BY <3>2, <4>1, <4>2
    <3> QED
      BY <3>1, <3>2, <3>3, SeqEqual
  <2> QED
    BY <2>1, <2>2 DEF postfixKey
<1>2. <<>> \in RawKeys /\ <<u>> \in RawKeys /\ <<u, u>> \in RawKeys
  BY DEF RawKeys
<1>3. <<u>> # <<>> /\ <<u>>[1] = u /\ \A o : <<u>> # <<o, o>>
  <2>1. Len(<<u>>) = 1 /\ Len(<<>>) = 0 /\ \A o : Len(<<o, o>>) = 2
    OBVIOUS
  <2>2. <<u>> # <<>> /\ \A o : <<u>> # <<o, o>>
    BY <2>1
  <2> QED
    BY <2>2
<1> QED
  BY <1>1, <1>2, <1>3

LEMMA StoreInvInit == StoreInit => StoreInv
<1> SUFFICES ASSUME StoreInit PROVE StoreInv
  OBVIOUS
<1>1. raw \in [RawKeys -> Stored] /\ ownItems \in [StoreUsers -> Stored]
  BY DEF StoreInit, Stored
<1>2. \A u \in StoreUsers : GetItem(u) = ownItems[u]
  <2> TAKE u \in StoreUsers
  <2>1. GetItem(u) = raw[<<u>>] /\ <<u>> \in RawKeys
    BY KeysAreApart DEF GetItem
  <2> QED
    BY <2>1 DEF StoreInit
<1> QED
  BY <1>1, <1>2 DEF StoreInv, UsersAreApart

LEMMA StoreInvStep == StoreInv /\ [StoreNext]_storeVars => StoreInv'
<1> SUFFICES ASSUME StoreInv, [StoreNext]_storeVars PROVE StoreInv'
  OBVIOUS
<1>1. ASSUME NEW u \in StoreUsers, NEW val \in KeyedValues, SetKey(u, val) PROVE StoreInv'
  <2>1. raw' = [raw EXCEPT ![<<u>>] = val] /\ ownItems' = [ownItems EXCEPT ![u] = val]
    BY <1>1, KeysAreApart DEF SetKey
  <2>2. raw' \in [RawKeys -> Stored] /\ ownItems' \in [StoreUsers -> Stored]
    BY <2>1 DEF StoreInv, Stored
  <2>3. \A o \in StoreUsers : raw[<<o>>] = ownItems[o] /\ <<o>> \in RawKeys
    BY KeysAreApart DEF StoreInv, UsersAreApart, GetItem
  <2>4. \A o \in StoreUsers : <<o>> = <<u>> => o = u
    OBVIOUS
  <2>5. \A o \in StoreUsers : raw'[<<o>>] = ownItems'[o]
    BY <2>1, <2>3, <2>4 DEF StoreInv
  <2>6. \A o \in StoreUsers : GetItem(o)' = raw'[<<o>>]
    BY KeysAreApart DEF GetItem
  <2> QED
    BY <2>2, <2>5, <2>6 DEF StoreInv, UsersAreApart
<1>2. ASSUME NEW u \in StoreUsers, NEW val \in KeyedValues, SetTime(u, val) PROVE StoreInv'
  <2>1. raw' = [raw EXCEPT ![<<u, u>>] = val] /\ ownItems' = ownItems
    BY <1>2, KeysAreApart DEF SetTime
  <2>2. raw' \in [RawKeys -> Stored]
    BY <2>1 DEF StoreInv, Stored
  <2>3. \A o \in StoreUsers : raw'[<<o>>] = raw[<<o>>]
    BY <2>1, KeysAreApart DEF StoreInv
  <2>4. \A o \in StoreUsers : GetItem(o)' = raw'[<<o>>] /\ GetItem(o) = raw[<<o>>]
    BY KeysAreApart DEF GetItem
  <2>5. UsersAreApart'
    BY <2>1, <2>3, <2>4 DEF StoreInv, UsersAreApart
  <2> QED
    BY <2>1, <2>2, <2>5 DEF StoreInv
<1>3. ASSUME NEW u \in StoreUsers, RemoveForKey(u) PROVE StoreInv'
  <2>1. raw' = [raw EXCEPT ![<<>>] = Absent] /\ ownItems' = ownItems
    BY <1>3 DEF RemoveForKey
  <2>2. raw' \in [RawKeys -> Stored]
    BY <2>1 DEF StoreInv, Stored
  <2>3. \A o \in StoreUsers : raw'[<<o>>] = raw[<<o>>]
    BY <2>1, KeysAreApart DEF StoreInv
  <2>4. \A o \in StoreUsers : GetItem(o)' = raw'[<<o>>] /\ GetItem(o) = raw[<<o>>]
    BY KeysAreApart DEF GetItem
  <2>5. UsersAreApart'
    BY <2>1, <2>3, <2>4 DEF StoreInv, UsersAreApart
  <2> QED
    BY <2>1, <2>2, <2>5 DEF StoreInv
<1>4. ASSUME NEW u \in StoreUsers, GetAllForPrefix(u) PROVE StoreInv'
  BY <1>4 DEF GetAllForPrefix, StoreInv, UsersAreApart, GetItem
<1>5. CASE UNCHANGED storeVars
  BY <1>5 DEF storeVars, StoreInv, UsersAreApart, GetItem
<1> QED
  BY <1>1, <1>2, <1>3, <1>4, <1>5 DEF StoreNext

------------------------------------------------------------------------------
(* Option: an item of the store that goroutines get, set and save *)

WorkPhases == {"nothing", "gets", "compares", "storesItem", "stores", "savesItem", "saves", "savesLast"}
WorkRecords == [at : WorkPhases, value : Stored, remote : BOOLEAN]
OptionRecords == [value : Stored, gotten : BOOLEAN]

OptionTypes ==
    /\ dict \in Stored /\ storeFile \in Stored
    /\ option \in OptionRecords
    /\ working \in [OptionUsers -> WorkRecords]
    /\ together \in BOOLEAN /\ unsaved \in BOOLEAN
    /\ \A r \in requests : r.value \in Stored

\* What the store has and the file has not, someone is to save.
SaveIsToCome ==
    storeFile = dict \/ \E p \in OptionUsers : working[p].at \in {"saves", "savesItem"}

GottenIsStored == option.gotten /\ dict # Absent => option.value = dict

\* How far a goroutine that is alone at work has come.
IsOnItsWay(p) ==
    LET t == working[p] IN
    /\ t.at = "gets" => t.value = dict
    /\ t.at = "storesItem" => t.remote /\ GottenIsStored
    /\ t.at = "compares" => (t.remote /\ t.value = dict) \/ (~t.remote /\ GottenIsStored)
    /\ t.at = "savesItem" => t.remote /\ t.value = dict
    /\ t.at = "stores" => option.value = t.value
    /\ t.at \in {"saves", "savesLast"} => option.value = t.value /\ t.value = dict

OneComesAtATime ==
    /\ \A p, q \in OptionUsers : working[p] # AtRest /\ working[q] # AtRest => p = q
    /\ \A p \in OptionUsers : IsOnItsWay(p)
    /\ AllAtRest => GottenIsStored

OptionInv ==
    /\ OptionTypes
    /\ ~unsaved => SaveIsToCome
    /\ ~together => OneComesAtATime

\* A goroutine at rest does nothing.
LEMMA RestIsWork == AtRest \in WorkRecords /\ AtRest.at = "nothing"
  BY DEF AtRest, Work, WorkRecords, WorkPhases, Stored

\* What a goroutine is at work on has the fields it was given.
LEMMA WorkIsRecord ==
    ASSUME NEW at \in WorkPhases, NEW val \in Stored, NEW remote \in BOOLEAN
    PROVE  /\ Work(at, val, remote) \in WorkRecords
           /\ Work(at, val, remote).at = at /\ Work(at, val, remote).value = val
           /\ Work(at, val, remote).remote = remote
  BY DEF Work, WorkRecords

\* The default is a value that can be stored.
LEMMA DefaultIsStored == DefaultValue \in Stored
  BY KeyValueAssumption DEF DefaultValue, Stored

\* An Option has the value it was given.
LEMMA OptionIsRecord ==
    ASSUME NEW val \in Stored, NEW gotten \in BOOLEAN
    PROVE  /\ Option(val, gotten) \in OptionRecords
           /\ Option(val, gotten).value = val /\ Option(val, gotten).gotten = gotten
  BY DEF Option, OptionRecords

LEMMA OptionInvInit == OptionInit => OptionInv
<1> SUFFICES ASSUME OptionInit PROVE OptionInv
  OBVIOUS
<1>1. together \in BOOLEAN /\ unsaved \in BOOLEAN
  BY Zenon DEF OptionInit
<1>2. /\ dict = Absent /\ storeFile = Absent /\ \A p \in OptionUsers : working[p] = AtRest
      /\ working \in [OptionUsers -> WorkRecords]
  BY RestIsWork DEF OptionInit
<1>3. FALSE \in BOOLEAN
  OBVIOUS
<1>4. option \in OptionRecords
  BY <1>3, DefaultIsStored, OptionIsRecord, Zenon DEF OptionInit
<1>5. OptionTypes /\ SaveIsToCome
  BY <1>1, <1>2, <1>4 DEF OptionInit, OptionTypes, Stored, SaveIsToCome
<1>6. OneComesAtATime
  BY <1>2, RestIsWork DEF OneComesAtATime, IsOnItsWay, GottenIsStored
<1> QED
  BY <1>5, <1>6 DEF OptionInv

\* KeyValuesAreKept follows.
LEMMA KeyValuesGive == StoreInv /\ OptionInv => KeyValuesAreKept
<1> SUFFICES ASSUME StoreInv, OptionInv PROVE KeyValuesAreKept
  OBVIOUS
<1>1. UsersAreApart
  BY DEF StoreInv
<1>2. OptionIsStored
  BY DEF OptionInv, OneComesAtATime, GottenIsStored, OptionIsStored
<1>3. StoreIsSaved
  BY RestIsWork DEF OptionInv, SaveIsToCome, StoreIsSaved, AllAtRest
<1> QED
  BY <1>1, <1>2, <1>3 DEF KeyValuesAreKept

\* A goroutine that is at work goes on, or ends: of the others nothing is said that it disturbs.
LEMMA WorkerKeepsOptionInv ==
    ASSUME OptionInv, OptionTypes', NEW p \in OptionUsers,
           \A q \in OptionUsers \ {p} : working'[q] = working[q],
           ~unsaved' => SaveIsToCome',
           ~together' => /\ ~together
                         /\ \A q \in OptionUsers \ {p} : working[q] = AtRest,
           OneComesAtATime => IsOnItsWay(p)' /\ (working'[p] = AtRest => GottenIsStored')
    PROVE  OptionInv'
<1>1. ASSUME ~together' PROVE OneComesAtATime'
  <2>1. OneComesAtATime
    BY <1>1 DEF OptionInv
  <2>2. \A q \in OptionUsers \ {p} : working'[q] = AtRest
    BY <1>1
  <2>3. \A q \in OptionUsers \ {p} : IsOnItsWay(q)'
    BY <2>2, RestIsWork DEF IsOnItsWay
  <2>4. \A q, r \in OptionUsers : working'[q] # AtRest /\ working'[r] # AtRest => q = r
    BY <2>2
  <2>5. AllAtRest' => GottenIsStored'
    BY <2>1 DEF AllAtRest
  <2>6. AtRest' = AtRest
    BY DEF AtRest, Work
  <2> QED
    BY <2>1, <2>3, <2>4, <2>5 DEF OneComesAtATime
<1> QED
  BY <1>1 DEF OptionInv

\* While no two goroutines have met, one that is at work is the only one.
LEMMA AtWorkIsAlone ==
    ASSUME OptionInv, NEW p \in OptionUsers, working[p].at # "nothing", ~together
    PROVE  \A q \in OptionUsers \ {p} : working[q] = AtRest
  BY RestIsWork DEF OptionInv, OneComesAtATime

\* A goroutine begins: it has read what the store has, or comes with a value.
LEMMA BeginKeepsOptionInv ==
    ASSUME OptionInv, NEW p \in OptionUsers, NEW t \in WorkRecords,
           working[p] = AtRest, working' = [working EXCEPT ![p] = t],
           UNCHANGED <<dict, storeFile, option, unsaved>>,
           together' = TRUE \/ together' = FALSE,
           ~together' => ~together /\ \A q \in OptionUsers \ {p} : working[q] = AtRest,
           \A r \in requests' : r.value \in Stored,
           \/ t.at = "gets" /\ t.value = dict
           \/ t.at = "compares" /\ ~t.remote
           \/ t.at = "storesItem" /\ t.remote
    PROVE  OptionInv'
<1>1. /\ working' \in [OptionUsers -> WorkRecords] /\ working'[p] = t
      /\ \A q \in OptionUsers \ {p} : working'[q] = working[q]
  BY DEF OptionInv, OptionTypes
<1>2. together' \in BOOLEAN
  BY Zenon
<1>3. OptionTypes'
  BY <1>1, <1>2 DEF OptionInv, OptionTypes
<1>4. ~unsaved' => SaveIsToCome'
  BY <1>1, RestIsWork DEF OptionInv, SaveIsToCome
<1>5. ~together' => OneComesAtATime'
  <2> SUFFICES ASSUME ~together' PROVE OneComesAtATime'
    OBVIOUS
  <2>1. AllAtRest /\ OneComesAtATime
    BY DEF OptionInv, AllAtRest
  <2>2. GottenIsStored'
    BY <2>1 DEF OneComesAtATime, GottenIsStored
  <2>3. IsOnItsWay(p)'
    BY <1>1, <2>2 DEF IsOnItsWay
  <2>4. \A q \in OptionUsers \ {p} : working'[q] = AtRest
    BY <1>1, <2>1 DEF AllAtRest
  <2>5. \A q \in OptionUsers : IsOnItsWay(q)'
    BY <2>3, <2>4, RestIsWork DEF IsOnItsWay
  <2>6. \A q, r \in OptionUsers : working'[q] # AtRest /\ working'[r] # AtRest => q = r
    BY <2>4
  <2> QED
    BY <2>2, <2>5, <2>6 DEF OneComesAtATime
<1> QED
  BY <1>3, <1>4, <1>5 DEF OptionInv

LEMMA BeginningsKeepOptionInv ==
    ASSUME OptionInv, NEW p \in OptionUsers,
           BeginGetOption(p) \/ (\E val \in KeyedValues : CallSet(p, val)) \/ SetItem(p)
    PROVE  OptionInv'
<1> USE DEF WorkPhases
<1>1. CASE BeginGetOption(p)
  <2> DEFINE t == Work("gets", dict, FALSE)
  <2>1. /\ working[p] = AtRest /\ working' = [working EXCEPT ![p] = t]
        /\ UNCHANGED <<dict, storeFile, option, unsaved, requests>>
    BY <1>1 DEF BeginGetOption, Begins
  <2>2. together' = (together \/ \E q \in OptionUsers \ {p} : working[q] # AtRest)
    BY <1>1 DEF BeginGetOption, Begins
  <2>3. together' = TRUE \/ together' = FALSE
    BY <2>2, Zenon
  <2>4. "gets" \in WorkPhases /\ FALSE \in BOOLEAN /\ dict \in Stored
    BY DEF OptionInv, OptionTypes
  <2>5. t \in WorkRecords /\ t.at = "gets" /\ t.value = dict
    BY <2>4 DEF Work, WorkRecords
  <2>6. \A r \in requests' : r.value \in Stored
    BY <2>1 DEF OptionInv, OptionTypes
  <2> HIDE DEF t
  <2> QED
    BY <2>1, <2>2, <2>3, <2>5, <2>6, BeginKeepsOptionInv
<1>2. ASSUME NEW val \in KeyedValues, CallSet(p, val) PROVE OptionInv'
  <2> DEFINE t == Work("compares", val, FALSE)
  <2>1. /\ working[p] = AtRest /\ working' = [working EXCEPT ![p] = t]
        /\ UNCHANGED <<dict, storeFile, option, unsaved, requests>>
    BY <1>2 DEF CallSet, Begins
  <2>2. together' = (together \/ \E q \in OptionUsers \ {p} : working[q] # AtRest)
    BY <1>2 DEF CallSet, Begins
  <2>3. together' = TRUE \/ together' = FALSE
    BY <2>2, Zenon
  <2>4. "compares" \in WorkPhases /\ FALSE \in BOOLEAN /\ val \in Stored
    BY DEF Stored
  <2>5. t \in WorkRecords /\ t.at = "compares" /\ t.remote = FALSE
    BY <2>4 DEF Work, WorkRecords
  <2>6. \A r \in requests' : r.value \in Stored
    BY <2>1 DEF OptionInv, OptionTypes
  <2> HIDE DEF t
  <2>7. ~t.remote
    BY <2>5
  <2> QED
    BY <2>1, <2>2, <2>3, <2>5, <2>6, <2>7, BeginKeepsOptionInv
<1>3. CASE SetItem(p)
  <2>1. PICK r \in requests :
          /\ requests' = requests \ {r}
          /\ working' = [working EXCEPT ![p] = Work("storesItem", r.value, TRUE)]
          /\ together' = \/ together \/ requests' # {}
                         \/ \E q \in OptionUsers \ {p} : working[q] # AtRest
    BY <1>3 DEF SetItem
  <2> DEFINE t == Work("storesItem", r.value, TRUE)
  <2>2. working[p] = AtRest /\ UNCHANGED <<dict, storeFile, option, unsaved>>
    BY <1>3 DEF SetItem
  <2>3. together' = TRUE \/ together' = FALSE
    BY <2>1, Zenon
  <2>4. "storesItem" \in WorkPhases /\ TRUE \in BOOLEAN /\ r.value \in Stored
    BY DEF OptionInv, OptionTypes
  <2>5. t \in WorkRecords /\ t.at = "storesItem" /\ t.remote = TRUE
    BY <2>4 DEF Work, WorkRecords
  <2>6. \A o \in requests' : o.value \in Stored
    BY <2>1 DEF OptionInv, OptionTypes
  <2>7. working' = [working EXCEPT ![p] = t]
    BY <2>1
  <2>8. ~together' => ~together /\ \A q \in OptionUsers \ {p} : working[q] = AtRest
    BY <2>1
  <2> HIDE DEF t
  <2>9. t.remote
    BY <2>5
  <2> QED
    BY <2>2, <2>3, <2>5, <2>6, <2>7, <2>8, <2>9, BeginKeepsOptionInv
<1> QED
  BY <1>1, <1>2, <1>3

LEMMA EndGetKeepsOptionInv ==
    ASSUME OptionInv, NEW p \in OptionUsers, EndGetOption(p) PROVE OptionInv'
<1> DEFINE val == IF working[p].value = Absent THEN option.value ELSE working[p].value
<1>1. /\ working[p].at = "gets" /\ option' = Option(val, TRUE)
      /\ working' = [working EXCEPT ![p] = AtRest]
      /\ UNCHANGED <<dict, storeFile, requests, together, unsaved>>
  BY DEF EndGetOption, IsAt, EndsWork
<1>2. val \in Stored
  BY DEF OptionInv, OptionTypes, WorkRecords, OptionRecords
<1>3. option' \in OptionRecords /\ option'.value = val
  BY <1>1, <1>2, OptionIsRecord
<1>4. /\ working' \in [OptionUsers -> WorkRecords] /\ working'[p] = AtRest
      /\ \A q \in OptionUsers \ {p} : working'[q] = working[q]
  BY <1>1, RestIsWork DEF OptionInv, OptionTypes
<1>5. OptionTypes'
  BY <1>1, <1>3, <1>4 DEF OptionInv, OptionTypes
<1>6. ~unsaved' => SaveIsToCome'
  BY <1>1, <1>4 DEF OptionInv, SaveIsToCome
<1>7. OneComesAtATime => GottenIsStored'
  <2> SUFFICES ASSUME OneComesAtATime, dict # Absent PROVE option'.value = dict
    BY <1>1 DEF GottenIsStored
  <2>1. working[p].value = dict
    BY <1>1 DEF OneComesAtATime, IsOnItsWay
  <2> QED
    BY <1>3, <2>1
<1>8. IsOnItsWay(p)'
  BY <1>4, RestIsWork DEF IsOnItsWay
<1>9. ~together' => ~together /\ \A q \in OptionUsers \ {p} : working[q] = AtRest
  BY <1>1, AtWorkIsAlone
<1> QED
  BY <1>4, <1>5, <1>6, <1>7, <1>8, <1>9, WorkerKeepsOptionInv

\* The next phase of a goroutine's work.
LEMMA GoesIsRecord ==
    ASSUME NEW p \in OptionUsers, NEW at \in WorkPhases, working \in [OptionUsers -> WorkRecords], Goes(p, at)
    PROVE  /\ working' \in [OptionUsers -> WorkRecords]
           /\ working'[p].at = at /\ working'[p].value = working[p].value
           /\ working'[p].remote = working[p].remote
           /\ \A q \in OptionUsers \ {p} : working'[q] = working[q]
<1>1. working' = [working EXCEPT ![p].at = at]
  BY DEF Goes
<1>2. working[p] \in WorkRecords
  OBVIOUS
<1>3. \A t \in WorkRecords : /\ [t EXCEPT !.at = at] \in WorkRecords
                             /\ [t EXCEPT !.at = at].at = at /\ [t EXCEPT !.at = at].value = t.value
                             /\ [t EXCEPT !.at = at].remote = t.remote
  BY DEF WorkRecords
<1>4. working' = [working EXCEPT ![p] = [working[p] EXCEPT !.at = at]]
  BY <1>1
<1> HIDE DEF WorkRecords
<1> QED
  BY <1>2, <1>3, <1>4

LEMMA SetOptionKeepsOptionInv ==
    ASSUME OptionInv, NEW p \in OptionUsers, SetOption(p) PROVE OptionInv'
<1> DEFINE t == working[p]
<1>1. /\ t.at = "compares" /\ option' = [option EXCEPT !.value = t.value]
      /\ UNCHANGED <<dict, storeFile, requests, together, unsaved>>
  BY DEF SetOption, IsAt
<1>2. \/ Stores(p) /\ Goes(p, "stores")
      \/ ~Stores(p) /\ t.remote /\ Goes(p, "savesLast")
      \/ ~Stores(p) /\ ~t.remote /\ working' = [working EXCEPT ![p] = AtRest]
  BY DEF SetOption, EndsWork
<1>3. t \in WorkRecords /\ t.value \in Stored /\ option \in OptionRecords
  BY DEF OptionInv, OptionTypes, WorkRecords
<1>4. /\ option' \in OptionRecords /\ option'.value = t.value /\ option'.gotten = option.gotten
  <2> HIDE DEF t
  <2> QED
    BY <1>1, <1>3 DEF OptionRecords
<1>5. {"stores", "savesLast"} \subseteq WorkPhases /\ working \in [OptionUsers -> WorkRecords]
  BY DEF WorkPhases, OptionInv, OptionTypes
<1>6. /\ working' \in [OptionUsers -> WorkRecords]
      /\ \A q \in OptionUsers \ {p} : working'[q] = working[q]
      /\ \/ Stores(p) /\ working'[p].at = "stores" /\ working'[p].value = t.value
         \/ ~Stores(p) /\ t.remote /\ working'[p].at = "savesLast" /\ working'[p].value = t.value
         \/ ~Stores(p) /\ ~t.remote /\ working'[p] = AtRest
  <2>1. CASE Stores(p) /\ Goes(p, "stores")
    BY <1>5, <2>1, GoesIsRecord
  <2>2. CASE ~Stores(p) /\ t.remote /\ Goes(p, "savesLast")
    BY <1>5, <2>2, GoesIsRecord
  <2>3. CASE ~Stores(p) /\ ~t.remote /\ working' = [working EXCEPT ![p] = AtRest]
    BY <1>5, <2>3, RestIsWork
  <2> QED
    BY <1>2, <2>1, <2>2, <2>3
<1>7. OptionTypes'
  BY <1>1, <1>4, <1>6 DEF OptionInv, OptionTypes
<1>8. ~unsaved' => SaveIsToCome'
  BY <1>1, <1>6 DEF OptionInv, SaveIsToCome
<1>9. ASSUME OneComesAtATime PROVE IsOnItsWay(p)' /\ (working'[p] = AtRest => GottenIsStored')
  <2>1. (t.remote /\ t.value = dict) \/ (~t.remote /\ GottenIsStored)
    BY <1>1, <1>9 DEF OneComesAtATime, IsOnItsWay
  <2>2. CASE Stores(p)
    BY <1>1, <1>4, <1>6, <2>2, RestIsWork DEF IsOnItsWay
  <2>3. CASE ~Stores(p) /\ t.remote
    BY <1>1, <1>4, <1>6, <2>1, <2>3, RestIsWork DEF IsOnItsWay
  <2>4. CASE ~Stores(p) /\ ~t.remote
    <3>1. option.value = t.value
      BY <2>4 DEF Stores
    <3>2. GottenIsStored'
      BY <1>1, <1>4, <2>1, <2>4, <3>1 DEF GottenIsStored
    <3> QED
      BY <1>6, <2>4, <3>2, RestIsWork DEF IsOnItsWay
  <2> QED
    BY <2>2, <2>3, <2>4
<1>10. ~together' => ~together /\ \A q \in OptionUsers \ {p} : working[q] = AtRest
  BY <1>1, AtWorkIsAlone
<1> QED
  BY <1>6, <1>7, <1>8, <1>9, <1>10, WorkerKeepsOptionInv

LEMMA RawSetKeepsOptionInv ==
    ASSUME OptionInv, NEW p \in OptionUsers, RawSetItem(p) PROVE OptionInv'
<1> DEFINE t == working[p]
<1>1. /\ t.at \in {"storesItem", "stores"} /\ dict' = t.value
      /\ UNCHANGED <<storeFile, option, requests, together, unsaved>>
      /\ Goes(p, IF t.at = "stores" THEN "saves" ELSE "savesItem")
  BY DEF RawSetItem, IsAt
<1>2. /\ {"saves", "savesItem"} \subseteq WorkPhases /\ working \in [OptionUsers -> WorkRecords]
      /\ t \in WorkRecords /\ t.value \in Stored
  BY DEF WorkPhases, OptionInv, OptionTypes, WorkRecords
<1>3. /\ working' \in [OptionUsers -> WorkRecords]
      /\ \A q \in OptionUsers \ {p} : working'[q] = working[q]
      /\ working'[p].value = t.value /\ working'[p].remote = t.remote
      /\ working'[p].at = IF t.at = "stores" THEN "saves" ELSE "savesItem"
  BY <1>1, <1>2, GoesIsRecord
<1>4. OptionTypes'
  BY <1>1, <1>2, <1>3 DEF OptionInv, OptionTypes
<1>5. SaveIsToCome'
  BY <1>1, <1>3 DEF SaveIsToCome
<1>6. ~together' => ~together /\ \A q \in OptionUsers \ {p} : working[q] = AtRest
  BY <1>1, AtWorkIsAlone
<1>7. ASSUME OneComesAtATime PROVE IsOnItsWay(p)' /\ working'[p] # AtRest
  <2>1. working'[p] # AtRest
    BY <1>1, <1>3, RestIsWork
  <2>2. CASE t.at = "stores"
    BY <1>1, <1>3, <1>7, <2>1, <2>2 DEF OneComesAtATime, IsOnItsWay
  <2>3. CASE t.at = "storesItem"
    BY <1>1, <1>3, <1>7, <2>1, <2>3 DEF OneComesAtATime, IsOnItsWay
  <2> QED
    BY <1>1, <2>1, <2>2, <2>3
<1> QED
  BY <1>3, <1>4, <1>5, <1>6, <1>7, WorkerKeepsOptionInv
LEMMA SaveKeepsOptionInv ==
    ASSUME OptionInv, NEW p \in OptionUsers, NEW fails \in BOOLEAN, Save(p, fails) PROVE OptionInv'
<1> DEFINE t == working[p]
<1>1. /\ t.at \in {"savesItem", "saves", "savesLast"}
      /\ UNCHANGED <<dict, option, requests, together>>
      /\ storeFile' = IF fails THEN storeFile ELSE dict
  BY DEF Save, Saved
<1>2. unsaved' = (fails \/ (unsaved /\ storeFile' # dict))
  BY DEF Save
<1>3. \/ t.at = "savesItem" /\ Goes(p, "compares")
      \/ t.at = "saves" /\ t.remote /\ Goes(p, "savesLast")
      \/ t.at \in {"saves", "savesLast"} /\ working' = [working EXCEPT ![p] = AtRest]
  BY <1>1 DEF Save, AfterSave, IsAt, EndsWork
<1>4. /\ {"compares", "savesLast"} \subseteq WorkPhases /\ working \in [OptionUsers -> WorkRecords]
      /\ t \in WorkRecords /\ dict \in Stored /\ storeFile \in Stored
  BY DEF WorkPhases, OptionInv, OptionTypes
<1>5. /\ working' \in [OptionUsers -> WorkRecords]
      /\ \A q \in OptionUsers \ {p} : working'[q] = working[q]
      /\ \/ t.at = "savesItem" /\ working'[p].at = "compares" /\ working'[p].value = t.value
                               /\ working'[p].remote = t.remote
         \/ t.at = "saves" /\ working'[p].at = "savesLast" /\ working'[p].value = t.value
         \/ t.at \in {"saves", "savesLast"} /\ working'[p] = AtRest
  <2>1. CASE t.at = "savesItem" /\ Goes(p, "compares")
    BY <1>4, <2>1, GoesIsRecord
  <2>2. CASE t.at = "saves" /\ t.remote /\ Goes(p, "savesLast")
    BY <1>4, <2>2, GoesIsRecord
  <2>3. CASE t.at \in {"saves", "savesLast"} /\ working' = [working EXCEPT ![p] = AtRest]
    BY <1>4, <2>3, RestIsWork
  <2> QED
    BY <1>3, <2>1, <2>2, <2>3
<1>6. unsaved' \in BOOLEAN
  BY <1>2, Zenon
<1>7. OptionTypes'
  BY <1>1, <1>4, <1>5, <1>6 DEF OptionInv, OptionTypes
<1>8. ~unsaved' => SaveIsToCome'
  <2>1. ~unsaved' => ~fails
    BY <1>2
  <2> QED
    BY <1>1, <2>1 DEF SaveIsToCome
<1>9. ASSUME OneComesAtATime PROVE IsOnItsWay(p)' /\ (working'[p] = AtRest => GottenIsStored')
  <2>1. IsOnItsWay(p) /\ dict' = dict /\ option' = option
    BY <1>1, <1>9 DEF OneComesAtATime
  <2>2. CASE t.at = "savesItem" /\ working'[p].at = "compares" /\ working'[p].value = t.value
                                /\ working'[p].remote = t.remote
    BY <2>1, <2>2, RestIsWork DEF IsOnItsWay
  <2>3. CASE t.at = "saves" /\ working'[p].at = "savesLast" /\ working'[p].value = t.value
    BY <2>1, <2>3, RestIsWork DEF IsOnItsWay
  <2>4. CASE t.at \in {"saves", "savesLast"} /\ working'[p] = AtRest
    <3>1. option.value = dict
      BY <2>1, <2>4 DEF IsOnItsWay
    <3> QED
      BY <2>1, <2>4, <3>1, RestIsWork DEF IsOnItsWay, GottenIsStored
  <2> QED
    BY <1>5, <2>2, <2>3, <2>4
<1>10. ~together' => ~together /\ \A q \in OptionUsers \ {p} : working[q] = AtRest
  BY <1>1, AtWorkIsAlone
<1> QED
  BY <1>5, <1>7, <1>8, <1>9, <1>10, WorkerKeepsOptionInv

LEMMA ClientKeepsOptionInv ==
    ASSUME OptionInv, (\E val \in KeyedValues : ClientSets(val)) \/ CallIsLost PROVE OptionInv'
<1>1. UNCHANGED <<dict, storeFile, option, working, unsaved>>
  BY DEF ClientSets, CallIsLost
<1>2. \A r \in requests' : r.value \in Stored
  BY DEF ClientSets, CallIsLost, OptionInv, OptionTypes, Stored
<1>3. together' = together \/ together' = TRUE
  BY DEF ClientSets, CallIsLost
<1>4. together' \in BOOLEAN
  BY <1>3, Zenon DEF OptionInv, OptionTypes
<1>5. OptionTypes'
  BY <1>1, <1>2, <1>4 DEF OptionInv, OptionTypes
<1>6. (SaveIsToCome => SaveIsToCome') /\ (OneComesAtATime => OneComesAtATime')
  BY <1>1 DEF SaveIsToCome, OneComesAtATime, IsOnItsWay, AllAtRest, GottenIsStored
<1> QED
  BY <1>1, <1>3, <1>5, <1>6 DEF OptionInv

LEMMA RestartKeepsOptionInv ==
    ASSUME OptionInv, NEW hasHandler \in BOOLEAN, RestartServer(hasHandler) PROVE OptionInv'
<1> DEFINE val == IF hasHandler /\ storeFile # Absent THEN storeFile ELSE DefaultValue
<1>1. /\ dict' = storeFile /\ storeFile' = storeFile /\ requests' = requests
      /\ option' = Option(val, FALSE)
      /\ working' = [p \in OptionUsers |-> AtRest]
  BY DEF RestartServer
<1>2. together' \in BOOLEAN /\ unsaved' \in BOOLEAN
  BY Zenon DEF RestartServer
<1>3. val \in Stored
  BY DefaultIsStored DEF OptionInv, OptionTypes
<1>4. option' \in OptionRecords /\ option'.gotten = FALSE
  BY <1>1, <1>3 DEF Option, OptionRecords
<1>5. /\ working' \in [OptionUsers -> WorkRecords]
      /\ \A p \in OptionUsers : working'[p] = AtRest
  BY <1>1, RestIsWork
<1>6. OptionTypes'
  BY <1>1, <1>2, <1>4, <1>5 DEF OptionInv, OptionTypes
<1>7. SaveIsToCome'
  BY <1>1 DEF SaveIsToCome
<1>8. OneComesAtATime'
  BY <1>4, <1>5, RestIsWork DEF OneComesAtATime, IsOnItsWay, GottenIsStored
<1> QED
  BY <1>6, <1>7, <1>8 DEF OptionInv

LEMMA OptionInvStep == OptionInv /\ [OptionNext]_optionVars => OptionInv'
<1> SUFFICES ASSUME OptionInv, [OptionNext]_optionVars PROVE OptionInv'
  OBVIOUS
<1>1. CASE UNCHANGED optionVars
  BY <1>1 DEF optionVars, OptionInv, OptionTypes, SaveIsToCome, OneComesAtATime, IsOnItsWay, AllAtRest,
      GottenIsStored
<1>2. CASE OptionNext
  BY <1>2, BeginningsKeepOptionInv, EndGetKeepsOptionInv, SetOptionKeepsOptionInv, RawSetKeepsOptionInv,
     SaveKeepsOptionInv, ClientKeepsOptionInv, RestartKeepsOptionInv DEF OptionNext
<1> QED
  BY <1>1, <1>2

------------------------------------------------------------------------------
(* Tables: the rows, and the calls that write several of them *)

CallKinds == {"upsert", "insert", "update"}
GivenRecords == [id : Nat, name : RowNames]
CallRecords == [kind : CallKinds, given : Seq(GivenRecords), done : Nat, ids : Seq(Nat),
                end : {"none", "ok", "error"}]
IdsOf(c) == { calls[c].ids[j] : j \in DOMAIN calls[c].ids }

TableTypes ==
    /\ nextRow \in Nat
    /\ DOMAIN writer = DOMAIN rows
    /\ \A id \in DOMAIN rows : id \in Nat /\ id < nextRow /\ writer[id] \in DOMAIN calls
    /\ calls \in Seq(CallRecords)
    /\ calling \in [TableUsers -> Nat]

\* A user is in a call of its own, which has a row left to come to.
CallsAreApart ==
    \A u \in TableUsers : calling[u] # NoCall =>
        /\ calling[u] \in DOMAIN calls
        /\ CallOf(u).end = "none" /\ CallOf(u).done < Len(CallOf(u).given)
        /\ \A o \in TableUsers : calling[o] = calling[u] => o = u

\* The IDs of an insert are of its rows in their order, and all of its rows but one that failed have theirs.
IdsTell(c) ==
    /\ Len(calls[c].ids) = calls[c].done
    /\ \A j \in DOMAIN calls[c].ids :
          /\ Exists(calls[c].ids[j])
          /\ writer[calls[c].ids[j]] = c => rows[calls[c].ids[j]] = calls[c].given[j].name
RowsTell(c) ==
    IF calls[c].end = "error" THEN \E id : CallRows(c) \subseteq IdsOf(c) \cup {id}
    ELSE CallRows(c) \subseteq IdsOf(c)
InsertTells(c) == calls[c].kind = "insert" => IdsTell(c) /\ RowsTell(c)

\* What an update wrote is the row of its first ID, with the name of the last statement done.
UpdateTells(c) ==
    calls[c].kind = "update" =>
        /\ calls[c].done = 0 => CallRows(c) = {}
        /\ \A id \in CallRows(c) : id = calls[c].given[1].id /\ rows[id] = calls[c].given[calls[c].done].name

TableInv ==
    /\ TableTypes /\ CallsAreApart
    /\ \A c \in DOMAIN calls : InsertTells(c) /\ UpdateTells(c)

LEMMA TableInvInit == TablesInit => TableInv
  BY DEF TablesInit, TableInv, TableTypes, CallsAreApart, NoCall

LEMMA TableInvGives == TableInv => TablesAreKept
<1> SUFFICES ASSUME TableInv PROVE TablesAreKept
  OBVIOUS
<1>1. ASSUME NEW c \in DOMAIN calls, calls[c].kind = "insert"
      PROVE  Cardinality(CallRows(c) \ IdsOf(c)) <= (IF calls[c].end = "error" THEN 1 ELSE 0)
  <2>1. CASE calls[c].end = "error"
    <3>1. PICK id : CallRows(c) \subseteq IdsOf(c) \cup {id}
      BY <1>1, <2>1 DEF TableInv, InsertTells, IdsTell, RowsTell
    <3>2. CallRows(c) \ IdsOf(c) = {} \/ CallRows(c) \ IdsOf(c) = {id}
      BY <3>1
    <3>3. Cardinality(CallRows(c) \ IdsOf(c)) \in {0, 1}
      BY <3>2, FS_EmptySet, FS_Singleton
    <3> QED
      BY <2>1, <3>3
  <2>2. CASE calls[c].end # "error"
    <3>1. CallRows(c) \ IdsOf(c) = {}
      BY <1>1, <2>2 DEF TableInv, InsertTells, IdsTell, RowsTell
    <3> QED
      BY <2>2, <3>1, FS_EmptySet
  <2> QED
    BY <2>1, <2>2
<1>2. FailedInsertTells
  BY <1>1 DEF FailedInsertTells, TableInv, InsertTells, IdsTell, RowsTell, IdsOf
<1>3. UpdateWritesFirst
  BY DEF UpdateWritesFirst, TableInv, UpdateTells
<1> QED
  BY <1>2, <1>3 DEF TablesAreKept

LEMMA BeginKeepsTableInv ==
    ASSUME TableInv, NEW u \in TableUsers, NEW kind \in CallKinds,
           NEW given \in Seq(GivenRecords), Len(given) > 0, Begin(u, kind, given)
    PROVE  TableInv'
<1> DEFINE n == Len(calls) + 1
           call == Call(kind, given)
<1>1. /\ calling[u] = NoCall /\ calls' = Append(calls, call) /\ calling' = [calling EXCEPT ![u] = n]
      /\ UNCHANGED <<rows, writer, nextRow>>
  BY DEF Begin
<1>2. /\ call \in CallRecords /\ call.kind = kind /\ call.given = given /\ call.done = 0 /\ call.ids = <<>>
      /\ call.end = "none"
  <2>1. <<>> \in Seq(Nat)
    OBVIOUS
  <2> QED
    BY <2>1 DEF Call, CallRecords
<1> HIDE DEF call
<1>3. calls \in Seq(CallRecords) /\ Len(calls) \in Nat /\ DOMAIN calls = 1..Len(calls)
  BY DEF TableInv, TableTypes
<1>4. /\ calls' \in Seq(CallRecords) /\ Len(calls') = n /\ DOMAIN calls' = 1..n /\ calls'[n] = call
      /\ \A c \in DOMAIN calls : c \in DOMAIN calls' /\ c # n /\ calls'[c] = calls[c]
  BY <1>1, <1>2, <1>3
<1>5. /\ calling' \in [TableUsers -> Nat] /\ calling'[u] = n
      /\ \A o \in TableUsers \ {u} : calling'[o] = calling[o]
  BY <1>1, <1>3 DEF TableInv, TableTypes
<1>6. TableTypes'
  BY <1>1, <1>4, <1>5 DEF TableInv, TableTypes
<1>7. CallsAreApart'
  <2>1. n # NoCall /\ n \notin DOMAIN calls /\ n \in DOMAIN calls'
    BY <1>3, <1>4 DEF NoCall
  <2>2. \A o \in TableUsers \ {u} : calling'[o] # NoCall => calling'[o] \in DOMAIN calls /\ calls'[calling'[o]] = calls[calling[o]]
    BY <1>4, <1>5 DEF TableInv, CallsAreApart
  <2> HIDE DEF n
  <2>3. ASSUME NEW o \in TableUsers, calling'[o] # NoCall
        PROVE  /\ calling'[o] \in DOMAIN calls'
               /\ calls'[calling'[o]].end = "none"
               /\ calls'[calling'[o]].done < Len(calls'[calling'[o]].given)
               /\ \A r \in TableUsers : calling'[r] = calling'[o] => r = o
    <3>1. CASE o = u
      BY <1>2, <1>4, <1>5, <2>1, <2>2, <3>1
    <3>2. CASE o # u
      <4>1. calling[o] # NoCall /\ calling'[o] = calling[o] /\ calls'[calling'[o]] = calls[calling[o]] /\ calling[o] \in DOMAIN calls
        BY <1>5, <2>2, <2>3, <3>2
      <4>2. \A r \in TableUsers : calling'[r] = calling'[o] => r = o
        BY <1>5, <2>1, <3>2, <4>1 DEF TableInv, CallsAreApart
      <4> QED
        BY <1>4, <3>2, <4>1, <4>2 DEF TableInv, CallsAreApart, CallOf
    <3> QED
      BY <3>1, <3>2
  <2> QED
    BY <2>3 DEF CallsAreApart, CallOf
<1>8. ASSUME NEW c \in DOMAIN calls' PROVE (InsertTells(c) /\ UpdateTells(c))'
  <2>1. CASE c \in DOMAIN calls
    <3>1. calls'[c] = calls[c] /\ InsertTells(c) /\ UpdateTells(c)
      BY <1>4, <2>1 DEF TableInv
    <3>2. CallRows(c)' = CallRows(c) /\ IdsOf(c)' = IdsOf(c)
      BY <1>1, <3>1 DEF CallRows, IdsOf
    <3>3. InsertTells(c)'
      BY <1>1, <3>1, <3>2 DEF InsertTells, IdsTell, RowsTell, Exists
    <3>4. UpdateTells(c)'
      BY <1>1, <3>1, <3>2 DEF UpdateTells
    <3> QED
      BY <3>3, <3>4
  <2>2. CASE c = n
    <3>1. c \notin DOMAIN calls
      BY <1>3, <2>2
    <3>2. CallRows(c)' = {}
      BY <1>1, <3>1 DEF CallRows, TableInv, TableTypes
    <3>3. calls'[c] = call /\ DOMAIN calls'[c].ids = {} /\ Len(calls'[c].ids) = 0
      BY <1>2, <1>4, <2>2
    <3> QED
      BY <1>2, <3>2, <3>3 DEF InsertTells, IdsTell, RowsTell, UpdateTells
  <2> QED
    BY <1>3, <1>4, <2>1, <2>2
<1> QED
  BY <1>6, <1>7, <1>8 DEF TableInv

\* The steps of a call: its record is another, and rows it writes have it as their writer.
RowsAreWritten(u) ==
    \/ UNCHANGED <<rows, writer>>
    \/ \E id \in Nat : id < nextRow' /\ WritesRow(u, id)

\* A row that is written is in the table, with who wrote it.
LEMMA WritesGive ==
    ASSUME NEW u \in TableUsers, NEW id, WritesRow(u, id), DOMAIN writer = DOMAIN rows
    PROVE  /\ DOMAIN rows' = DOMAIN rows \cup {id} /\ DOMAIN writer' = DOMAIN rows'
           /\ rows'[id] = RowOf(u).name /\ writer'[id] = calling[u]
           /\ \A i \in DOMAIN rows \ {id} : rows'[i] = rows[i] /\ writer'[i] = writer[i]
  BY DEF WritesRow

\* What a step of one call leaves of another's is as it was.
LEMMA OtherCallTells ==
    ASSUME TableInv, NEW u \in TableUsers, RowsAreWritten(u),
           NEW c \in DOMAIN calls, c # calling[u], calls'[c] = calls[c]
    PROVE  (InsertTells(c) /\ UpdateTells(c))'
<1>1. DOMAIN writer = DOMAIN rows /\ InsertTells(c) /\ UpdateTells(c)
  BY DEF TableInv, TableTypes
<1>2. /\ \A i \in DOMAIN rows : i \in DOMAIN rows'
      /\ \A i \in DOMAIN rows' : writer'[i] = c => i \in DOMAIN rows /\ writer[i] = c /\ rows'[i] = rows[i]
  <2>1. CASE UNCHANGED <<rows, writer>>
    BY <2>1
  <2>2. ASSUME NEW id \in Nat, WritesRow(u, id)
        PROVE  /\ \A i \in DOMAIN rows : i \in DOMAIN rows'
               /\ \A i \in DOMAIN rows' : writer'[i] = c => i \in DOMAIN rows /\ writer[i] = c /\ rows'[i] = rows[i]
    <3>1. /\ DOMAIN rows' = DOMAIN rows \cup {id} /\ writer'[id] = calling[u]
          /\ \A i \in DOMAIN rows \ {id} : rows'[i] = rows[i] /\ writer'[i] = writer[i]
      BY <1>1, <2>2, WritesGive
    <3> QED
      BY <3>1
  <2> QED
    BY <2>1, <2>2 DEF RowsAreWritten
<1>3. CallRows(c)' \subseteq CallRows(c) /\ \A i \in CallRows(c)' : rows'[i] = rows[i]
  BY <1>2 DEF CallRows
<1>4. IdsOf(c)' = IdsOf(c)
  BY DEF IdsOf
<1>5. UpdateTells(c)'
  BY <1>1, <1>3 DEF UpdateTells
<1>6. InsertTells(c)'
  <2>1. \A i \in DOMAIN rows : Exists(i)' /\ (writer'[i] = c => writer[i] = c /\ rows'[i] = rows[i])
    BY <1>2 DEF Exists
  <2>2. calls[c].kind = "insert" =>
            \A j \in DOMAIN calls[c].ids :
                /\ Exists(calls[c].ids[j])'
                /\ writer'[calls[c].ids[j]] = c => rows'[calls[c].ids[j]] = calls[c].given[j].name
    BY <1>1, <2>1 DEF InsertTells, IdsTell, RowsTell, Exists
  <2> QED
    BY <1>1, <1>3, <1>4, <2>2 DEF InsertTells, IdsTell, RowsTell
<1> QED
  BY <1>5, <1>6

\* What is the same in all steps of a call that write a row or fail to.
LEMMA CallStepKeepsTableInv ==
    ASSUME TableInv, NEW u \in TableUsers, NEW c \in Nat, c = calling[u], c # NoCall, RowsAreWritten(u),
           nextRow' \in Nat, nextRow' >= nextRow,
           NEW call \in CallRecords, calls' = [calls EXCEPT ![c] = call],
           \/ calling' = [calling EXCEPT ![u] = NoCall]
           \/ calling' = calling /\ call.end = "none" /\ call.done < Len(call.given),
           InsertTells(c)', UpdateTells(c)'
    PROVE  TableInv'
<1>1. c \in DOMAIN calls /\ calls \in Seq(CallRecords) /\ DOMAIN calls = 1..Len(calls)
  BY DEF TableInv, TableTypes, CallsAreApart
<1>2. /\ calls' \in Seq(CallRecords) /\ DOMAIN calls' = DOMAIN calls /\ calls'[c] = call
      /\ \A o \in DOMAIN calls \ {c} : calls'[o] = calls[o]
  BY <1>1
<1>3. calling' \in [TableUsers -> Nat] /\ \A o \in TableUsers \ {u} : calling'[o] = calling[o]
  BY DEF TableInv, TableTypes, NoCall
<1>4. /\ DOMAIN writer' = DOMAIN rows'
      /\ \A i \in DOMAIN rows' : i \in Nat /\ i < nextRow' /\ writer'[i] \in DOMAIN calls
  <2>1. /\ DOMAIN writer = DOMAIN rows /\ nextRow \in Nat
        /\ \A i \in DOMAIN rows : i \in Nat /\ i < nextRow /\ writer[i] \in DOMAIN calls
    BY DEF TableInv, TableTypes
  <2>2. CASE UNCHANGED <<rows, writer>>
    BY <2>1, <2>2
  <2>3. ASSUME NEW id \in Nat, id < nextRow', WritesRow(u, id)
        PROVE  /\ DOMAIN writer' = DOMAIN rows'
               /\ \A i \in DOMAIN rows' : i \in Nat /\ i < nextRow' /\ writer'[i] \in DOMAIN calls
    <3>1. /\ DOMAIN rows' = DOMAIN rows \cup {id} /\ DOMAIN writer' = DOMAIN rows'
          /\ writer'[id] = calling[u]
          /\ \A i \in DOMAIN rows \ {id} : rows'[i] = rows[i] /\ writer'[i] = writer[i]
      BY <2>1, <2>3, WritesGive
    <3>2. \A i \in DOMAIN rows : i \in Nat /\ i < nextRow'
      BY <2>1
    <3> QED
      BY <1>1, <2>1, <2>3, <3>1, <3>2
  <2> QED
    BY <2>2, <2>3 DEF RowsAreWritten
<1>5. TableTypes'
  BY <1>2, <1>3, <1>4 DEF TableTypes
<1>6. ASSUME NEW o \in TableUsers, calling'[o] # NoCall
      PROVE  /\ calling'[o] \in DOMAIN calls'
             /\ calls'[calling'[o]].end = "none"
             /\ calls'[calling'[o]].done < Len(calls'[calling'[o]].given)
             /\ \A r \in TableUsers : calling'[r] = calling'[o] => r = o
  <2>1. \A r, s \in TableUsers : calling[r] # NoCall /\ calling[r] = calling[s] => r = s
    BY DEF TableInv, CallsAreApart
  <2>2. calling[o] # NoCall /\ calling'[o] = calling[o]
    BY <1>3, <1>6 DEF TableInv, TableTypes
  <2>3. \A r \in TableUsers : calling'[r] # NoCall => calling'[r] = calling[r]
    BY <1>3 DEF TableInv, TableTypes
  <2>4. \A r \in TableUsers : calling'[r] = calling'[o] => r = o
    BY <1>6, <2>1, <2>2, <2>3
  <2>5. calling[o] \in DOMAIN calls
    BY <2>2 DEF TableInv, CallsAreApart
  <2>6. CASE o = u
    BY <1>1, <1>2, <1>6, <2>2, <2>4, <2>6 DEF TableInv, TableTypes
  <2>7. CASE o # u
    <3>1. calling[o] # c
      BY <2>1, <2>2, <2>7
    <3>2. calls'[calling'[o]] = calls[calling[o]]
      BY <1>2, <2>2, <2>5, <3>1
    <3> QED
      BY <1>2, <2>2, <2>4, <2>5, <3>2 DEF TableInv, CallsAreApart, CallOf
  <2> QED
    BY <2>6, <2>7
<1>7. CallsAreApart'
  BY <1>6 DEF CallsAreApart, CallOf
<1>8. \A o \in DOMAIN calls' : (InsertTells(o) /\ UpdateTells(o))'
  <2>1. \A o \in DOMAIN calls \ {c} : (InsertTells(o) /\ UpdateTells(o))'
    BY <1>2, OtherCallTells
  <2> QED
    BY <1>2, <2>1
<1> QED
  BY <1>5, <1>7, <1>8 DEF TableInv

\* A call that went on, or ended, is still a call.
LEMMA CallIsRecord ==
    ASSUME NEW K, NEW G, NEW D, NEW I, NEW E,
           NEW r \in [kind : K, given : G, done : D, ids : I, end : E],
           NEW n \in D, NEW s \in I, NEW e \in E
    PROVE  LET went == [r EXCEPT !.done = n, !.ids = s, !.end = e]
               ended == [r EXCEPT !.end = e]
           IN /\ went \in [kind : K, given : G, done : D, ids : I, end : E]
              /\ went.kind = r.kind /\ went.given = r.given /\ went.done = n /\ went.ids = s /\ went.end = e
              /\ ended \in [kind : K, given : G, done : D, ids : I, end : E]
              /\ ended.kind = r.kind /\ ended.given = r.given /\ ended.done = r.done /\ ended.ids = r.ids
              /\ ended.end = e
  OBVIOUS

\* A call that wrote a row knows its ID, and ends after its last row.
LEMMA DidGives ==
    ASSUME TableInv, NEW u \in TableUsers, calling[u] # NoCall, NEW ids \in Seq(Nat), Did(u, ids)
    PROVE  \E call \in CallRecords :
              /\ calls' = [calls EXCEPT ![calling[u]] = call]
              /\ call.kind = CallOf(u).kind /\ call.given = CallOf(u).given
              /\ call.done = CallOf(u).done + 1 /\ call.ids = CallOf(u).ids \o ids
              /\ call.end # "error"
              /\ \/ calling' = [calling EXCEPT ![u] = NoCall]
                 \/ calling' = calling /\ call.end = "none" /\ call.done < Len(call.given)
<1> DEFINE old == CallOf(u)
           last == old.done + 1 = Len(old.given)
           end == IF last THEN "ok" ELSE old.end
           call == [old EXCEPT !.done = old.done + 1, !.ids = old.ids \o ids, !.end = end]
<1>1. /\ calls' = [calls EXCEPT ![calling[u]] = call]
      /\ calling' = IF last THEN [calling EXCEPT ![u] = NoCall] ELSE calling
  BY DEF Did
<1>2. old \in CallRecords /\ old.end = "none" /\ old.done < Len(old.given)
  BY DEF CallOf, TableInv, TableTypes, CallsAreApart
<1>3. old.done \in Nat /\ old.given \in Seq(GivenRecords) /\ old.ids \in Seq(Nat)
  <2> HIDE DEF old
  <2> QED
    BY <1>2 DEF CallRecords
<1> HIDE DEF old
<1>4. Len(old.given) \in Nat /\ old.ids \o ids \in Seq(Nat) /\ old.done + 1 \in Nat
  BY <1>3
<1>5. end \in {"none", "ok"} /\ end \in {"none", "ok", "error"} /\ (~last => end = "none")
  BY <1>2
<1>6. ~last => old.done + 1 < Len(old.given)
  BY <1>2, <1>3, <1>4
<1> HIDE DEF last, end
<1>7. /\ call \in CallRecords /\ call.kind = old.kind /\ call.given = old.given
      /\ call.done = old.done + 1 /\ call.ids = old.ids \o ids /\ call.end = end
  BY <1>2, <1>4, <1>5, CallIsRecord DEF CallRecords
<1> HIDE DEF call
<1>8. \/ calling' = [calling EXCEPT ![u] = NoCall]
      \/ calling' = calling /\ call.end = "none" /\ call.done < Len(call.given)
  BY <1>1, <1>5, <1>6, <1>7
<1>9. call.end # "error"
  BY <1>5, <1>7
<1> QED
  BY <1>1, <1>7, <1>8, <1>9 DEF old

\* A call that failed has ended with what it had written.
LEMMA FailsGives ==
    ASSUME TableInv, NEW u \in TableUsers, calling[u] # NoCall, Fails(u)
    PROVE  \E call \in CallRecords :
              /\ calls' = [calls EXCEPT ![calling[u]] = call]
              /\ call.kind = CallOf(u).kind /\ call.given = CallOf(u).given
              /\ call.done = CallOf(u).done /\ call.ids = CallOf(u).ids
              /\ call.end = "error"
              /\ calling' = [calling EXCEPT ![u] = NoCall]
<1> DEFINE old == CallOf(u)
           call == [old EXCEPT !.end = "error"]
<1>1. calls' = [calls EXCEPT ![calling[u]] = call] /\ calling' = [calling EXCEPT ![u] = NoCall]
  BY DEF Fails, CallOf
<1>2. old \in CallRecords
  BY DEF CallOf, TableInv, TableTypes, CallsAreApart
<1>3. "error" \in {"none", "ok", "error"} /\ old.done \in Nat /\ old.ids \in Seq(Nat)
  <2> HIDE DEF old
  <2> QED
    BY <1>2 DEF CallRecords
<1> HIDE DEF old
<1>4. /\ call \in CallRecords /\ call.kind = old.kind /\ call.given = old.given
      /\ call.done = old.done /\ call.ids = old.ids /\ call.end = "error"
  BY <1>2, <1>3, CallIsRecord DEF CallRecords
<1> HIDE DEF call
<1> QED
  BY <1>1, <1>4 DEF old

\* A call that has failed, its row written or not: of the rows by it one at most is not told of.
LEMMA FailureTells ==
    ASSUME TableInv, NEW u \in TableUsers, calling[u] # NoCall, Fails(u),
           nextRow' \in Nat, nextRow' >= nextRow,
           \/ UNCHANGED <<rows, writer>>
           \/ CallOf(u).kind = "insert" /\ WritesRow(u, nextRow) /\ nextRow < nextRow'
    PROVE  TableInv'
<1>1. PICK c \in Nat : c = calling[u]
  BY DEF TableInv, TableTypes
<1> USE <1>1
<1>2. PICK call \in CallRecords :
        /\ calls' = [calls EXCEPT ![calling[u]] = call]
        /\ call.kind = CallOf(u).kind /\ call.given = CallOf(u).given
        /\ call.done = CallOf(u).done /\ call.ids = CallOf(u).ids
        /\ call.end = "error"
        /\ calling' = [calling EXCEPT ![u] = NoCall]
  BY FailsGives
<1>3. /\ c \in DOMAIN calls /\ calls \in Seq(CallRecords) /\ CallOf(u) = calls[c] /\ calls[c].end = "none"
      /\ InsertTells(c) /\ UpdateTells(c) /\ DOMAIN writer = DOMAIN rows /\ nextRow \in Nat
      /\ \A i \in DOMAIN rows : i \in Nat /\ i < nextRow
  BY DEF TableInv, TableTypes, CallsAreApart, CallOf
<1>4. calls'[c] = call
  BY <1>2, <1>3
<1>5. IdsOf(c)' = IdsOf(c)
  BY <1>2, <1>3, <1>4 DEF IdsOf
<1>6. CallOf(u).kind = "insert" =>
        /\ Len(call.ids) = call.done /\ CallRows(c) \subseteq IdsOf(c)
        /\ \A j \in DOMAIN call.ids :
              /\ call.ids[j] \in DOMAIN rows
              /\ writer[call.ids[j]] = c => rows[call.ids[j]] = call.given[j].name
  BY <1>2, <1>3 DEF InsertTells, IdsTell, RowsTell, Exists
<1>7. CASE UNCHANGED <<rows, writer>>
  <2>1. CallRows(c)' = CallRows(c)
    BY <1>7 DEF CallRows
  <2>2. CallOf(u).kind = "insert" => IdsTell(c)'
    BY <1>4, <1>6, <1>7 DEF IdsTell, Exists
  <2>3. CallOf(u).kind = "insert" => RowsTell(c)'
    BY <1>2, <1>4, <1>5, <1>6, <2>1 DEF RowsTell
  <2>4. InsertTells(c)'
    BY <1>2, <1>4, <2>2, <2>3 DEF InsertTells
  <2>5. UpdateTells(c)'
    BY <1>2, <1>3, <1>4, <1>7, <2>1 DEF UpdateTells
  <2>6. RowsAreWritten(u)
    BY <1>7 DEF RowsAreWritten
  <2> QED
    BY <1>2, <2>4, <2>5, <2>6, CallStepKeepsTableInv
<1>8. CASE CallOf(u).kind = "insert" /\ WritesRow(u, nextRow) /\ nextRow < nextRow'
  <2>1. /\ DOMAIN rows' = DOMAIN rows \cup {nextRow} /\ writer'[nextRow] = c
        /\ DOMAIN writer' = DOMAIN rows'
        /\ \A i \in DOMAIN rows \ {nextRow} : rows'[i] = rows[i] /\ writer'[i] = writer[i]
    BY <1>3, <1>8, WritesGive
  <2>2. nextRow \notin DOMAIN rows
    BY <1>3
  <2>3. CallRows(c)' \subseteq IdsOf(c) \cup {nextRow}
    BY <1>6, <1>8, <2>1, <2>2 DEF CallRows
  <2>4. IdsTell(c)'
    <3>1. \A i \in DOMAIN rows : i \in DOMAIN rows' /\ rows'[i] = rows[i] /\ writer'[i] = writer[i]
      BY <2>1, <2>2
    <3> QED
      BY <1>4, <1>6, <1>8, <3>1 DEF IdsTell, Exists
  <2>5. RowsTell(c)'
    BY <1>2, <1>4, <1>5, <2>3 DEF RowsTell
  <2>6. InsertTells(c)'
    BY <2>4, <2>5 DEF InsertTells
  <2>7. UpdateTells(c)'
    BY <1>2, <1>4, <1>8 DEF UpdateTells
  <2>8. RowsAreWritten(u)
    BY <1>3, <1>8 DEF RowsAreWritten
  <2> QED
    BY <1>2, <2>6, <2>7, <2>8, CallStepKeepsTableInv
<1> QED
  BY <1>7, <1>8

LEMMA InsertKeepsTableInv ==
    ASSUME TableInv, NEW u \in TableUsers, InsertRow(u) PROVE TableInv'
<1>1. PICK c \in Nat : c = calling[u]
  BY DEF TableInv, TableTypes
<1> USE <1>1
<1>2. /\ calling[u] # NoCall /\ CallOf(u).kind = "insert"
      /\ WritesRow(u, nextRow) /\ nextRow' = nextRow + 1
      /\ Did(u, <<nextRow>>) \/ Fails(u)
  BY DEF InsertRow, IsIn
<1>3. nextRow \in Nat
  BY DEF TableInv, TableTypes
<1>4. CASE Fails(u)
  BY <1>2, <1>3, <1>4, FailureTells
<1>5. CASE Did(u, <<nextRow>>)
  <2>1. <<nextRow>> \in Seq(Nat)
    BY <1>3
  <2>2. PICK call \in CallRecords :
          /\ calls' = [calls EXCEPT ![calling[u]] = call]
          /\ call.kind = CallOf(u).kind /\ call.given = CallOf(u).given
          /\ call.done = CallOf(u).done + 1 /\ call.ids = CallOf(u).ids \o <<nextRow>>
          /\ call.end # "error"
          /\ \/ calling' = [calling EXCEPT ![u] = NoCall]
             \/ calling' = calling /\ call.end = "none" /\ call.done < Len(call.given)
    BY <1>2, <1>5, <2>1, DidGives
  <2>3. /\ c \in DOMAIN calls /\ calls \in Seq(CallRecords) /\ CallOf(u) = calls[c] /\ calls[c].end = "none"
        /\ InsertTells(c) /\ calls[c] \in CallRecords /\ DOMAIN writer = DOMAIN rows
        /\ \A i \in DOMAIN rows : i \in Nat /\ i < nextRow
    BY <1>2 DEF TableInv, TableTypes, CallsAreApart, CallOf
  <2>4. calls'[c] = call
    BY <2>2, <2>3
  <2>5. calls[c].ids \in Seq(Nat) /\ calls[c].done \in Nat /\ Len(calls[c].ids) = calls[c].done
    BY <1>2, <2>3 DEF CallRecords, InsertTells, IdsTell, RowsTell
  <2> DEFINE ids == calls[c].ids
  <2>6. /\ Len(call.ids) = Len(ids) + 1 /\ DOMAIN call.ids = 1..(Len(ids) + 1)
        /\ call.ids[Len(ids) + 1] = nextRow
        /\ \A j \in DOMAIN ids : j \in DOMAIN call.ids /\ call.ids[j] = ids[j]
        /\ \A j \in DOMAIN call.ids : j \in DOMAIN ids \/ j = Len(ids) + 1
    <3>1. call.ids = ids \o <<nextRow>> /\ ids \in Seq(Nat)
      BY <2>2, <2>3, <2>5
    <3> HIDE DEF ids
    <3>2. Len(ids) \in Nat /\ DOMAIN ids = 1..Len(ids)
      BY <3>1
    <3>3. Len(<<nextRow>>) = 1 /\ <<nextRow>>[1] = nextRow /\ <<nextRow>> \in Seq(Nat)
      BY <1>3
    <3>4. /\ Len(call.ids) = Len(ids) + 1 /\ call.ids \in Seq(Nat)
          /\ \A j \in 1..(Len(ids) + 1) :
                call.ids[j] = IF j <= Len(ids) THEN ids[j] ELSE <<nextRow>>[j - Len(ids)]
      BY <3>1, <3>3, ConcatProperties
    <3>5. DOMAIN call.ids = 1..(Len(ids) + 1)
      BY <3>2, <3>4
    <3>6. call.ids[Len(ids) + 1] = nextRow
      BY <3>2, <3>3, <3>4
    <3>7. /\ \A j \in DOMAIN ids : j \in DOMAIN call.ids /\ call.ids[j] = ids[j]
          /\ \A j \in DOMAIN call.ids : j \in DOMAIN ids \/ j = Len(ids) + 1
      BY <3>2, <3>4, <3>5
    <3> QED
      BY <3>4, <3>5, <3>6, <3>7
  <2>7. IdsOf(c)' = IdsOf(c) \cup {nextRow}
    BY <2>4, <2>6 DEF IdsOf
  <2>8. /\ DOMAIN rows' = DOMAIN rows \cup {nextRow} /\ writer'[nextRow] = c
        /\ rows'[nextRow] = RowOf(u).name
        /\ DOMAIN writer' = DOMAIN rows' /\ nextRow \notin DOMAIN rows
        /\ \A i \in DOMAIN rows : rows'[i] = rows[i] /\ writer'[i] = writer[i]
    <3>1. nextRow \notin DOMAIN rows
      BY <1>3, <2>3
    <3>2. DOMAIN rows \ {nextRow} = DOMAIN rows
      BY <3>1
    <3>3. /\ DOMAIN rows' = DOMAIN rows \cup {nextRow} /\ DOMAIN writer' = DOMAIN rows'
          /\ rows'[nextRow] = RowOf(u).name /\ writer'[nextRow] = calling[u]
          /\ \A i \in DOMAIN rows \ {nextRow} : rows'[i] = rows[i] /\ writer'[i] = writer[i]
      BY <1>2, <1>3, <2>3, WritesGive
    <3> QED
      BY <3>1, <3>2, <3>3
  <2>9. CallRows(c)' \subseteq IdsOf(c)'
    BY <1>2, <2>3, <2>7, <2>8 DEF CallRows, InsertTells, IdsTell, RowsTell
  <2>10. RowOf(u) = call.given[Len(ids) + 1]
    BY <2>2, <2>3, <2>5 DEF RowOf
  <2>11. \A j \in DOMAIN call.ids :
            /\ call.ids[j] \in DOMAIN rows'
            /\ writer'[call.ids[j]] = c => rows'[call.ids[j]] = call.given[j].name
    <3>1. \A j \in DOMAIN ids : ids[j] \in DOMAIN rows
                                /\ (writer[ids[j]] = c => rows[ids[j]] = call.given[j].name)
      BY <1>2, <2>2, <2>3 DEF InsertTells, IdsTell, RowsTell, Exists
    <3> HIDE DEF ids
    <3> QED
      BY <2>6, <2>8, <2>10, <3>1
  <2>12. InsertTells(c)'
    <3>1. Len(call.ids) = call.done
      BY <2>2, <2>3, <2>5, <2>6
    <3>2. IdsTell(c)'
      BY <2>4, <2>11, <3>1 DEF IdsTell, Exists
    <3>3. RowsTell(c)'
      BY <2>2, <2>4, <2>9 DEF RowsTell
    <3> QED
      BY <3>2, <3>3 DEF InsertTells
  <2>13. UpdateTells(c)'
    BY <1>2, <2>2, <2>4 DEF UpdateTells
  <2>14. RowsAreWritten(u)
    BY <1>2, <1>3 DEF RowsAreWritten
  <2>15. nextRow' \in Nat /\ nextRow' >= nextRow
    BY <1>2, <1>3
  <2> QED
    BY <1>2, <2>2, <2>12, <2>13, <2>14, <2>15, CallStepKeepsTableInv
<1> QED
  BY <1>2, <1>4, <1>5

LEMMA UpdateKeepsTableInv ==
    ASSUME TableInv, NEW u \in TableUsers, UpdateRow(u) PROVE TableInv'
<1>1. PICK c \in Nat : c = calling[u]
  BY DEF TableInv, TableTypes
<1> USE <1>1
<1> DEFINE id == CallOf(u).given[1].id
<1>2. /\ calling[u] # NoCall /\ CallOf(u).kind = "update" /\ Did(u, <<>>) /\ nextRow' = nextRow
      /\ \/ Exists(id) /\ WritesRow(u, id)
         \/ ~Exists(id) /\ UNCHANGED <<rows, writer>>
  BY DEF UpdateRow, IsIn
<1>3. <<>> \in Seq(Nat) /\ nextRow \in Nat
  BY DEF TableInv, TableTypes
<1>4. PICK call \in CallRecords :
        /\ calls' = [calls EXCEPT ![calling[u]] = call]
        /\ call.kind = CallOf(u).kind /\ call.given = CallOf(u).given
        /\ call.done = CallOf(u).done + 1 /\ call.ids = CallOf(u).ids \o <<>>
        /\ call.end # "error"
        /\ \/ calling' = [calling EXCEPT ![u] = NoCall]
           \/ calling' = calling /\ call.end = "none" /\ call.done < Len(call.given)
  BY <1>2, <1>3, DidGives
<1>5. /\ c \in DOMAIN calls /\ calls \in Seq(CallRecords) /\ CallOf(u) = calls[c]
      /\ UpdateTells(c) /\ calls[c] \in CallRecords /\ DOMAIN writer = DOMAIN rows
      /\ \A i \in DOMAIN rows : i \in Nat /\ i < nextRow
  BY <1>2 DEF TableInv, TableTypes, CallsAreApart, CallOf
<1>6. calls'[c] = call /\ calls[c].done \in Nat
  BY <1>4, <1>5 DEF CallRecords
<1>7. call.done # 0 /\ RowOf(u) = call.given[call.done]
  BY <1>4, <1>5, <1>6 DEF RowOf
<1>8. \A i \in CallRows(c)' : i = id /\ rows'[i] = RowOf(u).name
  <2>1. \A i \in CallRows(c) : i = id /\ i \in DOMAIN rows
    BY <1>2, <1>5 DEF UpdateTells, CallRows
  <2>2. CASE Exists(id) /\ WritesRow(u, id)
    <3>1. /\ DOMAIN rows' = DOMAIN rows \cup {id} /\ rows'[id] = RowOf(u).name
          /\ \A i \in DOMAIN rows \ {id} : writer'[i] = writer[i]
      BY <1>5, <2>2, WritesGive
    <3>2. \A i \in CallRows(c)' : i # id => i \in CallRows(c)
      BY <3>1 DEF CallRows
    <3> QED
      BY <2>1, <3>1, <3>2
  <2>3. CASE ~Exists(id) /\ UNCHANGED <<rows, writer>>
    <3>1. CallRows(c)' = CallRows(c)
      BY <2>3 DEF CallRows
    <3>2. CallRows(c) = {}
      BY <2>1, <2>3 DEF Exists
    <3> QED
      BY <3>1, <3>2
  <2> QED
    BY <1>2, <2>2, <2>3
<1>9. UpdateTells(c)'
  BY <1>4, <1>5, <1>6, <1>7, <1>8 DEF UpdateTells
<1>10. InsertTells(c)'
  BY <1>2, <1>4, <1>6 DEF InsertTells, IdsTell, RowsTell
<1>11. RowsAreWritten(u)
  <2>1. CASE UNCHANGED <<rows, writer>>
    BY <2>1 DEF RowsAreWritten
  <2>2. CASE Exists(id) /\ WritesRow(u, id)
    <3>1. id \in Nat /\ id < nextRow'
      BY <1>2, <1>5, <2>2 DEF Exists
    <3> QED
      BY <2>2, <3>1 DEF RowsAreWritten
  <2> QED
    BY <1>2, <2>1, <2>2
<1>12. nextRow' \in Nat /\ nextRow' >= nextRow
  BY <1>2, <1>3
<1> QED
  BY <1>2, <1>4, <1>9, <1>10, <1>11, <1>12, CallStepKeepsTableInv

LEMMA UpsertKeepsTableInv ==
    ASSUME TableInv, NEW u \in TableUsers, UpsertRow(u) PROVE TableInv'
<1>1. PICK c \in Nat : c = calling[u]
  BY DEF TableInv, TableTypes
<1> USE <1>1
<1>2. PICK id \in 1..MaxRowID :
        /\ IF IsTaken(RowOf(u).name, 0) THEN Exists(id) /\ rows[id] = RowOf(u).name /\ UNCHANGED nextRow
           ELSE id = nextRow /\ nextRow' = nextRow + 1
        /\ WritesRow(u, id) /\ Did(u, <<id>>)
  BY DEF UpsertRow
<1>3. calling[u] # NoCall /\ CallOf(u).kind = "upsert"
  BY DEF UpsertRow, IsIn
<1>4. id \in Nat /\ <<id>> \in Seq(Nat) /\ nextRow \in Nat
  BY DEF TableInv, TableTypes, MaxRowID
<1>5. PICK call \in CallRecords :
        /\ calls' = [calls EXCEPT ![calling[u]] = call]
        /\ call.kind = CallOf(u).kind /\ call.given = CallOf(u).given
        /\ call.done = CallOf(u).done + 1 /\ call.ids = CallOf(u).ids \o <<id>>
        /\ call.end # "error"
        /\ \/ calling' = [calling EXCEPT ![u] = NoCall]
           \/ calling' = calling /\ call.end = "none" /\ call.done < Len(call.given)
  BY <1>2, <1>3, <1>4, DidGives
<1>6. calls'[c] = call
  BY <1>3, <1>5 DEF TableInv, TableTypes, CallsAreApart
<1>7. InsertTells(c)' /\ UpdateTells(c)'
  BY <1>3, <1>5, <1>6 DEF InsertTells, IdsTell, RowsTell, UpdateTells
<1>8. nextRow' \in Nat /\ nextRow' >= nextRow /\ id < nextRow'
  BY <1>2, <1>4 DEF TableInv, TableTypes, Exists
<1>9. RowsAreWritten(u)
  BY <1>2, <1>4, <1>8 DEF RowsAreWritten
<1> QED
  BY <1>3, <1>5, <1>7, <1>8, <1>9, CallStepKeepsTableInv

LEMMA TableInvStep == TableInv /\ [TablesNext]_tableVars => TableInv'
<1> SUFFICES ASSUME TableInv, [TablesNext]_tableVars PROVE TableInv'
  OBVIOUS
<1>1. ASSUME NEW u \in TableUsers, NEW n \in RowNames, Begin(u, "upsert", <<Given(0, n)>>) PROVE TableInv'
  <2>1. <<Given(0, n)>> \in Seq(GivenRecords) /\ Len(<<Given(0, n)>>) > 0 /\ "upsert" \in CallKinds
    BY DEF Given, GivenRecords, CallKinds
  <2> QED
    BY <1>1, <2>1, BeginKeepsTableInv
<1>2. ASSUME NEW u \in TableUsers, NEW i \in 0..2, NEW j \in 0..2, NEW n \in RowNames, NEW m \in RowNames,
             NEW kind \in CallKinds, Begin(u, kind, <<Given(i, n), Given(j, m)>>)
      PROVE  TableInv'
  <2>1. Given(i, n) \in GivenRecords /\ Given(j, m) \in GivenRecords
    BY DEF Given, GivenRecords
  <2>2. <<Given(i, n), Given(j, m)>> \in Seq(GivenRecords) /\ Len(<<Given(i, n), Given(j, m)>>) > 0
    BY <2>1
  <2> QED
    BY <1>2, <2>2, BeginKeepsTableInv
<1>3. ASSUME NEW u \in TableUsers, StatementFails(u) PROVE TableInv'
  BY <1>3, FailureTells DEF StatementFails, TableInv, TableTypes
<1>4. CASE UNCHANGED tableVars
  <2>1. UNCHANGED <<rows, writer, nextRow, calls, calling>>
    BY <1>4 DEF tableVars
  <2>2. \A c \in DOMAIN calls : IdsOf(c)' = IdsOf(c) /\ CallRows(c)' = CallRows(c)
    BY <2>1 DEF IdsOf, CallRows
  <2>3. \A c \in DOMAIN calls : InsertTells(c) /\ UpdateTells(c) => InsertTells(c)' /\ UpdateTells(c)'
    BY <2>1, <2>2 DEF InsertTells, IdsTell, RowsTell, UpdateTells, Exists
  <2>4. TableTypes' /\ CallsAreApart'
    BY <2>1 DEF TableInv, TableTypes, CallsAreApart, CallOf
  <2> QED
    BY <2>1, <2>3, <2>4 DEF TableInv
<1>5. 0 \in 0..2 /\ 1..2 \subseteq 0..2 /\ {"insert", "update"} \subseteq CallKinds
  BY DEF CallKinds
<1> QED
  BY <1>1, <1>2, <1>3, <1>4, <1>5, InsertKeepsTableInv, UpdateKeepsTableInv, UpsertKeepsTableInv DEF TablesNext

------------------------------------------------------------------------------
(* All of the parts together *)

PartsInv == /\ TimerInv /\ RepeaterInv /\ RateInv /\ MapInv /\ CacheInv /\ FileInv /\ RequestInv /\ AccountInv
            /\ PoolInv /\ WaitInv /\ ExecutorInv /\ EventInv /\ GrapherInv /\ StoreInv /\ OptionInv /\ TableInv
            /\ CommandInv /\ LogInv

\* Each part of a process starts in its first state.
LEMMA PartsInvInit == Init => PartsInv
  BY TimerInvInit, RepeaterInvInit, RateInvInit, MapInvInit, CacheInvInit, FileInvInit, RequestInvInit,
     AccountInvInit, PoolInvInit, WaitInvInit, ExecutorInvInit, EventInvInit, GrapherInvInit, StoreInvInit,
     OptionInvInit, TableInvInit, CommandInvInit, LogInvInit
  DEF Init, PartsInv

\* A step of the process is of each part a step or none.
LEMMA StepIsOfParts ==
    ASSUME [Next]_<<servicesVars, part>>
    PROVE  /\ [TimerSteps]_timerVars /\ [RepeaterSteps]_repeaterVars /\ [RateNext]_rateVars /\ [MapNext]_mapVars
           /\ [CacheNext]_cacheVars /\ [FileCacheNext]_fileCacheVars /\ [RequestNext]_requestVars
           /\ [AccountsNext \/ TemporaryNext]_accountVars /\ [PoolNext]_poolVars /\ [WaitNext]_waitVars
           /\ [ExecutorNext]_executorVars /\ [EventNext]_eventVars /\ [GrapherNext]_grapherVars
           /\ [StoreNext]_storeVars /\ [OptionNext]_optionVars /\ [TablesNext]_tableVars
           /\ [CommandsNext]_commandVars /\ [LogNext]_logVars
<1>1. CASE Next
  <2>1. [TimerSteps]_timerVars /\ [RepeaterSteps]_repeaterVars /\ [RateNext]_rateVars /\ [MapNext]_mapVars
    BY <1>1 DEF Next, earlierVars
  <2>2. [CacheNext]_cacheVars /\ [FileCacheNext]_fileCacheVars
    BY <1>1 DEF Next, earlierVars
  <2>3. [RequestNext]_requestVars /\ [AccountsNext \/ TemporaryNext]_accountVars
    BY <1>1 DEF Next, earlierVars, laterVars
  <2>4. [PoolNext]_poolVars /\ [WaitNext]_waitVars /\ [EventNext]_eventVars
    BY <1>1 DEF Next, earlierVars
  <2>5. [ExecutorNext]_executorVars /\ [GrapherNext]_grapherVars /\ [TablesNext]_tableVars
    BY <1>1 DEF Next, laterVars
  <2>6. [StoreNext]_storeVars /\ [OptionNext]_optionVars
    BY <1>1 DEF Next, earlierVars
  <2>7. [CommandsNext]_commandVars /\ [LogNext]_logVars
    BY <1>1 DEF Next, laterVars
  <2> QED
    BY <2>1, <2>2, <2>3, <2>4, <2>5, <2>6, <2>7
<1>2. CASE UNCHANGED <<servicesVars, part>>
  BY <1>2 DEF servicesVars, earlierVars, laterVars
<1> QED
  BY <1>1, <1>2

\* A step of the process keeps the invariant of each part.
LEMMA PartsInvStep == PartsInv /\ [Next]_<<servicesVars, part>> => PartsInv'
<1> SUFFICES ASSUME PartsInv, [Next]_<<servicesVars, part>> PROVE PartsInv'
  OBVIOUS
<1>1. (TimerInv /\ RepeaterInv /\ RateInv /\ MapInv)'
  BY StepIsOfParts, TimerInvStep, RepeaterInvStep, RateInvStep, MapInvStep DEF PartsInv
<1>2. (CacheInv /\ FileInv /\ RequestInv /\ AccountInv)'
  BY StepIsOfParts, CacheInvStep, FileInvStep, RequestInvStep, AccountInvStep DEF PartsInv
<1>3. (PoolInv /\ WaitInv /\ ExecutorInv /\ EventInv)'
  BY StepIsOfParts, PoolInvStep, WaitInvStep, ExecutorInvStep, EventInvStep DEF PartsInv
<1>4. (GrapherInv /\ StoreInv /\ OptionInv /\ TableInv)'
  BY StepIsOfParts, GrapherInvStep, StoreInvStep, OptionInvStep, TableInvStep DEF PartsInv
<1>5. (CommandInv /\ LogInv)'
  BY StepIsOfParts, CommandInvStep, LogInvStep DEF PartsInv
<1> QED
  BY <1>1, <1>2, <1>3, <1>4, <1>5 DEF PartsInv

\* So it holds of every behaviour.
LEMMA PartsInvHolds == Spec => []PartsInv
  BY PartsInvInit, PartsInvStep, PTL DEF Spec

\* The variables of the timers, the rate limits, the map and the processes have their types.
THEOREM ServicesAreTyped == Spec => []ServicesTypeOK
<1>1. PartsInv => ServicesTypeOK
  BY TimerTypesGive, RateInvGives, MapInvGives, ProcessesGive DEF PartsInv, ServicesTypeOK
<1> QED
  BY <1>1, PartsInvHolds, PTL

(* A Timer that no two calls overlap on has the timer it waits for and     *)
(* counts those that are pending; the loop of a Repeater that another Set  *)
(* superseded takes one tick more at the most, and Stop leaves no ticker;  *)
(* RateLimiters hands each of its functions its own limiter, whose         *)
(* frequency never is above the maximum.                                   *)
THEOREM TimingStaysKept == Spec => []TimingIsKept
<1>1. PartsInv => TimingIsKept
  BY TimerInvGives, RepeaterInvGives, RateInvGives DEF PartsInv, TimingIsKept, TimersAreKept
<1> QED
  BY <1>1, PartsInvHolds, PTL

(* What an ExpiringMap, a Cache, zfilecache or zrequests has been given is *)
(* there until it expires, is removed, or two goroutines disturb each      *)
(* other the way the history variables tell; nothing that expired or was   *)
(* released is handed out.                                                 *)
THEOREM ExpiryStaysKept == Spec => []ExpiryIsKept
<1>1. PartsInv => ExpiryIsKept
  BY MapInvGives, CacheInvGives, FileInvGives DEF PartsInv, ExpiryIsKept, RequestInv, RequestsAreKept
<1> QED
  BY <1>1, PartsInvHolds, PTL

(* zusers: two users never have one name; where handlers come one at a     *)
(* time and no statement fails, each session is of a user, with its        *)
(* password and permissions, and a token is good once.                     *)
THEOREM AccountsStayKept == Spec => []AccountsAreKept
<1>1. PartsInv => AccountsAreKept
  BY AccountInvGives DEF PartsInv
<1> QED
  BY <1>1, PartsInvHolds, PTL

(* A WorkerPool does each item once, a wait ends for the reason it gives,  *)
(* the main thread runs what it is sent once, and a graph job has drawn    *)
(* each column up to the time it says.                                     *)
THEOREM JobsStayKept == Spec => []JobsAreKept
<1>1. PartsInv => JobsAreKept
  BY ProcessesGive, GrapherInvGives DEF PartsInv, JobsAreKept
<1> QED
  BY <1>1, PartsInvHolds, PTL

(* zkeyvalue: a user's keys are its own, an Option has what is stored and  *)
(* the file follows; zcommands: a session is where its way from the root   *)
(* leads, and what it types is looked up from there; zsql: an InsertRows   *)
(* that fails tells of its rows but one, and UpdateRows writes the first   *)
(* row it was given only; zfilelog: a line is in the log or its backup but *)
(* for what the code cannot keep, in order, and paging reads each once.    *)
THEOREM StoresStayKept == Spec => []StoresAreKept
<1>1. PartsInv => StoresAreKept
  BY KeyValuesGive, CommandInvGives, TableInvGives, LogInvGives DEF PartsInv, StoresAreKept
<1> QED
  BY <1>1, PartsInvHolds, PTL
=================================================================================
