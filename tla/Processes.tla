------------------------------ MODULE Processes -------------------------------
(***************************************************************************)
(* zprocess: PoolWorkOnItems, RunFuncUntilContextDone, OnceWait and the    *)
(* executor of the main thread, and the notification center of zhttp's     *)
(* server-sent events.                                                     *)
(***************************************************************************)
EXTENDS Naturals, FiniteSets, Sequences

CONSTANTS
    PoolWorkers,  \* goroutines of a pool
    WorkItems,    \* the items are 1..WorkItems
    Waiters,      \* goroutines that call Wait of one OnceWait
    Subscribers   \* requests for events

ASSUME ProcessAssumption ==
    /\ WorkItems \in Nat /\ PoolWorkers # {}
    /\ Waiters \cap {"nothing", "unstarted", "blocked"} = {}

VARIABLES
    jobs,         \* the items in the channel
    nextItem,     \* the item that is sent next
    closed,       \* the channel is closed
    workers,      \* the item each worker is at, or 0, or Left
    done,         \* how often do() was called, by item
    waitCount,    \* the count of wg
    returned      \* PoolWorkOnItems has returned

poolVars == <<jobs, nextItem, closed, workers, done, waitCount, returned>>

Left == WorkItems + 1

PoolInit ==
    /\ jobs = <<>> /\ nextItem = 1 /\ closed = FALSE
    /\ workers = [w \in PoolWorkers |-> 0]
    /\ done = [i \in 1..WorkItems |-> 0]
    /\ waitCount = WorkItems /\ returned = FALSE

\* The channel has room for every item.
SendJob ==
    /\ nextItem <= WorkItems
    /\ jobs' = Append(jobs, nextItem) /\ nextItem' = nextItem + 1
    /\ UNCHANGED <<closed, workers, done, waitCount, returned>>

CloseJobs ==
    /\ nextItem > WorkItems /\ ~closed /\ closed' = TRUE
    /\ UNCHANGED <<jobs, nextItem, workers, done, waitCount, returned>>

TakeJob(w) ==
    /\ workers[w] = 0 /\ jobs # <<>>
    /\ workers' = [workers EXCEPT ![w] = Head(jobs)] /\ jobs' = Tail(jobs)
    /\ UNCHANGED <<nextItem, closed, done, waitCount, returned>>

\* Mutant: wg.Done is called once more, where the goroutine has deferred it.
CountAfterTwice == waitCount - 2

CountAfter == waitCount - 1

DoJob(w) ==
    /\ workers[w] \in 1..WorkItems
    /\ done' = [done EXCEPT ![workers[w]] = @ + 1]
    /\ workers' = [workers EXCEPT ![w] = 0]
    /\ waitCount' = CountAfter
    /\ UNCHANGED <<jobs, nextItem, closed, returned>>

WorkerEnds(w) ==
    /\ workers[w] = 0 /\ jobs = <<>> /\ closed
    /\ workers' = [workers EXCEPT ![w] = Left]
    /\ UNCHANGED <<jobs, nextItem, closed, done, waitCount, returned>>

PoolReturns ==
    /\ closed /\ waitCount = 0 /\ ~returned /\ returned' = TRUE
    /\ UNCHANGED <<jobs, nextItem, closed, workers, done, waitCount>>

PoolNext ==
    \/ SendJob \/ CloseJobs \/ PoolReturns
    \/ \E w \in PoolWorkers : TakeJob(w) \/ DoJob(w) \/ WorkerEnds(w)

------------------------------------------------------------------------------
(* RunFuncUntilContextDone, and OnceWait *)

VARIABLES
    running,      \* the goroutine of do(): "unused", "runs", "sends" or "ended"
    doneChannel,  \* how many messages it holds
    contextDone,  \* the context is done
    completed,    \* what RunFuncUntilContextDone has returned, or "waits"
    ready,        \* OnceWait's ready is closed
    waits         \* what each Wait has returned, or "unused" or "waits"

waitVars == <<running, doneChannel, contextDone, completed, ready, waits>>

WaitInit ==
    /\ running = "unused" /\ doneChannel = 0 /\ contextDone = FALSE /\ completed = "unused"
    /\ ready = FALSE /\ waits = [w \in Waiters |-> "unused"]

\* Without a deadline do() is called by the caller itself.
RunFunc(deadline) ==
    /\ running = "unused"
    /\ IF deadline THEN running' = "runs" /\ completed' = "waits"
                   ELSE running' = "ended" /\ completed' = "yes"
    /\ UNCHANGED <<doneChannel, contextDone, ready, waits>>

FuncReturns ==
    /\ running = "runs" /\ running' = "sends"
    /\ UNCHANGED <<doneChannel, contextDone, completed, ready, waits>>

\* There is room: the goroutine ends although no one may be waiting any more.
SendDone ==
    /\ running = "sends" /\ doneChannel < 2
    /\ running' = "ended" /\ doneChannel' = doneChannel + 1
    /\ UNCHANGED <<contextDone, completed, ready, waits>>

DeadlinePasses ==
    /\ completed = "waits" /\ ~contextDone /\ contextDone' = TRUE
    /\ UNCHANGED <<running, doneChannel, completed, ready, waits>>

FuncCompleted ==
    /\ completed = "waits" /\ doneChannel > 0
    /\ completed' = "yes" /\ doneChannel' = doneChannel - 1
    /\ UNCHANGED <<running, contextDone, ready, waits>>

\* Mutant: both cases of the select return true.
FuncTimedOutTrue ==
    /\ completed = "waits" /\ contextDone /\ completed' = "yes"
    /\ UNCHANGED <<running, doneChannel, contextDone, ready, waits>>

FuncTimedOut ==
    /\ completed = "waits" /\ contextDone /\ completed' = "no"
    /\ UNCHANGED <<running, doneChannel, contextDone, ready, waits>>

\* Done may be called again.
Done ==
    /\ ready' = TRUE
    /\ UNCHANGED <<running, doneChannel, contextDone, completed, waits>>

Wait(w) ==
    /\ waits[w] = "unused" /\ waits' = [waits EXCEPT ![w] = "waits"]
    /\ UNCHANGED <<running, doneChannel, contextDone, completed, ready>>

WaitReturns(w) ==
    /\ waits[w] = "waits" /\ ready /\ waits' = [waits EXCEPT ![w] = "ready"]
    /\ UNCHANGED <<running, doneChannel, contextDone, completed, ready>>

WaitTimesOut(w) ==
    /\ waits[w] = "waits" /\ waits' = [waits EXCEPT ![w] = "timed out"]
    /\ UNCHANGED <<running, doneChannel, contextDone, completed, ready>>

WaitNext ==
    \/ \E deadline \in BOOLEAN : RunFunc(deadline)
    \/ FuncReturns \/ SendDone \/ DeadlinePasses \/ FuncCompleted \/ FuncTimedOut \/ Done
    \/ \E w \in Waiters : Wait(w) \/ WaitReturns(w) \/ WaitTimesOut(w)

------------------------------------------------------------------------------
(* The executor of the main thread *)

VARIABLES
    exeChannel,   \* MainThreadExeCh has been made
    mainRuns,     \* whose function the main thread runs, or "nothing", "unstarted" or "blocked"
    asks,         \* what each caller is doing: "unused", "sends", "waits", "lost" or "returned"
    waitsFor,     \* callers that use RunAndWaitForFuncInMainThread
    ran           \* how often the function of each caller has run

executorVars == <<exeChannel, mainRuns, asks, waitsFor, ran>>

ExecutorInit ==
    /\ exeChannel = FALSE /\ mainRuns = "unstarted"
    /\ asks = [w \in Waiters |-> "unused"] /\ waitsFor = {} /\ ran = [w \in Waiters |-> 0]

OnThreadExecutor ==
    /\ mainRuns = "unstarted" /\ exeChannel' = TRUE /\ mainRuns' = "nothing"
    /\ UNCHANGED <<asks, waitsFor, ran>>

\* Before it is made the channel is nil, and a send to that never ends.
RunFuncInMainThread(w, thenWaits) ==
    /\ asks[w] = "unused"
    /\ asks' = [asks EXCEPT ![w] = IF exeChannel THEN "sends" ELSE "lost"]
    /\ waitsFor' = IF thenWaits THEN waitsFor \cup {w} ELSE waitsFor
    /\ UNCHANGED <<exeChannel, mainRuns, ran>>

AfterSend(w) == IF w \in waitsFor THEN "waits" ELSE "returned"

\* The channel has no room: the send ends when the function is taken.
TakeFunc(w) ==
    /\ mainRuns = "nothing" /\ asks[w] = "sends"
    /\ mainRuns' = w /\ asks' = [asks EXCEPT ![w] = AfterSend(w)]
    /\ UNCHANGED <<exeChannel, waitsFor, ran>>

FuncEnds(w) ==
    /\ mainRuns = w
    /\ mainRuns' = "nothing" /\ ran' = [ran EXCEPT ![w] = @ + 1]
    /\ asks' = [asks EXCEPT ![w] = "returned"]
    /\ UNCHANGED <<exeChannel, waitsFor>>

\* The function itself sends one, which nothing is left to take.
FuncSends(w) ==
    /\ mainRuns = w /\ mainRuns' = "blocked"
    /\ UNCHANGED <<exeChannel, asks, waitsFor, ran>>

ExecutorNext ==
    \/ OnThreadExecutor
    \/ \E w \in Waiters :
          TakeFunc(w) \/ FuncEnds(w) \/ FuncSends(w) \/ \E thenWaits \in BOOLEAN : RunFuncInMainThread(w, thenWaits)

------------------------------------------------------------------------------
(* Server-sent events *)

VARIABLES
    subscribers,  \* the map of channels
    events,       \* what the handler of each request is doing
    gone,         \* requests whose client is gone
    notifying,    \* channels that NotifyWithJson, which has the lock, has not come to yet
    locked        \* who has subscribersMu: "no one", "notifier" or "lost"

eventVars == <<subscribers, events, gone, notifying, locked>>

EventInit ==
    /\ subscribers = {} /\ gone = {} /\ notifying = {} /\ locked = "no one"
    /\ events = [s \in Subscribers |-> "unused"]

Subscribe(s) ==
    /\ events[s] = "unused" /\ locked = "no one"
    /\ subscribers' = subscribers \cup {s}
    /\ events' = [events EXCEPT ![s] = "looks"]
    /\ UNCHANGED <<gone, notifying, locked>>

ClientLeaves(s) ==
    /\ events[s] # "unused" /\ s \notin gone /\ gone' = gone \cup {s}
    /\ UNCHANGED <<subscribers, events, notifying, locked>>

\* The select has a default: if the client is still there the handler waits for an event only.
Look(s) ==
    /\ events[s] = "looks"
    /\ events' = [events EXCEPT ![s] = IF s \in gone THEN "leaves" ELSE "receives"]
    /\ UNCHANGED <<subscribers, gone, notifying, locked>>

Unsubscribe(s) ==
    /\ events[s] = "leaves" /\ locked = "no one"
    /\ subscribers' = subscribers \ {s}
    /\ events' = [events EXCEPT ![s] = "ended"]
    /\ UNCHANGED <<gone, notifying, locked>>

\* NotifyWithJson: if v cannot be marshalled it returns with the lock.
Notify(marshals) ==
    /\ locked = "no one"
    /\ IF marshals THEN locked' = "notifier" /\ notifying' = subscribers
                   ELSE locked' = "lost" /\ UNCHANGED notifying
    /\ UNCHANGED <<subscribers, events, gone>>

\* The send is left out if the handler is not at its channel.
SendEvent(s) ==
    /\ locked = "notifier" /\ s \in notifying
    /\ notifying' = notifying \ {s}
    /\ events' = [events EXCEPT ![s] = IF @ = "receives" THEN "looks" ELSE @]
    /\ UNCHANGED <<subscribers, gone, locked>>

NotifyEnds ==
    /\ locked = "notifier" /\ notifying = {} /\ locked' = "no one"
    /\ UNCHANGED <<subscribers, events, gone, notifying>>

NotifierSteps == Notify(TRUE) \/ NotifyEnds \/ \E s \in Subscribers : SendEvent(s)
HandlerSteps(s) == Look(s) \/ Unsubscribe(s)

EventNext ==
    \/ NotifierSteps \/ Notify(FALSE)
    \/ \E s \in Subscribers : Subscribe(s) \/ ClientLeaves(s) \/ HandlerSteps(s)

\* Handlers go on, and once there was a request there is always another event to come.  The main
\* thread takes functions while there are, and those end.
ProcessFairness ==
    /\ WF_eventVars((\E s \in Subscribers : events[s] # "unused") /\ NotifierSteps)
    /\ \A s \in Subscribers : WF_eventVars(Look(s)) /\ SF_eventVars(Unsubscribe(s))
    /\ WF_executorVars(\E w \in Waiters : TakeFunc(w) \/ FuncEnds(w))

------------------------------------------------------------------------------
(* Properties *)

ProcessTypeOK ==
    /\ waitCount \in 0..WorkItems /\ nextItem \in 1..Left
    /\ workers \in [PoolWorkers -> 0..Left]
    /\ mainRuns \in Waiters \cup {"nothing", "unstarted", "blocked"}
    /\ subscribers \subseteq Subscribers /\ notifying \subseteq Subscribers

\* zprocess.go:39, "processing all in goroutines": PoolWorkOnItems returns when every item has
\* been done once, no goroutine is left at one, and the caller is never left with none to wait for.
PoolIsComplete ==
    /\ (\A w \in PoolWorkers : workers[w] = Left) => waitCount = 0
    /\ returned => \A i \in 1..WorkItems : done[i] = 1
    /\ returned => \A w \in PoolWorkers : workers[w] \in {0, Left}

\* zprocess.go:71, "If it finishes it returns completed = true": it says so only if do() has
\* returned, and a Wait returns without an error only after Done.
WaitsAreHonest ==
    /\ completed = "yes" => running = "ended"
    /\ \A w \in Waiters : waits[w] = "ready" => ready

\* A channel in the map has a handler that will come to it, and the other way round.
SubscribersAreServed ==
    \A s \in Subscribers : s \in subscribers <=> events[s] \in {"looks", "receives", "leaves"}

\* zprocess.go:202, RunAndWaitForFuncInMainThread: it returns when its function has run, a function runs
\* once, and none before the main thread has started to take them.
MainThreadRunsOnce ==
    /\ \A w \in waitsFor : asks[w] = "returned" => ran[w] = 1
    /\ \A w \in Waiters : ran[w] <= (IF asks[w] = "returned" THEN 1 ELSE 0)
    /\ \A w \in Waiters : asks[w] = "lost" => ran[w] = 0
    /\ (\E w \in Waiters : ran[w] = 1) => exeChannel

WorkIsKept == PoolIsComplete /\ WaitsAreHonest /\ SubscribersAreServed /\ MainThreadRunsOnce

\* zprocess.go:176, "push functions you want to run on the thread": a time comes when none that was sent to
\* the main thread, after that began to take them, is left, unless one that runs there sends another.
SentIsRun ==
    (\E w \in Waiters : asks[w] \in {"sends", "waits"})
        ~> (mainRuns = "blocked" \/ \A w \in Waiters : asks[w] \notin {"sends", "waits"})

\* The handlers of clients that are gone end after later events, unless the lock was lost.
GoneIsRemoved ==
    (\E s \in gone : events[s] # "ended") ~> (locked = "lost" \/ \A s \in gone : events[s] = "ended")
==============================================================================
