------------------------------- MODULE Timers --------------------------------
(***************************************************************************)
(* ztimer's Timer and Repeater: what one goroutine that starts and stops   *)
(* them does beside the functions and loops that they run.  A start is a   *)
(* number; the function of an earlier start, or the loop of an earlier     *)
(* Set, may still be at work after a later one.                            *)
(***************************************************************************)
EXTENDS Integers, FiniteSets

CONSTANTS
    Starts,   \* numbers of the calls of StartIn, and of Set: 1..n (a bound)
    StopRoom  \* the size of r.stop, for 5

ASSUME TimerAssumption ==
    IsFiniteSet(Starts) /\ Starts = 1..Cardinality(Starts) /\ StopRoom \in Nat \ {0}

None == 0

VARIABLES
    timer,       \* t.timer: the start whose time.Timer it is, or None
    timersCount, \* timersCount[secs]
    funcs,       \* the time.AfterFunc of each start
    owner,       \* what the goroutine that has the Timer is doing
    overlapped   \* Stop or StartIn has been at work beside a function that had fired

timerVars == <<timer, timersCount, funcs, owner, overlapped>>

TimerInit ==
    /\ timer = None /\ timersCount = 0
    /\ funcs = [n \in Starts |-> "unused"]
    /\ owner = [does |-> "nothing", old |-> None]
    /\ overlapped = FALSE

Owner(does, old) == [does |-> does, old |-> old]
IsNext(n) == funcs[n] = "unused" /\ \A m \in Starts : m < n => funcs[m] # "unused"
AtWork == \E n \in Starts : funcs[n] \in {"fired", "counted"}

\* Whether the owner and a function that has fired are now at work together
Overlaps == overlapped' = (overlapped \/ (owner'.does # "nothing" /\ AtWork'))

------------------------------------------------------------------------------
(* Timer *)

\* Stop, on its own or first in StartIn: looks at t.timer and takes it off the count.
BeginStop(next) ==
    /\ owner.does = "nothing"
    /\ IF timer = None
       THEN owner' = Owner(next, None) /\ UNCHANGED timersCount
       ELSE owner' = Owner(next, timer) /\ timersCount' = timersCount - 1
    /\ UNCHANGED <<timer, funcs>> /\ Overlaps

\* A function that has fired cannot be stopped.
StoppedFuncs ==
    [n \in Starts |-> IF n = owner.old /\ funcs[n] = "pending" THEN "stopped" ELSE funcs[n]]

EndStop ==
    /\ owner.does \in {"stop", "start"}
    /\ funcs' = StoppedFuncs
    /\ timer' = IF owner.old = None THEN timer ELSE None
    /\ owner' = IF owner.does = "stop" THEN Owner("nothing", None) ELSE Owner("restart", None)
    /\ UNCHANGED timersCount /\ Overlaps

\* The second half of StartIn: the function may fire before t.timer is set to its timer.
StartIn(n) ==
    /\ owner.does = "restart" /\ IsNext(n)
    /\ timersCount' = timersCount + 1
    /\ funcs' = [funcs EXCEPT ![n] = "pending"]
    /\ owner' = Owner("assign", n)
    /\ UNCHANGED timer /\ Overlaps

AssignTimer ==
    /\ owner.does = "assign"
    /\ timer' = owner.old
    /\ owner' = Owner("nothing", None)
    /\ UNCHANGED <<timersCount, funcs>> /\ Overlaps

Fire(n) ==
    /\ funcs[n] = "pending"
    /\ funcs' = [funcs EXCEPT ![n] = "fired"]
    /\ UNCHANGED <<timer, timersCount, owner>> /\ Overlaps

CountDown(n) ==
    /\ funcs[n] = "fired"
    /\ timersCount' = timersCount - 1
    /\ funcs' = [funcs EXCEPT ![n] = "counted"]
    /\ UNCHANGED <<timer, owner>> /\ Overlaps

\* t.timer = nil, whichever timer is there now; then perform is called.
Perform(n) ==
    /\ funcs[n] = "counted"
    /\ timer' = None
    /\ funcs' = [funcs EXCEPT ![n] = "performed"]
    /\ UNCHANGED <<timersCount, owner>> /\ Overlaps

TimerSteps ==
    \/ BeginStop("stop")
    \/ (\E n \in Starts : IsNext(n)) /\ BeginStop("start")
    \/ EndStop \/ AssignTimer
    \/ \E n \in Starts : StartIn(n) \/ Fire(n) \/ CountDown(n) \/ Perform(n)

------------------------------------------------------------------------------
(* Repeater *)

VARIABLES
    ticker,     \* r.ticker: the Set that made it, or None
    ticks,      \* tickers with a tick in their channel
    stopChan,   \* r.stop: the Set that made it
    stops,      \* how many messages each stop channel holds
    loops,      \* the goroutine of each Set
    stopCalls,  \* calls of Stop that are waiting for room in a channel, by channel
    late        \* how often a loop has called its function after a later Set

repeaterVars == <<ticker, ticks, stopChan, stops, loops, stopCalls, late>>

Loop(phase, of, on) == [phase |-> phase, ticks |-> of, stop |-> on]

RepeaterInit ==
    /\ ticker = None /\ ticks = {} /\ stopChan = None
    /\ stops = [n \in Starts |-> 0]
    /\ loops = [n \in Starts |-> Loop("unused", None, None)]
    /\ stopCalls = 0
    /\ late = [n \in Starts |-> 0]

IsNextSet(n) ==
    loops[n].phase = "unused" /\ \A m \in Starts : m < n => loops[m].phase # "unused"
MaxLate == 1  \* `late` counts to one more (a bound)

Performs(n) == late' = [late EXCEPT ![n] = IF stopChan # n /\ @ <= MaxLate THEN @ + 1 ELSE @]

\* The earlier ticker is stopped, not its loop.
Set(n, now) ==
    /\ IsNextSet(n)
    /\ ticker' = n /\ stopChan' = n
    /\ loops' = [loops EXCEPT ![n] = Loop(IF now THEN "now" ELSE "begins", None, None)]
    /\ UNCHANGED <<ticks, stops, stopCalls, late>>

\* A stopped ticker sends no more; its channel may hold a tick already.
Tick ==
    /\ ticker # None /\ ticker \notin ticks
    /\ ticks' = ticks \cup {ticker}
    /\ UNCHANGED <<ticker, stopChan, stops, loops, stopCalls, late>>

\* perform before the loop: if it says to stop, the goroutine returns at once.
PerformNow(n, goesOn) ==
    /\ loops[n].phase = "now"
    /\ loops' = [loops EXCEPT ![n].phase = IF goesOn THEN "begins" ELSE "returned"]
    /\ Performs(n)
    /\ UNCHANGED <<ticker, ticks, stopChan, stops, stopCalls>>

\* t := r.ticker may be a later Set's by now, or none.
BeginLoop(n) ==
    /\ loops[n].phase = "begins"
    /\ loops' = [loops EXCEPT ![n] = IF ticker = None THEN Loop("returned", None, None)
                                     ELSE Loop("looks", ticker, None)]
    /\ UNCHANGED <<ticker, ticks, stopChan, stops, stopCalls, late>>

\* The select waits on the stop channel that is in r now.
Select(n) ==
    /\ loops[n].phase = "looks"
    /\ loops' = [loops EXCEPT ![n].phase = "selects", ![n].stop = stopChan]
    /\ UNCHANGED <<ticker, ticks, stopChan, stops, stopCalls, late>>

TakeTick(n) ==
    /\ loops[n].phase = "selects" /\ loops[n].ticks \in ticks
    /\ ticks' = ticks \ {loops[n].ticks}
    /\ loops' = [loops EXCEPT ![n].phase = "performs"]
    /\ Performs(n)
    /\ UNCHANGED <<ticker, stopChan, stops, stopCalls>>

PerformReturns(n, goesOn) ==
    /\ loops[n].phase = "performs"
    /\ loops' = [loops EXCEPT ![n].phase = IF goesOn THEN "looks" ELSE "stopsItself"]
    /\ UNCHANGED <<ticker, ticks, stopChan, stops, stopCalls, late>>

\* r.stop <- true by the loop itself, which is the one that reads it
StopItself(n) ==
    /\ loops[n].phase = "stopsItself" /\ stops[stopChan] < StopRoom
    /\ stops' = [stops EXCEPT ![stopChan] = @ + 1]
    /\ loops' = [loops EXCEPT ![n].phase = "looks"]
    /\ UNCHANGED <<ticker, ticks, stopChan, stopCalls, late>>

\* Mutant: the ticker stays.
TickerAfterKept == ticker

TickerAfter == None

\* Mutant: the return of that case leaves the select alone.
TakeStopGoesOn(n) ==
    /\ loops[n].phase = "selects" /\ stops[loops[n].stop] > 0
    /\ stops' = [stops EXCEPT ![loops[n].stop] = @ - 1]
    /\ loops' = [loops EXCEPT ![n].phase = "looks"]
    /\ UNCHANGED <<ticker, ticks, stopChan, stopCalls, late>>

\* The loop stops and forgets whichever ticker is in r.
TakeStop(n) ==
    /\ loops[n].phase = "selects" /\ stops[loops[n].stop] > 0
    /\ stops' = [stops EXCEPT ![loops[n].stop] = @ - 1]
    /\ ticker' = TickerAfter
    /\ loops' = [loops EXCEPT ![n].phase = "stopped"]
    /\ UNCHANGED <<ticks, stopChan, stopCalls, late>>

\* Stop, when there is a ticker and room in r.stop (one call of it for each start and one more)
Stop ==
    /\ ticker # None /\ stops[stopChan] < StopRoom /\ stopCalls <= Cardinality(Starts)
    /\ stopCalls' = stopCalls + 1
    /\ stops' = [stops EXCEPT ![stopChan] = @ + 1]
    /\ UNCHANGED <<ticker, ticks, stopChan, loops, late>>

LoopSteps(n) ==
    \/ BeginLoop(n) \/ Select(n) \/ TakeTick(n) \/ StopItself(n) \/ TakeStop(n)
    \/ \E goesOn \in BOOLEAN : PerformNow(n, goesOn) \/ PerformReturns(n, goesOn)

RepeaterSteps ==
    \/ \E n \in Starts : LoopSteps(n) \/ \E now \in BOOLEAN : Set(n, now)
    \/ Tick \/ Stop

\* A loop goes on, and a select of which two cases are ready again and again takes each of
\* them some time: Go picks one at random.
RepeaterFairness == \A n \in Starts : WF_repeaterVars(LoopSteps(n)) /\ SF_repeaterVars(TakeStop(n))

------------------------------------------------------------------------------
(* Properties *)

Counted == { n \in Starts : funcs[n] \in {"pending", "fired"} }
Waited == { n \in Starts : funcs[n] \in {"pending", "fired", "counted"} }

TimersTypeOK ==
    /\ timer \in Starts \cup {None} /\ ticker \in Starts \cup {None}
    /\ funcs \in [Starts -> {"unused", "pending", "fired", "counted", "performed", "stopped"}]
    /\ stops \in [Starts -> 0..StopRoom]

\* The Timer is that of the function that is to come, and it is counted, unless Stop or
\* StartIn ever ran beside a function that had fired: those write the same two fields.
TimerIsOfPending ==
    ~overlapped /\ owner.does = "nothing" =>
        /\ Waited = IF timer = None THEN {} ELSE {timer}
        /\ timersCount = Cardinality(Counted)

\* A loop that took the ticker of its own Set calls its function once more at the most after a
\* later Set: for a tick that was waiting.
SupersededLoopRests ==
    \A n \in Starts : loops[n].ticks = n => late[n] <= MaxLate

\* When a loop has stopped and no Set came after, Stop has nothing more to do and the tick is
\* gone with the loop.
StoppedHasNoTicker ==
    \A n \in Starts : loops[n].phase = "stopped" /\ stopChan = n => ticker = None

TimersAreKept == TimerIsOfPending /\ SupersededLoopRests /\ StoppedHasNoTicker

\* With one Set, whose loop has begun, a Stop ends it, however many ticks are ready too.
StopEndsLoop ==
    (stopChan = 1 /\ stops[1] > 0 /\ loops[1].phase = "selects")
        ~> (loops[1].phase = "stopped" \/ stopChan # 1 \/ loops[1].phase = "stopsItself")
==============================================================================
