------------------------------ MODULE PartsProofs ------------------------------
(***************************************************************************)
(* Proofs about the parts of a process that several goroutines share:      *)
(* Timer, Repeater, RateLimiters, ExpiringMap, Cache, the files of         *)
(* zfilecache, zusers and zrequests.  A section gives the inductive        *)
(* invariant of one part, that it holds of the first state, that each step *)
(* keeps it, and which property follows.                                   *)
(***************************************************************************)
EXTENDS Timers, RateLimits, Caches, FileCaches, RequestLogs, UserAccounts, FiniteSetTheorems, TLAPS

------------------------------------------------------------------------------
(* Timer: its starts, and its owner that starts and stops it *)

FuncPhases == {"unused", "pending", "fired", "counted", "performed", "stopped"}
OwnerPhases == {"nothing", "stop", "start", "restart", "assign"}

\* Whether the function of a start is still to come, all the way or in part.
IsWaited(n) == funcs[n] \in {"pending", "fired", "counted"}
IsCounted(n) == funcs[n] \in {"pending", "fired"}
IsOnlyWaited(old) == \A n \in Starts : IsWaited(n) <=> n = old

TimerTypes ==
    /\ timer \in Starts \cup {None}
    /\ timersCount \in Int
    /\ funcs \in [Starts -> FuncPhases]
    /\ owner \in [does : OwnerPhases, old : Starts \cup {None}]
    /\ overlapped \in BOOLEAN
    /\ owner.does = "assign" => owner.old \in Starts

\* Between the steps of its owner the Timer is that of the function that is to come; within them
\* no function has fired, and the count is already, or not yet, that of what the owner will leave.
TimerIsInStep ==
    ~overlapped =>
        /\ owner.does # "nothing" => ~AtWork
        /\ owner.does = "nothing" =>
              /\ IsOnlyWaited(timer)
              /\ timersCount = IF timer # None /\ IsCounted(timer) THEN 1 ELSE 0
        /\ owner.does \in {"stop", "start"} =>
              owner.old = timer /\ IsOnlyWaited(timer) /\ timersCount = 0
        /\ owner.does = "restart" => timer = None /\ IsOnlyWaited(None) /\ timersCount = 0
        /\ owner.does = "assign" => timer = None /\ IsOnlyWaited(owner.old) /\ timersCount = 1

TimerInv == TimerTypes /\ TimerIsInStep

\* A start is a number, and none of them stands for no timer.
LEMMA StartsAreNumbers == Starts \subseteq Nat \ {0} /\ None \notin Starts
<1>1. Cardinality(Starts) \in Nat
  BY FS_CardinalityType, TimerAssumption
<1> QED
  BY <1>1, TimerAssumption DEF None

LEMMA TimerInvInit == TimerInit => TimerInv
<1> SUFFICES ASSUME TimerInit PROVE TimerInv
  OBVIOUS
<1>1. TimerTypes
  <2>1. owner = [does |-> "nothing", old |-> None] /\ timer = None /\ timersCount = 0 /\ overlapped = FALSE
    BY DEF TimerInit
  <2>2. funcs \in [Starts -> FuncPhases]
    BY DEF TimerInit, FuncPhases
  <2>3. owner \in [does : OwnerPhases, old : Starts \cup {None}] /\ owner.does = "nothing"
    BY <2>1 DEF OwnerPhases
  <2>4. overlapped \in BOOLEAN
    BY <2>1, Zenon
  <2> QED
    BY <2>1, <2>2, <2>3, <2>4 DEF TimerTypes
<1>2. IsOnlyWaited(timer)
  BY StartsAreNumbers DEF TimerInit, IsOnlyWaited, IsWaited
<1>3. owner.does = "nothing" /\ timer = None /\ timersCount = 0
  BY DEF TimerInit
<1> QED
  BY <1>1, <1>2, <1>3 DEF TimerInv, TimerIsInStep

LEMMA TimerInvGives == TimerInv => TimerIsOfPending
<1> SUFFICES ASSUME TimerInv, ~overlapped, owner.does = "nothing"
             PROVE  /\ Waited = IF timer = None THEN {} ELSE {timer}
                    /\ timersCount = Cardinality(Counted)
  BY DEF TimerIsOfPending
<1>1. /\ IsOnlyWaited(timer)
      /\ timersCount = IF timer # None /\ IsCounted(timer) THEN 1 ELSE 0
      /\ timer \in Starts \cup {None}
  BY DEF TimerInv, TimerIsInStep, TimerTypes
<1>2. Waited = IF timer = None THEN {} ELSE {timer}
  BY <1>1, StartsAreNumbers DEF Waited, IsOnlyWaited, IsWaited
<1>3. Counted = IF timer # None /\ IsCounted(timer) THEN {timer} ELSE {}
  BY <1>1, StartsAreNumbers DEF Counted, IsOnlyWaited, IsWaited, IsCounted
<1> QED
  BY <1>1, <1>2, <1>3, FS_EmptySet, FS_Singleton

LEMMA TimerInvStep == TimerInv /\ [TimerSteps]_timerVars => TimerInv'
<1> SUFFICES ASSUME TimerInv, [TimerSteps]_timerVars PROVE TimerInv'
  OBVIOUS
<1> USE StartsAreNumbers DEF FuncPhases, OwnerPhases
<1>1. ASSUME NEW next \in {"stop", "start"}, BeginStop(next) PROVE TimerInv'
  <2>1. /\ owner.does = "nothing" /\ owner' = [does |-> next, old |-> timer]
        /\ timersCount' = IF timer = None THEN timersCount ELSE timersCount - 1
        /\ timer' = timer /\ funcs' = funcs
        /\ overlapped' = (overlapped \/ AtWork)
    BY <1>1 DEF BeginStop, Owner, Overlaps, AtWork
  <2>2. TimerTypes'
    <3>1. overlapped' \in BOOLEAN
      BY <2>1, Zenon DEF TimerInv, TimerTypes, AtWork
    <3> QED
      BY <2>1, <3>1 DEF TimerInv, TimerTypes
  <2>3. TimerIsInStep'
    <3> SUFFICES ASSUME ~overlapped'
                 PROVE  /\ ~AtWork' /\ owner'.old = timer'
                        /\ IsOnlyWaited(timer)' /\ timersCount' = 0
      BY <2>1 DEF TimerIsInStep
    <3>1. ~overlapped /\ ~AtWork
      BY <2>1 DEF TimerInv, TimerTypes
    <3>2. /\ IsOnlyWaited(timer)
          /\ timersCount = IF timer # None /\ IsCounted(timer) THEN 1 ELSE 0
      BY <2>1, <3>1 DEF TimerInv, TimerIsInStep
    <3>3. (timer # None) => IsCounted(timer)
      BY <3>1, <3>2 DEF AtWork, TimerInv, TimerTypes, IsOnlyWaited, IsWaited, IsCounted
    <3> QED
      BY <2>1, <3>1, <3>2, <3>3 DEF AtWork, IsOnlyWaited, IsWaited
  <2> QED
    BY <2>2, <2>3 DEF TimerInv
<1>2. CASE EndStop
  BY <1>2 DEF EndStop, StoppedFuncs, Owner, Overlaps, AtWork, TimerInv, TimerTypes, TimerIsInStep, IsOnlyWaited,
      IsWaited, IsCounted
<1>3. ASSUME NEW n \in Starts, StartIn(n) PROVE TimerInv'
  BY <1>3 DEF StartIn, IsNext, Owner, Overlaps, AtWork, TimerInv, TimerTypes, TimerIsInStep, IsOnlyWaited,
      IsWaited, IsCounted
<1>4. CASE AssignTimer
  BY <1>4 DEF AssignTimer, Owner, Overlaps, AtWork, TimerInv, TimerTypes, TimerIsInStep, IsOnlyWaited,
      IsWaited, IsCounted
<1>5. ASSUME NEW n \in Starts, Fire(n) PROVE TimerInv'
  BY <1>5 DEF Fire, Owner, Overlaps, AtWork, TimerInv, TimerTypes, TimerIsInStep, IsOnlyWaited,
      IsWaited, IsCounted
<1>6. ASSUME NEW n \in Starts, CountDown(n) PROVE TimerInv'
  BY <1>6 DEF CountDown, Owner, Overlaps, AtWork, TimerInv, TimerTypes, TimerIsInStep, IsOnlyWaited,
      IsWaited, IsCounted
<1>7. ASSUME NEW n \in Starts, Perform(n) PROVE TimerInv'
  BY <1>7 DEF Perform, Owner, Overlaps, AtWork, TimerInv, TimerTypes, TimerIsInStep, IsOnlyWaited,
      IsWaited, IsCounted
<1>8. CASE UNCHANGED timerVars
  BY <1>8 DEF timerVars, AtWork, TimerInv, TimerTypes, TimerIsInStep, IsOnlyWaited, IsWaited, IsCounted
<1> QED
  BY <1>1, <1>2, <1>3, <1>4, <1>5, <1>6, <1>7, <1>8 DEF TimerSteps

------------------------------------------------------------------------------
(* Repeater: the loops of its Sets, their tickers and stop channels *)

LoopPhases == {"unused", "now", "begins", "looks", "selects", "performs", "stopsItself",
               "stopped", "returned"}

LoopRecords == [phase : LoopPhases, ticks : Starts \cup {None}, stop : Starts \cup {None}]

RepeaterTypes ==
    /\ stopChan \in Starts \cup {None}
    /\ ticker \in {None, stopChan}
    /\ ticks \subseteq Starts
    /\ stops \in [Starts -> 0..StopRoom]
    /\ loops \in [Starts -> LoopRecords]
    /\ late \in [Starts -> Nat]
    /\ \A n \in Starts : loops[n].phase = "selects" => loops[n].stop \in Starts

\* The last Set's stop channel and ticker are the ones in the Repeater: nothing of a later one is
\* there yet.
SetsAreInOrder ==
    \A n \in Starts :
        /\ loops[n].phase = "unused" <=> n > stopChan
        /\ n > stopChan => n \notin ticks
        /\ loops[n].phase \in {"unused", "now", "begins"} => loops[n].ticks = None

\* A loop of an earlier Set has called its function once since, or a tick is still waiting for it.
LateIsOnce ==
    \A n \in Starts :
        /\ n >= stopChan => late[n] = 0
        /\ n < stopChan /\ loops[n].ticks = n =>
              late[n] = 0 \/ (late[n] = 1 /\ n \notin ticks)

RepeaterInv == RepeaterTypes /\ SetsAreInOrder /\ LateIsOnce /\ StoppedHasNoTicker

LEMMA RepeaterInvInit == RepeaterInit => RepeaterInv
  BY StartsAreNumbers, TimerAssumption DEF RepeaterInit, RepeaterInv, RepeaterTypes, SetsAreInOrder, LateIsOnce,
      StoppedHasNoTicker, LoopPhases, LoopRecords, Loop, None

LEMMA RepeaterInvGives == RepeaterInv => SupersededLoopRests /\ StoppedHasNoTicker
  BY StartsAreNumbers DEF RepeaterInv, RepeaterTypes, LateIsOnce, SupersededLoopRests, MaxLate, None

LEMMA SetKeepsRepeaterInv ==
    ASSUME RepeaterInv, NEW n \in Starts, NEW now \in BOOLEAN, Set(n, now)
    PROVE  RepeaterInv'
<1> USE StartsAreNumbers DEF LoopPhases, LoopRecords, None
<1>1. n > stopChan /\ \A m \in Starts : m < n => m <= stopChan
  BY DEF Set, IsNextSet, RepeaterInv, RepeaterTypes, SetsAreInOrder
<1>2. RepeaterTypes'
  BY DEF Set, RepeaterInv, RepeaterTypes, Loop
<1>3. SetsAreInOrder'
  BY <1>1 DEF Set, RepeaterInv, RepeaterTypes, SetsAreInOrder, Loop
<1>4. LateIsOnce'
  BY <1>1 DEF Set, RepeaterInv, RepeaterTypes, LateIsOnce, Loop
<1>5. StoppedHasNoTicker'
  BY DEF Set, RepeaterInv, RepeaterTypes, StoppedHasNoTicker, Loop
<1> QED
  BY <1>2, <1>3, <1>4, <1>5 DEF RepeaterInv

\* A loop that goes on to another phase stays the record of its loop.
LEMMA LoopTurns ==
    ASSUME NEW f \in [Starts -> LoopRecords], NEW n \in Starts, NEW phase \in LoopPhases,
           NEW on \in Starts \cup {None}
    PROVE  /\ [f EXCEPT ![n].phase = phase] \in [Starts -> LoopRecords]
           /\ [f EXCEPT ![n].phase = phase, ![n].stop = on] \in [Starts -> LoopRecords]
  BY DEF LoopRecords

LEMMA LoopKeepsRepeaterInv ==
    ASSUME RepeaterInv, NEW n \in Starts, LoopSteps(n)
    PROVE  RepeaterInv'
<1> USE StartsAreNumbers, TimerAssumption DEF LoopPhases, LoopRecords, None, RepeaterInv, RepeaterTypes, SetsAreInOrder,
         LateIsOnce, StoppedHasNoTicker, Loop, Performs
<1>1. CASE BeginLoop(n)
  BY <1>1 DEF BeginLoop
<1>2. CASE Select(n)
  <2>1. stopChan \in Starts
    BY <1>2 DEF Select
  <2>2. loops' \in [Starts -> LoopRecords]
    <3>1. /\ loops' = [loops EXCEPT ![n].phase = "selects", ![n].stop = stopChan]
          /\ loops \in [Starts -> LoopRecords] /\ "selects" \in LoopPhases
      BY <1>2 DEF Select
    <3> HIDE DEF LoopRecords, LoopPhases
    <3> QED
      BY <2>1, <3>1, LoopTurns
  <2>3. /\ loops'[n].phase = "selects" /\ loops'[n].stop = stopChan /\ loops'[n].ticks = loops[n].ticks
        /\ \A m \in Starts \ {n} : loops'[m] = loops[m]
    BY <1>2 DEF Select
  <2>4. loops[n].phase = "looks" /\ UNCHANGED <<ticker, ticks, stopChan, stops, stopCalls, late>>
    BY <1>2 DEF Select
  <2> QED
    BY <2>1, <2>2, <2>3, <2>4, SMTT(30)
<1>3. CASE TakeTick(n)
  <2>1. /\ loops[n].phase = "selects" /\ loops[n].ticks \in ticks
        /\ ticks' = ticks \ {loops[n].ticks}
        /\ UNCHANGED <<ticker, stopChan, stops, stopCalls>>
    BY <1>3 DEF TakeTick
  <2>2. loops' \in [Starts -> LoopRecords]
    BY <2>1, <1>3, LoopTurns, Zenon DEF TakeTick
  <2>3. /\ loops'[n].phase = "performs" /\ loops'[n].ticks = loops[n].ticks
        /\ \A m \in Starts \ {n} : loops'[m] = loops[m]
    BY <1>3 DEF TakeTick
  <2>4. /\ late' \in [Starts -> Nat]
        /\ \A m \in Starts \ {n} : late'[m] = late[m]
        /\ n >= stopChan => late'[n] = 0
        /\ late[n] = 0 => late'[n] \in {0, 1}
    BY <1>3, SMTT(30) DEF TakeTick, MaxLate
  <2>5. n <= stopChan
    BY <2>1
  <2>6. RepeaterTypes'
    BY <2>1, <2>2, <2>3, <2>4
  <2>8. SetsAreInOrder' /\ StoppedHasNoTicker'
    BY <2>1, <2>2, <2>3
  <2>7. LateIsOnce'
    BY <2>1, <2>2, <2>3, <2>4, <2>5
  <2> QED
    BY <2>6, <2>7, <2>8, Zenon
<1>4. CASE StopItself(n)
  BY <1>4, SMTT(30) DEF StopItself
<1>5. CASE TakeStop(n)
  <2>1. /\ loops[n].phase = "selects" /\ loops[n].stop \in Starts /\ stops[loops[n].stop] > 0
        /\ ticker' = None /\ UNCHANGED <<ticks, stopChan, stopCalls, late>>
    BY <1>5 DEF TakeStop, TickerAfter
  <2>2. loops' \in [Starts -> LoopRecords]
    BY <1>5, LoopTurns, Zenon DEF TakeStop
  <2>3. /\ loops'[n].phase = "stopped" /\ loops'[n].ticks = loops[n].ticks
        /\ \A m \in Starts \ {n} : loops'[m] = loops[m]
    BY <1>5 DEF TakeStop
  <2>4. stops' \in [Starts -> 0..StopRoom]
    BY <2>1, <1>5 DEF TakeStop
  <2>5. RepeaterTypes'
    BY <2>1, <2>2, <2>3, <2>4
  <2>6. SetsAreInOrder' /\ StoppedHasNoTicker'
    BY <2>1, <2>2, <2>3
  <2>7. LateIsOnce'
    BY <2>1, <2>3
  <2> QED
    BY <2>5, <2>6, <2>7, Zenon
<1>6. ASSUME NEW goesOn \in BOOLEAN, PerformNow(n, goesOn) PROVE RepeaterInv'
  <2> DEFINE next == IF goesOn THEN "begins" ELSE "returned"
  <2>1. /\ loops[n].phase = "now" /\ loops' = [loops EXCEPT ![n].phase = next]
        /\ UNCHANGED <<ticker, ticks, stopChan, stops, stopCalls>>
    BY <1>6 DEF PerformNow
  <2>2. next \in {"begins", "returned"}
    OBVIOUS
  <2> HIDE DEF next
  <2>3. /\ loops' \in [Starts -> LoopRecords]
        /\ loops'[n].phase = next /\ loops'[n].ticks = loops[n].ticks
        /\ \A m \in Starts \ {n} : loops'[m] = loops[m]
    <3>1. loops \in [Starts -> LoopRecords] /\ next \in LoopPhases
      BY <2>2
    <3> HIDE DEF RepeaterInv, RepeaterTypes, SetsAreInOrder, LateIsOnce, StoppedHasNoTicker
    <3> QED
      BY <2>1, <3>1
  <2>4. /\ late' \in [Starts -> Nat]
        /\ \A m \in Starts \ {n} : late'[m] = late[m]
        /\ n >= stopChan => late'[n] = 0
    BY <1>6 DEF PerformNow, MaxLate
  <2>5. n <= stopChan /\ loops[n].ticks = None
    BY <2>1
  <2>6. RepeaterTypes'
    BY <2>1, <2>2, <2>3, <2>4
  <2>7. SetsAreInOrder' /\ StoppedHasNoTicker'
    BY <2>1, <2>2, <2>3, <2>5, SMTT(30)
  <2>8. LateIsOnce'
    BY <2>1, <2>3, <2>4, <2>5, SMTT(30)
  <2> QED
    BY <2>6, <2>7, <2>8, Zenon
<1>7. ASSUME NEW goesOn \in BOOLEAN, PerformReturns(n, goesOn) PROVE RepeaterInv'
  BY <1>7, SMTT(30) DEF PerformReturns
<1> QED
  BY <1>1, <1>2, <1>3, <1>4, <1>5, <1>6, <1>7 DEF LoopSteps

LEMMA RepeaterInvStep == RepeaterInv /\ [RepeaterSteps]_repeaterVars => RepeaterInv'
<1> SUFFICES ASSUME RepeaterInv, [RepeaterSteps]_repeaterVars PROVE RepeaterInv'
  OBVIOUS
<1>1. CASE Tick
  BY <1>1, StartsAreNumbers DEF Tick, RepeaterInv, RepeaterTypes, SetsAreInOrder, LateIsOnce, StoppedHasNoTicker, None
<1>2. CASE Stop
  BY <1>2, StartsAreNumbers, TimerAssumption DEF Stop, RepeaterInv, RepeaterTypes, SetsAreInOrder, LateIsOnce,
      StoppedHasNoTicker, None
<1>3. CASE UNCHANGED repeaterVars
  BY <1>3 DEF repeaterVars, RepeaterInv, RepeaterTypes, SetsAreInOrder, LateIsOnce, StoppedHasNoTicker
<1> QED
  BY <1>1, <1>2, <1>3, SetKeepsRepeaterInv, LoopKeepsRepeaterInv DEF RepeaterSteps

LEMMA TimerTypesGive == TimerInv /\ RepeaterInv => TimersTypeOK
  BY DEF TimerInv, TimerTypes, RepeaterInv, RepeaterTypes, TimersTypeOK, FuncPhases

------------------------------------------------------------------------------
(* RateLimiters: the cached limiter, and the callers that ask for theirs *)

Ages == NeverRan..AgeBound
Frequencies == {StartSecs, StartSecs * Multiply, MaxSecs}
RateRecords == [freq : Nat, multiply : BOOLEAN, since : Ages, ran : Ages, executing : BOOLEAN]
AskPhases == {"idle", "adds", "asks", "runs", "runsOnce", "running", "runningOnce"}
AskRecords == [phase : AskPhases, limiter : Limiters \cup {NoLimiter}]
Holds(c) == asking[c].phase \in {"asks", "runs", "runsOnce", "running", "runningOnce"}

RateTypes ==
    /\ DOMAIN limiters \subseteq Limiters
    /\ limiters \in [DOMAIN limiters -> RateRecords]
    /\ cached \in DOMAIN limiters \cup {NoLimiter}
    /\ asking \in [LimitCallers -> AskRecords]
    /\ crowded \in BOOLEAN /\ tooEarly \in BOOLEAN
    /\ \A c \in LimitCallers : Holds(c) => asking[c].limiter \in DOMAIN limiters

\* Callers that come one at a time have the cached limiter in their hands.
CallersAreApart ==
    /\ \A c, d \in LimitCallers : asking[c].phase # "idle" /\ asking[d].phase # "idle" => c = d
    /\ \A c \in LimitCallers : asking[c].phase = "adds" => cached = NoLimiter
    /\ \A c \in LimitCallers : Holds(c) => asking[c].limiter = cached

RanLongAgo(n) == limiters[n].ran = NeverRan \/ limiters[n].ran >= StartSecs

\* A limiter knows when its function was last begun, unless it has just let a caller pass;
\* of all the others, and of that one before the function is begun, it was long ago.
LastIsKnown ==
    /\ \A n \in DOMAIN limiters : n = cached \/ RanLongAgo(n)
    /\ \A n \in DOMAIN limiters : n = cached =>
          limiters[n].since = limiters[n].ran \/ \E c \in LimitCallers : asking[c].phase = "runs"
    /\ \A n \in DOMAIN limiters :
          (\E c \in LimitCallers : asking[c].phase = "runs") =>
              RanLongAgo(n) /\ (n = cached => limiters[n].since = 0)

FrequenciesAreSteps == \A n \in DOMAIN limiters : limiters[n].freq \in Frequencies

RateInv ==
    /\ RateTypes
    /\ ~crowded => ~tooEarly /\ CallersAreApart /\ LastIsKnown /\ FrequenciesAreSteps

\* A frequency that is multiplied before it is MaxSecs is never beyond it.
LEMMA FrequencySteps ==
    /\ StartSecs * Multiply \in Nat /\ MaxSecs \in Nat
    /\ StartSecs <= StartSecs * Multiply /\ StartSecs * Multiply <= MaxSecs
    /\ \A f \in Frequencies : /\ f \in Nat /\ StartSecs <= f /\ f <= MaxSecs
                              /\ f < MaxSecs => f * Multiply \in Frequencies
<1> DEFINE t == StartSecs * Multiply
<1>1. StartSecs \in Nat \ {0} /\ Multiply \in Nat \ {0, 1}
  BY RateAssumption
<1>2. \A x \in Nat : x * Multiply \in Nat /\ x <= x * Multiply
  BY <1>1
<1>3. t \in Nat /\ StartSecs <= t
  BY <1>1, <1>2
<1>4. t * Multiply \in Nat /\ t <= t * Multiply
  BY <1>2, <1>3
<1>5. MaxSecs \in {t, t * Multiply}
  BY RateAssumption
<1>6. Frequencies = {StartSecs, t, MaxSecs}
  BY DEF Frequencies
<1>7. StartSecs * Multiply = t
  OBVIOUS
<1>8. \A f \in {StartSecs, t, MaxSecs} :
        /\ f \in Nat /\ StartSecs <= f /\ f <= MaxSecs
        /\ f < MaxSecs => f * Multiply \in {StartSecs, t, MaxSecs}
  <2> HIDE DEF t
  <2> QED
    BY <1>1, <1>3, <1>4, <1>5, <1>7
<1> QED
  BY <1>3, <1>4, <1>5, <1>6, <1>8

\* Ages in seconds, up to the one at which they stop to grow.
LEMMA AgesAreNumbers ==
    /\ AgeBound \in Nat /\ StartSecs \in Nat \ {0} /\ StartSecs <= AgeBound /\ NeverRan = -1
    /\ \A age \in Ages : /\ age \in Int /\ OlderAge(age) \in Ages
                         /\ age = NeverRan => OlderAge(age) = NeverRan
                         /\ age >= StartSecs => OlderAge(age) >= StartSecs
  BY FrequencySteps, RateAssumption DEF AgeBound, NeverRan, Ages, OlderAge

LEMMA RateInvInit == RateInit => RateInv
<1> SUFFICES ASSUME RateInit PROVE RateInv
  OBVIOUS
<1>1. /\ DOMAIN limiters = {} /\ cached = NoLimiter
      /\ asking \in [LimitCallers -> AskRecords]
      /\ \A c \in LimitCallers : asking[c].phase = "idle"
  BY DEF RateInit, Idling, Ask, AskRecords, AskPhases
<1>2. limiters \in [DOMAIN limiters -> RateRecords]
  BY DEF RateInit
<1>3. crowded \in BOOLEAN /\ tooEarly \in BOOLEAN /\ ~tooEarly
  BY Zenon DEF RateInit
<1>4. RateTypes
  BY <1>1, <1>2, <1>3 DEF RateTypes, Holds
<1> QED
  BY <1>1, <1>3, <1>4 DEF RateInv, CallersAreApart, LastIsKnown, FrequenciesAreSteps, Holds

LEMMA RateInvGives == RateInv => RatesAreKept /\ RateTypeOK
<1> SUFFICES ASSUME RateInv PROVE RatesAreKept /\ RateTypeOK
  OBVIOUS
<1>1. FunctionsAreApart
  BY DEF RateInv, FunctionsAreApart
<1>2. FrequencyIsWithinMax
  BY FrequencySteps DEF RateInv, FrequencyIsWithinMax, FrequenciesAreSteps
<1>3. RateTypeOK
  BY DEF RateInv, RateTypes, RateTypeOK, RateRecords, Ages
<1> QED
  BY <1>1, <1>2, <1>3 DEF RatesAreKept

LEMMA LookUpKeepsRateInv ==
    ASSUME RateInv, NEW c \in LimitCallers, LookUp(c) PROVE RateInv'
<1>1. /\ asking[c].phase = "idle"
      /\ asking'[c].phase = (IF cached = NoLimiter THEN "adds" ELSE "asks") /\ asking'[c].limiter = cached
      /\ \A d \in LimitCallers \ {c} : asking'[d] = asking[d]
      /\ crowded' = (crowded \/ \E d \in LimitCallers \ {c} : asking[d].phase # "idle")
      /\ cached' = cached /\ limiters' = limiters /\ tooEarly' = tooEarly
  BY DEF LookUp, Ask, OthersAsk, RateInv, RateTypes
<1>2. asking' \in [LimitCallers -> AskRecords]
  BY DEF LookUp, Ask, RateInv, RateTypes, AskRecords, AskPhases
<1>3. crowded' \in BOOLEAN /\ tooEarly' \in BOOLEAN
  BY <1>1, Zenon DEF RateInv, RateTypes
<1>4. RateTypes'
  BY <1>1, <1>2, <1>3, RateAssumption DEF RateInv, RateTypes, Holds, NoLimiter
<1>5. ASSUME ~crowded' PROVE (~tooEarly /\ CallersAreApart /\ LastIsKnown /\ FrequenciesAreSteps)'
  <2>1. ~crowded /\ \A d \in LimitCallers \ {c} : asking[d].phase = "idle"
    BY <1>1, <1>5
  <2> QED
    BY <1>1, <2>1 DEF RateInv, CallersAreApart, LastIsKnown, RanLongAgo, FrequenciesAreSteps, Holds
<1> QED
  BY <1>4, <1>5 DEF RateInv

LEMMA AddKeepsRateInv ==
    ASSUME RateInv, NEW c \in LimitCallers, AddLimiter(c) PROVE RateInv'
<1>1. PICK n \in UnmadeLimiters :
        /\ limiters' = [m \in DOMAIN limiters \cup {n} |->
                            IF m = n THEN NewRateLimiter ELSE limiters[m]]
        /\ cached' = n
        /\ asking' = [asking EXCEPT ![c] = Ask("asks", n)]
  BY DEF AddLimiter
<1>2. n \in Limiters /\ n \notin DOMAIN limiters /\ n # NoLimiter
  BY RateAssumption DEF UnmadeLimiters, NoLimiter
<1>3. /\ DOMAIN limiters' = DOMAIN limiters \cup {n}
      /\ limiters'[n] = NewRateLimiter
      /\ \A m \in DOMAIN limiters : limiters'[m] = limiters[m]
  BY <1>1, <1>2
<1>4. /\ asking[c].phase = "adds" /\ crowded' = crowded /\ tooEarly' = tooEarly
      /\ asking'[c].phase = "asks" /\ asking'[c].limiter = n
      /\ \A d \in LimitCallers \ {c} : asking'[d] = asking[d]
  BY <1>1 DEF AddLimiter, Ask, RateInv, RateTypes
<1>5. asking' \in [LimitCallers -> AskRecords]
  BY <1>1, <1>2 DEF Ask, RateInv, RateTypes, AskRecords, AskPhases
<1>6. NewRateLimiter \in RateRecords
  BY AgesAreNumbers DEF NewRateLimiter, RateRecords, Ages, NeverRan
<1>7. limiters' \in [DOMAIN limiters' -> RateRecords]
  BY <1>1, <1>3, <1>6 DEF RateInv, RateTypes
<1>8. RateTypes'
  BY <1>1, <1>2, <1>3, <1>4, <1>5, <1>7 DEF RateInv, RateTypes, Holds
<1>9. ASSUME ~crowded' PROVE (~tooEarly /\ CallersAreApart /\ LastIsKnown /\ FrequenciesAreSteps)'
  <2>1. ~crowded /\ cached = NoLimiter /\ \A d \in LimitCallers \ {c} : asking[d].phase = "idle"
    BY <1>4, <1>9 DEF RateInv, CallersAreApart
  <2>2. (~tooEarly /\ CallersAreApart)'
    BY <1>1, <1>4, <2>1 DEF RateInv, CallersAreApart, Holds
  <2>3. NoLimiter \notin DOMAIN limiters
    BY RateAssumption DEF RateInv, RateTypes, NoLimiter
  <2>4. /\ \A m \in DOMAIN limiters : RanLongAgo(m)
        /\ \A m \in DOMAIN limiters : limiters[m].freq \in Frequencies
    BY <2>1, <2>3 DEF RateInv, LastIsKnown, FrequenciesAreSteps
  <2>5. FrequenciesAreSteps'
    BY <1>3, <2>4 DEF FrequenciesAreSteps, NewRateLimiter, Frequencies
  <2>6. \A m \in DOMAIN limiters' : RanLongAgo(m)'
    BY <1>3, <2>4 DEF RanLongAgo, NewRateLimiter
  <2>7. \A m \in DOMAIN limiters' : m = cached' => limiters'[m].since = limiters'[m].ran
    BY <1>1, <1>3 DEF NewRateLimiter
  <2>8. \A d \in LimitCallers : asking'[d].phase # "runs"
    BY <1>4, <2>1
  <2> QED
    BY <2>2, <2>5, <2>6, <2>7, <2>8 DEF LastIsKnown
<1> QED
  BY <1>8, <1>9 DEF RateInv

\* A caller whose step touches none but its own limiter, and takes it out of its hands or not.
LEMMA HolderTypes ==
    ASSUME RateInv, NEW c \in LimitCallers, Holds(c), NEW phase \in AskPhases,
           NEW l \in RateRecords,
           asking' = [asking EXCEPT ![c].phase = phase] \/ (phase = "idle" /\ asking' = [asking EXCEPT ![c] = Idling]),
           DOMAIN limiters' = DOMAIN limiters,
           limiters'[asking[c].limiter] = l,
           \A n \in DOMAIN limiters \ {asking[c].limiter} : limiters'[n] = limiters[n],
           limiters' = [n \in DOMAIN limiters' |-> limiters'[n]],
           cached' = cached, crowded' = crowded, tooEarly' \in BOOLEAN
    PROVE  /\ RateTypes'
           /\ asking'[c].phase = phase
           /\ phase # "idle" => asking'[c].limiter = asking[c].limiter
           /\ \A d \in LimitCallers \ {c} : asking'[d] = asking[d]
           /\ ~crowded => /\ asking[c].limiter = cached
                          /\ \A d \in LimitCallers \ {c} : asking'[d].phase = "idle"
           /\ (~crowded /\ phase # "adds") => CallersAreApart'
<1>1. /\ asking'[c].phase = phase
      /\ phase # "idle" => asking'[c].limiter = asking[c].limiter
      /\ \A d \in LimitCallers \ {c} : asking'[d] = asking[d]
      /\ asking' \in [LimitCallers -> AskRecords]
  BY DEF RateInv, RateTypes, AskRecords, AskPhases, Idling, Ask
<1>2. limiters' \in [DOMAIN limiters' -> RateRecords]
  BY DEF RateInv, RateTypes
<1>3. RateTypes'
  BY <1>1, <1>2 DEF RateInv, RateTypes, Holds
<1>4. ASSUME ~crowded
      PROVE  /\ asking[c].limiter = cached /\ asking[c].phase # "adds"
             /\ \A d \in LimitCallers \ {c} : asking'[d].phase = "idle"
  BY <1>1, <1>4 DEF RateInv, CallersAreApart, Holds
<1>5. ASSUME ~crowded, phase # "adds" PROVE CallersAreApart'
  BY <1>1, <1>4, <1>5 DEF CallersAreApart, Holds
<1> QED
  BY <1>1, <1>3, <1>4, <1>5

\* Who holds a limiter holds one of those there are.
LEMMA HeldLimiter ==
    ASSUME RateInv, NEW c \in LimitCallers, Holds(c)
    PROVE  /\ asking[c].limiter \in DOMAIN limiters
           /\ limiters[asking[c].limiter] \in RateRecords
           /\ limiters = [n \in DOMAIN limiters |-> limiters[n]]
  BY DEF RateInv, RateTypes

LEMMA BackoffKeepsRateInv ==
    ASSUME RateInv, NEW c \in LimitCallers, DoBackoff(c) PROVE RateInv'
<1> DEFINE x == asking[c].limiter
<1> DEFINE freq == NextFreq(Of(c))
<1> DEFINE isReady == IsReady(Of(c).since, freq)
<1>1. Holds(c) /\ asking[c].phase = "asks"
  BY DEF DoBackoff, Holds
<1>2. x \in DOMAIN limiters /\ limiters[x] \in RateRecords /\ Of(c) = limiters[x]
  BY <1>1, HeldLimiter DEF Of
<1>3. /\ cached' = cached /\ crowded' = crowded /\ tooEarly' = tooEarly
      /\ isReady => limiters' = [limiters EXCEPT ![x].freq = freq, ![x].multiply = TRUE, ![x].since = 0]
      /\ ~isReady => limiters' = [limiters EXCEPT ![x].freq = freq, ![x].multiply = TRUE]
      /\ isReady => asking' = [asking EXCEPT ![c].phase = "runs"]
      /\ ~isReady => asking' = [asking EXCEPT ![c] = Idling]
  BY DEF DoBackoff, Becomes
<1>4. freq \in Nat
  <2>1. \A f \in Nat : f * Multiply \in Nat
    BY RateAssumption
  <2> QED
    BY <1>2, <2>1 DEF NextFreq, RateRecords
<1> HIDE DEF freq
<1>5. /\ DOMAIN limiters' = DOMAIN limiters
      /\ limiters' = [n \in DOMAIN limiters' |-> limiters'[n]]
      /\ \A n \in DOMAIN limiters \ {x} : limiters'[n] = limiters[n]
      /\ limiters'[x].freq = freq /\ limiters'[x].ran = limiters[x].ran
      /\ limiters'[x].since = IF isReady THEN 0 ELSE limiters[x].since
  <2>1. CASE isReady
    <3>1. limiters'[x] = [limiters[x] EXCEPT !.freq = freq, !.multiply = TRUE, !.since = 0]
      BY <1>2, <1>3, <2>1 DEF RateInv, RateTypes
    <3>2. /\ DOMAIN limiters' = DOMAIN limiters
          /\ limiters' = [n \in DOMAIN limiters' |-> limiters'[n]]
          /\ \A n \in DOMAIN limiters \ {x} : limiters'[n] = limiters[n]
      BY <1>2, <1>3, <2>1 DEF RateInv, RateTypes
    <3> QED
      BY <1>2, <2>1, <3>1, <3>2 DEF RateRecords
  <2>2. CASE ~isReady
    BY <1>2, <1>3, <2>2 DEF RateRecords, RateInv, RateTypes
  <2> QED
    BY <2>1, <2>2
<1>6. limiters'[x] \in RateRecords
  BY <1>2, <1>3, <1>4, AgesAreNumbers DEF RateRecords, Ages, RateInv, RateTypes
<1>7. tooEarly' \in BOOLEAN
  BY <1>3, Zenon DEF RateInv, RateTypes
<1>8. CASE isReady
  <2>1. /\ RateTypes' /\ asking'[c].phase = "runs"
        /\ ~crowded => CallersAreApart' /\ x = cached
    BY <1>1, <1>3, <1>5, <1>6, <1>7, <1>8, HolderTypes DEF AskPhases
  <2>2. ASSUME ~crowded PROVE (~tooEarly /\ LastIsKnown /\ FrequenciesAreSteps)'
    <3>1. /\ x = cached /\ ~tooEarly /\ LastIsKnown /\ FrequenciesAreSteps
          /\ \A d \in LimitCallers : asking[d].phase # "runs"
      BY <1>1, <2>1, <2>2 DEF RateInv, CallersAreApart, Holds
    <3>2. freq \in Frequencies
      BY <1>2, <3>1, FrequencySteps DEF freq, NextFreq, FrequenciesAreSteps
    <3>3. RanLongAgo(x)
      BY <1>2, <1>8, <3>1, <3>2, FrequencySteps, AgesAreNumbers
         DEF LastIsKnown, IsReady, RanLongAgo, RateRecords
    <3>4. \A n \in DOMAIN limiters : RanLongAgo(n)
      BY <3>1, <3>3 DEF LastIsKnown
    <3>5. \A n \in DOMAIN limiters' : RanLongAgo(n)'
      BY <1>5, <3>4 DEF RanLongAgo
    <3> QED
      BY <1>3, <1>5, <1>8, <2>1, <2>2, <3>1, <3>2, <3>5 DEF LastIsKnown, FrequenciesAreSteps, RanLongAgo
  <2> QED
    BY <1>3, <2>1, <2>2 DEF RateInv
<1>9. CASE ~isReady
  <2>1. /\ RateTypes' /\ asking'[c].phase = "idle"
        /\ ~crowded => CallersAreApart' /\ x = cached /\ \A d \in LimitCallers : asking'[d].phase = "idle"
    <3>1. "idle" \in AskPhases /\ asking' = [asking EXCEPT ![c] = Idling]
      BY <1>3, <1>9 DEF AskPhases
    <3>2. /\ RateTypes' /\ asking'[c].phase = "idle"
          /\ ~crowded => CallersAreApart' /\ x = cached
                         /\ \A d \in LimitCallers \ {c} : asking'[d].phase = "idle"
      <4> DEFINE l == limiters'[asking[c].limiter]
      <4>1. /\ DOMAIN limiters' = DOMAIN limiters /\ l \in RateRecords
            /\ \A n \in DOMAIN limiters \ {asking[c].limiter} : limiters'[n] = limiters[n]
            /\ limiters' = [n \in DOMAIN limiters' |-> limiters'[n]]
            /\ cached' = cached /\ crowded' = crowded
        BY <1>3, <1>5, <1>6
      <4>2. limiters'[asking[c].limiter] = l
        OBVIOUS
      <4>3. "idle" # "adds"
        OBVIOUS
      <4> HIDE DEF l
      <4> QED
        BY <1>1, <1>7, <3>1, <4>1, <4>2, <4>3, HolderTypes, Zenon
    <3> QED
      BY <3>2
  <2>2. ASSUME ~crowded PROVE (~tooEarly /\ LastIsKnown /\ FrequenciesAreSteps)'
    <3>1. /\ x = cached /\ ~tooEarly /\ LastIsKnown /\ FrequenciesAreSteps
          /\ \A d \in LimitCallers : asking[d].phase # "runs"
      BY <1>1, <2>1, <2>2 DEF RateInv, CallersAreApart, Holds
    <3>2. freq \in Frequencies
      BY <1>2, <3>1, FrequencySteps DEF freq, NextFreq, FrequenciesAreSteps
    <3>3. FrequenciesAreSteps' /\ ~tooEarly'
      BY <1>3, <1>5, <3>1, <3>2 DEF FrequenciesAreSteps
    <3>4. LastIsKnown'
      BY <1>3, <1>5, <1>9, <2>1, <2>2, <3>1 DEF LastIsKnown, RanLongAgo
    <3> QED
      BY <3>3, <3>4
  <2> QED
    BY <1>3, <2>1, <2>2 DEF RateInv
<1> QED
  BY <1>8, <1>9

LEMMA PassKeepsRateInv ==
    ASSUME RateInv, NEW c \in LimitCallers, Busy(c) \/ Do(c) PROVE RateInv'
<1>1. Holds(c) /\ asking[c].phase = "asks"
  BY DEF Busy, Do, Holds
<1>2. /\ cached' = cached /\ limiters' = limiters /\ crowded' = crowded /\ tooEarly' = tooEarly
      /\ \/ asking' = [asking EXCEPT ![c] = Idling]
         \/ asking' = [asking EXCEPT ![c].phase = "runsOnce"]
  BY DEF Busy, Do, Becomes
<1>3. PICK phase \in {"idle", "runsOnce"} :
        asking' = [asking EXCEPT ![c].phase = phase] \/ (phase = "idle" /\ asking' = [asking EXCEPT ![c] = Idling])
  BY <1>2
<1>4. tooEarly' \in BOOLEAN
  BY <1>2, Zenon DEF RateInv, RateTypes
<1>5. /\ RateTypes' /\ asking'[c].phase = phase
      /\ ~crowded => CallersAreApart' /\ \A d \in LimitCallers \ {c} : asking'[d].phase = "idle"
  BY <1>1, <1>2, <1>3, <1>4, HeldLimiter, HolderTypes DEF AskPhases
<1>6. ASSUME ~crowded PROVE (~tooEarly /\ LastIsKnown /\ FrequenciesAreSteps)'
  <2>1. /\ ~tooEarly /\ LastIsKnown /\ FrequenciesAreSteps
        /\ \A d \in LimitCallers : asking[d].phase # "runs"
    BY <1>1, <1>6 DEF RateInv, CallersAreApart
  <2> QED
    BY <1>2, <1>3, <1>5, <1>6, <2>1 DEF LastIsKnown, RanLongAgo, FrequenciesAreSteps
<1> QED
  BY <1>2, <1>5, <1>6 DEF RateInv

LEMMA RunKeepsRateInv ==
    ASSUME RateInv, NEW c \in LimitCallers, Run(c) PROVE RateInv'
<1> DEFINE x == asking[c].limiter
<1> DEFINE backoff == asking[c].phase = "runs"
<1> DEFINE phase == IF backoff THEN "running" ELSE "runningOnce"
<1>1. Holds(c) /\ asking[c].phase \in {"runs", "runsOnce"}
  BY DEF Run, Holds
<1>2. x \in DOMAIN limiters /\ limiters[x] \in RateRecords
  BY <1>1, HeldLimiter
<1>3. /\ cached' = cached /\ crowded' = crowded
      /\ tooEarly' = (tooEarly \/ (backoff /\ RanLately))
      /\ limiters' = [limiters EXCEPT ![x].executing = TRUE, ![x].ran = IF backoff THEN 0 ELSE @]
      /\ asking' = [asking EXCEPT ![c].phase = phase]
  BY DEF Run, Becomes
<1>4. /\ DOMAIN limiters' = DOMAIN limiters
      /\ limiters' = [n \in DOMAIN limiters' |-> limiters'[n]]
      /\ \A n \in DOMAIN limiters \ {x} : limiters'[n] = limiters[n]
      /\ limiters'[x].freq = limiters[x].freq /\ limiters'[x].since = limiters[x].since
      /\ limiters'[x].ran = IF backoff THEN 0 ELSE limiters[x].ran
  BY <1>2, <1>3 DEF RateRecords, RateInv, RateTypes
<1>5. limiters'[x] \in RateRecords
  <2>1. limiters'[x] = [limiters[x] EXCEPT !.executing = TRUE, !.ran = IF backoff THEN 0 ELSE limiters[x].ran]
    BY <1>2, <1>3 DEF RateInv, RateTypes
  <2>2. (IF backoff THEN 0 ELSE limiters[x].ran) \in Ages
    BY <1>2, AgesAreNumbers DEF RateRecords, Ages
  <2> QED
    BY <1>2, <2>1, <2>2 DEF RateRecords
<1>6. tooEarly' \in BOOLEAN
  BY <1>3, Zenon DEF RateInv, RateTypes
<1>7. phase \in AskPhases /\ phase \notin {"idle", "adds", "runs"}
  BY DEF AskPhases
<1> HIDE DEF phase
<1>8. /\ RateTypes' /\ asking'[c].phase = phase
      /\ ~crowded => /\ CallersAreApart' /\ x = cached
                     /\ \A d \in LimitCallers \ {c} : asking'[d].phase = "idle"
  BY <1>1, <1>3, <1>4, <1>5, <1>6, <1>7, HolderTypes, ZenonT(40)
<1>9. ASSUME ~crowded PROVE (~tooEarly /\ LastIsKnown /\ FrequenciesAreSteps)'
  <2>1. x = cached /\ ~tooEarly /\ LastIsKnown /\ FrequenciesAreSteps
    BY <1>8, <1>9 DEF RateInv
  <2>2. backoff => \A n \in DOMAIN limiters : RanLongAgo(n)
    BY <2>1 DEF LastIsKnown
  <2>3. ~(backoff /\ RanLately)
    BY <2>2, AgesAreNumbers DEF RanLately, RanLongAgo
  <2>4. FrequenciesAreSteps' /\ ~tooEarly'
    BY <1>3, <1>4, <2>1, <2>3 DEF FrequenciesAreSteps
  <2>5. \A d \in LimitCallers : asking'[d].phase # "runs"
    BY <1>7, <1>8, <1>9
  <2>6. limiters'[x].since = limiters'[x].ran
    <3>1. CASE backoff
      <4>1. limiters[x].since = 0
        BY <1>2, <2>1, <3>1 DEF LastIsKnown
      <4> QED
        BY <1>4, <3>1, <4>1
    <3>2. CASE ~backoff
      BY <1>1, <1>2, <1>4, <1>9, <2>1, <3>2 DEF LastIsKnown, RateInv, CallersAreApart
    <3> QED
      BY <3>1, <3>2
  <2>7. LastIsKnown'
    BY <1>3, <1>4, <2>1, <2>5, <2>6 DEF LastIsKnown, RanLongAgo
  <2> QED
    BY <2>4, <2>7
<1> QED
  BY <1>3, <1>8, <1>9 DEF RateInv

LEMMA ReturnKeepsRateInv ==
    ASSUME RateInv, NEW c \in LimitCallers, NEW restart \in BOOLEAN, RunReturns(c, restart)
    PROVE  RateInv'
<1> DEFINE x == asking[c].limiter
<1>1. Holds(c) /\ asking[c].phase \in {"running", "runningOnce"}
  BY DEF RunReturns, Holds
<1>2. x \in DOMAIN limiters /\ limiters[x] \in RateRecords
  BY <1>1, HeldLimiter
<1>3. /\ cached' = cached /\ crowded' = crowded /\ tooEarly' = tooEarly
      /\ limiters' = [limiters EXCEPT ![x].executing = FALSE,
                                      ![x].multiply = IF restart THEN FALSE ELSE @,
                                      ![x].freq = IF restart THEN StartSecs ELSE @]
      /\ asking' = [asking EXCEPT ![c] = Idling]
  BY DEF RunReturns
<1>4. limiters'[x] = [limiters[x] EXCEPT !.executing = FALSE,
                         !.multiply = IF restart THEN FALSE ELSE limiters[x].multiply,
                         !.freq = IF restart THEN StartSecs ELSE limiters[x].freq]
  BY <1>2, <1>3 DEF RateInv, RateTypes, RateRecords
<1>5. /\ DOMAIN limiters' = DOMAIN limiters
      /\ limiters' = [n \in DOMAIN limiters' |-> limiters'[n]]
      /\ \A n \in DOMAIN limiters \ {x} : limiters'[n] = limiters[n]
  BY <1>2, <1>3 DEF RateInv, RateTypes
<1>6. /\ limiters'[x].freq = IF restart THEN StartSecs ELSE limiters[x].freq
      /\ limiters'[x].since = limiters[x].since /\ limiters'[x].ran = limiters[x].ran
  BY <1>2, <1>4 DEF RateRecords
<1>7. limiters'[x] \in RateRecords
  BY <1>2, <1>4, AgesAreNumbers DEF RateRecords
<1>8. tooEarly' \in BOOLEAN
  BY <1>3, Zenon DEF RateInv, RateTypes
<1>9. /\ RateTypes' /\ asking'[c].phase = "idle"
      /\ ~crowded => CallersAreApart' /\ x = cached /\ \A d \in LimitCallers : asking'[d].phase = "idle"
  <2>1. "idle" \in AskPhases /\ "idle" # "adds"
    BY DEF AskPhases
  <2>2. /\ RateTypes' /\ asking'[c].phase = "idle"
        /\ ~crowded => x = cached /\ \A d \in LimitCallers \ {c} : asking'[d].phase = "idle"
        /\ ~crowded => CallersAreApart'
    BY <1>1, <1>3, <1>5, <1>7, <1>8, <2>1, HolderTypes
  <2> QED
    BY <2>2
<1>10. ASSUME ~crowded PROVE (~tooEarly /\ LastIsKnown /\ FrequenciesAreSteps)'
  <2>1. /\ x = cached /\ ~tooEarly /\ LastIsKnown /\ FrequenciesAreSteps
        /\ \A d \in LimitCallers : asking[d].phase # "runs"
    BY <1>1, <1>9, <1>10 DEF RateInv, CallersAreApart, Holds
  <2>2. FrequenciesAreSteps' /\ ~tooEarly'
    BY <1>3, <1>5, <1>6, <2>1 DEF FrequenciesAreSteps, Frequencies
  <2>3. LastIsKnown'
    BY <1>3, <1>5, <1>6, <1>9, <1>10, <2>1 DEF LastIsKnown, RanLongAgo
  <2> QED
    BY <2>2, <2>3
<1> QED
  BY <1>3, <1>9, <1>10 DEF RateInv

LEMMA CleanKeepsRateInv ==
    ASSUME RateInv, CleanLimiters \/ RemoveLimiter PROVE RateInv'
<1>1. /\ cached # NoLimiter /\ cached' = NoLimiter /\ asking' = asking /\ tooEarly' = tooEarly
      /\ crowded' = (crowded \/ \E c \in LimitCallers : asking[c].phase # "idle")
  BY DEF CleanLimiters, RemoveLimiter, Forget
<1>2. cached \in DOMAIN limiters
  BY <1>1 DEF RateInv, RateTypes
<1>3. /\ DOMAIN limiters' = DOMAIN limiters
      /\ limiters' \in [DOMAIN limiters' -> RateRecords]
      /\ \A n \in DOMAIN limiters : limiters'[n].freq = limiters[n].freq
  <2>1. CASE CleanLimiters
    BY <2>1 DEF CleanLimiters, RateInv, RateTypes
  <2>2. CASE RemoveLimiter
    <3>1. limiters' = [n \in DOMAIN limiters |-> [limiters[n] EXCEPT !.ran = NeverRan]]
      BY <2>2 DEF RemoveLimiter
    <3>2. \A n \in DOMAIN limiters : limiters[n] \in RateRecords
      BY DEF RateInv, RateTypes
    <3>3. NeverRan \in Ages
      BY AgesAreNumbers DEF Ages
    <3> QED
      BY <3>1, <3>2, <3>3 DEF RateRecords
  <2> QED
    BY <2>1, <2>2
<1>4. crowded' \in BOOLEAN /\ tooEarly' \in BOOLEAN
  BY <1>1, Zenon DEF RateInv, RateTypes
<1>5. RateTypes'
  BY <1>1, <1>3, <1>4 DEF RateInv, RateTypes, Holds
<1>6. ASSUME ~crowded' PROVE (~tooEarly /\ CallersAreApart /\ LastIsKnown /\ FrequenciesAreSteps)'
  <2>1. /\ ~crowded /\ \A c \in LimitCallers : asking[c].phase = "idle"
        /\ ~tooEarly /\ LastIsKnown /\ FrequenciesAreSteps
    BY <1>1, <1>6 DEF RateInv
  <2>2. (~tooEarly /\ CallersAreApart /\ FrequenciesAreSteps)'
    BY <1>1, <1>3, <2>1 DEF CallersAreApart, FrequenciesAreSteps, Holds
  <2>3. \A n \in DOMAIN limiters' : RanLongAgo(n)'
    <3>1. CASE RemoveLimiter
      <4>1. limiters' = [n \in DOMAIN limiters |-> [limiters[n] EXCEPT !.ran = NeverRan]]
        BY <3>1 DEF RemoveLimiter
      <4>2. \A n \in DOMAIN limiters : limiters[n] \in RateRecords
        BY DEF RateInv, RateTypes
      <4> QED
        BY <4>1, <4>2 DEF RateRecords, RanLongAgo
    <3>2. CASE CleanLimiters
      <4>1. limiters' = limiters /\ IsUnused(limiters[cached])
        BY <3>2 DEF CleanLimiters
      <4>2. limiters[cached].since = limiters[cached].ran /\ limiters[cached] \in RateRecords
        BY <1>2, <2>1 DEF LastIsKnown, RateInv, RateTypes
      <4>3. RanLongAgo(cached)
        BY <4>1, <4>2, FrequencySteps, AgesAreNumbers, RateAssumption DEF IsUnused, RanLongAgo, RateRecords
      <4> QED
        BY <1>1, <2>1, <4>1, <4>3 DEF LastIsKnown, RanLongAgo
    <3> QED
      BY <3>1, <3>2
  <2>4. NoLimiter \notin DOMAIN limiters'
    BY <1>5, RateAssumption DEF RateTypes, NoLimiter
  <2> QED
    BY <1>1, <2>1, <2>2, <2>3, <2>4 DEF LastIsKnown
<1> QED
  BY <1>5, <1>6 DEF RateInv

LEMMA TickKeepsRateInv ==
    ASSUME RateInv, RateTick PROVE RateInv'
<1>1. /\ \A c \in LimitCallers : asking[c].phase # "runs"
      /\ limiters' = [n \in DOMAIN limiters |->
            [limiters[n] EXCEPT !.since = OlderAge(limiters[n].since), !.ran = OlderAge(limiters[n].ran)]]
      /\ cached' = cached /\ asking' = asking /\ crowded' = crowded /\ tooEarly' = tooEarly
  BY DEF RateTick
<1>2. \A n \in DOMAIN limiters : limiters[n] \in RateRecords
  BY DEF RateInv, RateTypes
<1>3. DOMAIN limiters' = DOMAIN limiters
  BY <1>1
<1>4. \A n \in DOMAIN limiters :
        /\ limiters'[n] \in RateRecords
        /\ limiters'[n].freq = limiters[n].freq
        /\ limiters'[n].since = OlderAge(limiters[n].since)
        /\ limiters'[n].ran = OlderAge(limiters[n].ran)
  BY <1>1, <1>2, AgesAreNumbers DEF RateRecords
<1>5. RateTypes'
  <2>1. limiters' \in [DOMAIN limiters' -> RateRecords]
    BY <1>1, <1>3, <1>4
  <2>2. crowded' \in BOOLEAN /\ tooEarly' \in BOOLEAN
    BY <1>1, Zenon DEF RateInv, RateTypes
  <2> QED
    BY <1>1, <1>3, <2>1, <2>2 DEF RateInv, RateTypes, Holds
<1>6. ASSUME ~crowded PROVE (~tooEarly /\ CallersAreApart /\ LastIsKnown /\ FrequenciesAreSteps)'
  <2>1. ~tooEarly /\ CallersAreApart /\ LastIsKnown /\ FrequenciesAreSteps
    BY <1>6 DEF RateInv
  <2>2. \A n \in DOMAIN limiters : RanLongAgo(n) => RanLongAgo(n)'
    BY <1>2, <1>4, AgesAreNumbers DEF RanLongAgo, RateRecords
  <2>3. LastIsKnown'
    <3>1. /\ \A n \in DOMAIN limiters : n = cached \/ RanLongAgo(n)
          /\ \A n \in DOMAIN limiters : n = cached => limiters[n].since = limiters[n].ran
      BY <1>1, <2>1 DEF LastIsKnown
    <3>2. \A n \in DOMAIN limiters' : n = cached' => limiters'[n].since = limiters'[n].ran
      <4> SUFFICES ASSUME NEW n \in DOMAIN limiters, n = cached
                   PROVE  limiters'[n].since = limiters'[n].ran
        BY <1>1, <1>3
      <4>1. limiters[n].since = limiters[n].ran
        BY <3>1
      <4>2. /\ limiters'[n].since = OlderAge(limiters[n].since)
            /\ limiters'[n].ran = OlderAge(limiters[n].ran)
        BY <1>4
      <4> QED
        BY <4>1, <4>2, Zenon
    <3>3. \A n \in DOMAIN limiters' : n = cached' \/ RanLongAgo(n)'
      BY <1>1, <1>3, <2>2, <3>1
    <3> QED
      BY <1>1, <3>2, <3>3 DEF LastIsKnown
  <2> QED
    BY <1>1, <1>3, <1>4, <2>1, <2>3 DEF CallersAreApart, FrequenciesAreSteps, Holds
<1> QED
  BY <1>1, <1>5, <1>6 DEF RateInv

LEMMA RateInvStep == RateInv /\ [RateNext]_rateVars => RateInv'
<1> SUFFICES ASSUME RateInv, [RateNext]_rateVars PROVE RateInv'
  OBVIOUS
<1>1. CASE UNCHANGED rateVars
  BY <1>1 DEF rateVars, RateInv, RateTypes, CallersAreApart, LastIsKnown, RanLongAgo, FrequenciesAreSteps, Holds
<1> QED
  BY <1>1, LookUpKeepsRateInv, AddKeepsRateInv, BackoffKeepsRateInv, PassKeepsRateInv, RunKeepsRateInv,
     ReturnKeepsRateInv, CleanKeepsRateInv, TickKeepsRateInv DEF RateNext

------------------------------------------------------------------------------
(* ExpiringMap: its elements, and the sweep and the flush that go through them *)

Items == [value : 0..MaxValues, age : {Forever} \cup 0..OldAge]
UsingRecords == {Unused} \cup [does : {"set", "touch"}, key : Keys, element : Items]
SweepRecords == {Unused} \cup [does : {"sweep"}, left : SUBSET Keys]
                         \cup [does : {"sweep", "remove"}, key : Keys, left : SUBSET Keys]
StoredValues == [Keys -> 0..MaxValues]
FlushRecords == {Unused} \cup [does : {"write"}, values : StoredValues] \cup [does : {"written"}]

MapTypes ==
    /\ elements \in [Keys -> Items] /\ kept \in [Keys -> Items]
    /\ changed \in BOOLEAN /\ flagLost \in BOOLEAN
    /\ storage \in StoredValues
    /\ using \in [MapUsers -> UsingRecords]
    /\ sweeping \in SweepRecords /\ flushing \in FlushRecords
    /\ values \in 0..MaxValues
    /\ disturbed \subseteq Keys

\* What was read of an element that no one has disturbed is still so when it is written.
Touches(u, k) == using[u].does = "touch" /\ using[u].key = k
ReadsHold ==
    /\ \A k \in Keys \ disturbed :
          sweeping.does = "remove" /\ sweeping.key = k => IsExpired(elements[k])
    /\ \A u \in MapUsers, k \in Keys \ disturbed : Touches(u, k) =>
          \/ using[u].element = NoItem
          \/ Has(elements, k) /\ using[u].element.value = elements[k].value

\* Whoever is at work, a map that is not marked as changed is stored, unless the file has just
\* been written from what was read before.
CleanIsStored ==
    ~changed /\ ~flagLost /\ flushing.does # "written" =>
        \A k \in Keys \ disturbed : Has(elements, k) => storage[k] = elements[k].value

MapInv == MapTypes /\ ReadsHold /\ UndisturbedIsKept /\ CleanIsStored

\* What an item becomes as it gets older, and when it has expired.
LEMMA MapNumbers ==
    /\ OldAge \in Nat /\ SecsToLive \in Nat /\ OldAge > SecsToLive /\ Forever = -1
    /\ NoItem \in Items /\ NoItem.value = 0 /\ ~IsExpired(NoItem) /\ Aged(NoItem) = NoItem
    /\ \A value \in 0..MaxValues : value # 0 =>
          Item(value) \in Items /\ Item(value).value = value /\ Item(value) # NoItem
    /\ Item(0) = NoItem
    /\ \A e \in Items : /\ Aged(e) \in Items /\ Aged(e).value = e.value
                        /\ IsExpired(e) => IsExpired(Aged(e))
<1> USE CacheAssumption DEF OldAge, Forever, NoItem, Items, Item, IsExpired, Aged
<1>1. OldAge \in Nat /\ SecsToLive \in Nat /\ OldAge > SecsToLive /\ Forever = -1
  OBVIOUS
<1>2. NoItem \in Items /\ NoItem.value = 0 /\ ~IsExpired(NoItem) /\ Aged(NoItem) = NoItem
  OBVIOUS
<1>3. \A value \in 0..MaxValues : value # 0 =>
          Item(value) \in Items /\ Item(value).value = value /\ Item(value) # NoItem
  OBVIOUS
<1>4. ASSUME NEW e \in Items
      PROVE  /\ Aged(e) \in Items /\ Aged(e).value = e.value
             /\ IsExpired(e) => IsExpired(Aged(e))
  OBVIOUS
<1> QED
  BY <1>1, <1>2, <1>3, <1>4

LEMMA MapInvInit == MapInit => MapInv
<1> SUFFICES ASSUME MapInit PROVE MapInv
  OBVIOUS
<1>1. MapTypes
  <2>1. changed \in BOOLEAN /\ flagLost \in BOOLEAN
    BY Zenon DEF MapInit
  <2>2. NoItem \in Items /\ NoItem.value = 0
    BY MapNumbers
  <2> QED
    BY <2>1, <2>2, CacheAssumption DEF MapInit, MapTypes, StoredValues, UsingRecords, SweepRecords, FlushRecords
<1> QED
  BY <1>1 DEF MapInit, MapInv, ReadsHold, Touches, UndisturbedIsKept, CleanIsStored, Has, Unused

LEMMA MapInvGives == MapInv => MapIsKept /\ MapTypeOK
  BY DEF MapInv, MapTypes, MapIsKept, MapTypeOK, UndisturbedIsKept, UnchangedIsStored, CleanIsStored, Items,
     StoredValues

\* A step that leaves alone what is in the map and what was read of it.
LEMMA ElsewhereKeepsMapInv ==
    ASSUME MapInv, MapTypes', elements' = elements, kept' = kept, disturbed' = disturbed,
           \A u \in MapUsers, k \in Keys : Touches(u, k)' => Touches(u, k) /\ using'[u] = using[u],
           sweeping'.does = "remove" => sweeping'.key = sweeping.key /\ sweeping.does = "remove",
           CleanIsStored'
    PROVE  MapInv'
  BY DEF MapInv, ReadsHold, Touches, UndisturbedIsKept

LEMMA BeginKeepsMapInv ==
    ASSUME MapInv, NEW u \in MapUsers, NEW k \in Keys,
           (\E age \in {0, Forever} : BeginSet(u, k, age)) \/ BeginRemove(u, k)
    PROVE  MapInv'
<1>1. /\ changed' = TRUE /\ values' \in 0..MaxValues
      /\ UNCHANGED <<elements, storage, sweeping, flushing, kept, disturbed, flagLost>>
  BY CacheAssumption DEF BeginSet, BeginRemove, MapInv, MapTypes
<1>2. PICK e \in Items : using' = [using EXCEPT ![u] = [does |-> "set", key |-> k, element |-> e]]
  <2>1. CASE BeginRemove(u, k)
    BY <2>1, MapNumbers DEF BeginRemove
  <2>2. ASSUME NEW age \in {0, Forever}, BeginSet(u, k, age)
        PROVE  \E e \in Items : using' = [using EXCEPT ![u] = [does |-> "set", key |-> k, element |-> e]]
    <3>1. [value |-> values', age |-> age] \in Items
      BY <1>1, <2>2, MapNumbers DEF Items
    <3> QED
      BY <2>2, <3>1 DEF BeginSet
  <2> QED
    BY <2>1, <2>2
<1>3. using' \in [MapUsers -> UsingRecords]
  BY <1>2 DEF MapInv, MapTypes, UsingRecords
<1>4. MapTypes'
  <2>1. changed' \in BOOLEAN
    BY <1>1, Zenon
  <2> QED
    BY <1>1, <1>3, <2>1 DEF MapInv, MapTypes
<1>5. \A o \in MapUsers, x \in Keys : Touches(o, x)' => Touches(o, x) /\ using'[o] = using[o]
  BY <1>2 DEF Touches, MapInv, MapTypes
<1>6. CleanIsStored'
  BY <1>1 DEF CleanIsStored
<1> QED
  BY <1>1, <1>4, <1>5, <1>6, ElsewhereKeepsMapInv

LEMMA EndSetKeepsMapInv ==
    ASSUME MapInv, NEW u \in MapUsers, EndSet(u) PROVE MapInv'
<1> DEFINE k == using[u].key
<1>1. /\ using[u].does = "set"
      /\ elements' = [elements EXCEPT ![k] = using[u].element]
      /\ kept' = [kept EXCEPT ![k] = using[u].element]
      /\ disturbed' = IF InTheMiddle(k) THEN disturbed \cup {k} ELSE disturbed
      /\ using' = [using EXCEPT ![u] = Unused]
      /\ UNCHANGED <<changed, storage, sweeping, flushing, values>>
  BY DEF EndSet, Writes
<1>2. flagLost' = (flagLost \/ ~changed)
  BY DEF EndSet
<1>3. k \in Keys /\ using[u].element \in Items
  BY <1>1 DEF MapInv, MapTypes, UsingRecords, Unused
<1>4. MapTypes'
  <2>1. flagLost' \in BOOLEAN
    BY <1>2, Zenon DEF MapInv, MapTypes
  <2>2. using' \in [MapUsers -> UsingRecords]
    BY <1>1 DEF MapInv, MapTypes, UsingRecords
  <2> QED
    BY <1>1, <1>3, <2>1, <2>2 DEF MapInv, MapTypes
<1>5. ReadsHold'
  <2>1. \A o \in MapUsers : using'[o].does = "touch" => using'[o] = using[o]
    BY <1>1 DEF MapInv, MapTypes, Unused
  <2>2. \A x \in Keys \ {k} : elements'[x] = elements[x]
    BY <1>1 DEF MapInv, MapTypes
  <2>3. k \notin disturbed' => ~InTheMiddle(k)
    BY <1>1
  <2> QED
    BY <1>1, <2>1, <2>2, <2>3 DEF MapInv, ReadsHold, Touches, InTheMiddle, Has
<1>6. UndisturbedIsKept'
  BY <1>1, <1>3 DEF MapInv, MapTypes, UndisturbedIsKept
<1>7. CleanIsStored'
  BY <1>1, <1>2 DEF CleanIsStored
<1> QED
  BY <1>4, <1>5, <1>6, <1>7 DEF MapInv

LEMMA RemoveAllKeepsMapInv == ASSUME MapInv, RemoveAll PROVE MapInv'
<1>1. /\ changed' = TRUE /\ elements' = [x \in Keys |-> NoItem] /\ kept' = elements'
      /\ disturbed' = disturbed \cup { x \in Keys : InTheMiddle(x) }
      /\ UNCHANGED <<storage, using, sweeping, flushing, values, flagLost>>
  BY DEF RemoveAll
<1>2. MapTypes'
  <2>1. changed' \in BOOLEAN
    BY <1>1, Zenon
  <2> QED
    BY <1>1, <2>1, MapNumbers DEF MapInv, MapTypes
<1>3. ReadsHold'
  BY <1>1 DEF MapInv, ReadsHold, Touches, InTheMiddle
<1>4. UndisturbedIsKept' /\ CleanIsStored'
  BY <1>1 DEF UndisturbedIsKept, CleanIsStored
<1> QED
  BY <1>2, <1>3, <1>4 DEF MapInv

LEMMA GetKeepsMapInv ==
    ASSUME MapInv, NEW u \in MapUsers, NEW k \in Keys, Get(u, k) PROVE MapInv'
<1>1. /\ Has(elements, k) /\ UNCHANGED <<elements, changed, storage, sweeping, flushing, values, kept, disturbed, flagLost>>
  BY DEF Get
<1>2. PICK e \in Items :
        /\ using' = [using EXCEPT ![u] = [does |-> "touch", key |-> k, element |-> e]]
        /\ e = NoItem \/ e.value = elements[k].value
  <2>1. elements[k] \in Items
    BY DEF MapInv, MapTypes
  <2>2. elements[k].value \in 0..MaxValues
    BY <2>1 DEF Items
  <2>3. Item(elements[k].value) \in Items /\ Item(elements[k].value).value = elements[k].value
    BY <2>2, MapNumbers DEF Item
  <2>4. NoItem \in Items
    BY MapNumbers
  <2>5. CASE IsExpired(elements[k])
    BY <2>4, <2>5 DEF Get
  <2>6. CASE ~IsExpired(elements[k])
    BY <2>3, <2>6 DEF Get
  <2> QED
    BY <2>5, <2>6
<1>3. using' \in [MapUsers -> UsingRecords]
  BY <1>2 DEF MapInv, MapTypes, UsingRecords
<1>4. MapTypes'
  BY <1>1, <1>3 DEF MapInv, MapTypes
<1>5. ReadsHold'
  <2>1. \A o \in MapUsers \ {u} : using'[o] = using[o]
    BY <1>2 DEF MapInv, MapTypes
  <2>2. using'[u] = [does |-> "touch", key |-> k, element |-> e]
    BY <1>2 DEF MapInv, MapTypes
  <2> QED
    BY <1>1, <1>2, <2>1, <2>2 DEF MapInv, ReadsHold, Touches, Has
<1> QED
  BY <1>1, <1>4, <1>5 DEF MapInv, UndisturbedIsKept, CleanIsStored

LEMMA EndGetKeepsMapInv ==
    ASSUME MapInv, NEW u \in MapUsers, EndGet(u) PROVE MapInv'
<1> DEFINE k == using[u].key
<1> DEFINE e == using[u].element
<1> DEFINE meets == \/ sweeping.does = "remove" /\ sweeping.key = k
                    \/ \E o \in MapUsers \ {u} : using[o].does = "touch" /\ using[o].key = k
<1>1. /\ using[u].does = "touch"
      /\ elements' = [elements EXCEPT ![k] = e]
      /\ kept' = [kept EXCEPT ![k] = IF k \in disturbed THEN kept[k] ELSE e]
      /\ disturbed' = IF meets THEN disturbed \cup {k} ELSE disturbed
      /\ using' = [using EXCEPT ![u] = Unused]
      /\ UNCHANGED <<changed, storage, sweeping, flushing, values, flagLost>>
  BY DEF EndGet
<1>2. k \in Keys /\ e \in Items
  BY <1>1 DEF MapInv, MapTypes, UsingRecords, Unused
<1>3. /\ \A x \in Keys \ {k} : elements'[x] = elements[x] /\ kept'[x] = kept[x]
      /\ elements'[k] = e /\ (k \notin disturbed => kept'[k] = e)
      /\ elements' \in [Keys -> Items] /\ kept' \in [Keys -> Items]
  BY <1>1, <1>2 DEF MapInv, MapTypes
<1>4. MapTypes'
  <2>1. using' \in [MapUsers -> UsingRecords]
    BY <1>1 DEF MapInv, MapTypes, UsingRecords
  <2> QED
    BY <1>1, <1>2, <1>3, <2>1 DEF MapInv, MapTypes
<1>5. ReadsHold'
  <2>1. \A o \in MapUsers : using'[o].does = "touch" => o # u /\ using'[o] = using[o]
    BY <1>1 DEF MapInv, MapTypes, Unused
  <2>2. /\ k \notin disturbed' => ~meets
        /\ \A x \in Keys : x \notin disturbed' => x \notin disturbed
    BY <1>1
  <2> QED
    BY <1>1, <1>2, <1>3, <2>1, <2>2 DEF MapInv, ReadsHold, Touches, Has
<1>6. UndisturbedIsKept'
  BY <1>1, <1>3 DEF MapInv, UndisturbedIsKept
<1>7. CleanIsStored'
  <2>1. k \notin disturbed => e = NoItem \/ (Has(elements, k) /\ e.value = elements[k].value)
    BY <1>1, <1>2 DEF MapInv, ReadsHold, Touches
  <2> QED
    BY <1>1, <1>2, <1>3, <2>1 DEF MapInv, CleanIsStored, Has
<1> QED
  BY <1>4, <1>5, <1>6, <1>7 DEF MapInv

LEMMA SweepKeepsMapInv ==
    ASSUME MapInv, BeginSweep \/ EndSweep \/ \E k \in Keys : SweepKey(k) PROVE MapInv'
<1>1. CASE BeginSweep
  <2>1. /\ sweeping' = [does |-> "sweep", left |-> Keys]
        /\ UNCHANGED <<elements, changed, storage, using, flushing, values, kept, disturbed, flagLost>>
    BY <1>1 DEF BeginSweep
  <2>2. MapTypes' /\ CleanIsStored'
    BY <2>1 DEF MapInv, MapTypes, SweepRecords, CleanIsStored
  <2> QED
    BY <2>1, <2>2, ElsewhereKeepsMapInv DEF Touches
<1>2. CASE EndSweep
  <2>1. /\ sweeping' = Unused /\ changed' = FALSE
        /\ UNCHANGED <<elements, storage, using, flushing, values, kept, disturbed>>
    BY <1>2 DEF EndSweep
  <2>2. flagLost' = (flagLost \/ storage # ValuesOf(elements))
    BY <1>2 DEF EndSweep
  <2>3. MapTypes'
    <3>1. flagLost' \in BOOLEAN /\ changed' \in BOOLEAN
      BY <2>1, <2>2, Zenon DEF MapInv, MapTypes
    <3> QED
      BY <2>1, <3>1 DEF MapInv, MapTypes, SweepRecords
  <2>4. CleanIsStored'
    BY <2>1, <2>2 DEF CleanIsStored, ValuesOf
  <2> QED
    BY <2>1, <2>3, <2>4, ElsewhereKeepsMapInv DEF Touches, Unused
<1>3. ASSUME NEW k \in Keys, SweepKey(k) PROVE MapInv'
  <2> DEFINE does == IF IsSwept(elements[k]) THEN "remove" ELSE "sweep"
  <2>1. /\ sweeping.does = "sweep" /\ k \in sweeping.left
        /\ sweeping' = [does |-> does, key |-> k, left |-> sweeping.left \ {k}]
        /\ UNCHANGED <<elements, changed, storage, using, flushing, values, kept, disturbed, flagLost>>
    BY <1>3 DEF SweepKey
  <2>2. sweeping.left \subseteq Keys
    BY <2>1 DEF MapInv, MapTypes, SweepRecords, Unused
  <2>3. MapTypes'
    BY <2>1, <2>2 DEF MapInv, MapTypes, SweepRecords
  <2>4. sweeping'.does = "remove" => IsExpired(elements'[sweeping'.key])
    BY <2>1 DEF IsSwept
  <2> QED
    BY <2>1, <2>3, <2>4 DEF MapInv, ReadsHold, Touches, UndisturbedIsKept, CleanIsStored
<1> QED
  BY <1>1, <1>2, <1>3

LEMMA SweepRemovesKeepsMapInv == ASSUME MapInv, SweepRemoves PROVE MapInv'
<1> DEFINE k == sweeping.key
<1>1. /\ sweeping.does = "remove"
      /\ elements' = [elements EXCEPT ![k] = NoItem]
      /\ kept' = [kept EXCEPT ![k] = IF IsExpired(kept[k]) THEN NoItem ELSE kept[k]]
      /\ disturbed' = IF \E u \in MapUsers : using[u].does = "touch" /\ using[u].key = k
                      THEN disturbed \cup {k} ELSE disturbed
      /\ sweeping' = [sweeping EXCEPT !.does = "sweep"]
      /\ UNCHANGED <<changed, storage, using, flushing, values, flagLost>>
  BY DEF SweepRemoves
<1>2. k \in Keys /\ sweeping \in [does : {"sweep", "remove"}, key : Keys, left : SUBSET Keys]
  BY <1>1 DEF MapInv, MapTypes, SweepRecords, Unused
<1>3. sweeping' \in SweepRecords /\ sweeping'.does = "sweep"
  BY <1>1, <1>2 DEF SweepRecords
<1>4. /\ \A x \in Keys \ {k} : elements'[x] = elements[x] /\ kept'[x] = kept[x]
      /\ elements'[k] = NoItem
      /\ elements' \in [Keys -> Items] /\ kept' \in [Keys -> Items]
      /\ kept'[k] = IF IsExpired(kept[k]) THEN NoItem ELSE kept[k]
  BY <1>1, <1>2, MapNumbers DEF MapInv, MapTypes
<1>5. MapTypes'
  BY <1>1, <1>2, <1>3, <1>4 DEF MapInv, MapTypes
<1>6. /\ k \notin disturbed => IsExpired(elements[k]) /\ kept[k] = elements[k]
      /\ \A x \in Keys : x \notin disturbed' => x \notin disturbed
  BY <1>1, <1>2 DEF MapInv, ReadsHold, UndisturbedIsKept
<1>7. ReadsHold'
  BY <1>1, <1>2, <1>3, <1>4 DEF MapInv, ReadsHold, Touches, Has
<1>8. UndisturbedIsKept'
  BY <1>4, <1>6 DEF MapInv, UndisturbedIsKept
<1>9. CleanIsStored'
  BY <1>1, <1>4, <1>6 DEF MapInv, CleanIsStored, Has
<1> QED
  BY <1>5, <1>7, <1>8, <1>9 DEF MapInv

LEMMA FlushKeepsMapInv ==
    ASSUME MapInv, BeginFlush \/ FlushFails \/ FlushWrites \/ EndFlush PROVE MapInv'
<1>1. UNCHANGED <<elements, using, sweeping, values, kept, disturbed>>
  BY DEF BeginFlush, FlushFails, FlushWrites, EndFlush
<1>2. ValuesOf(elements) \in StoredValues
  BY DEF MapInv, MapTypes, ValuesOf, Items, StoredValues
<1>3. CASE BeginFlush
  <2>1. /\ flushing' = [does |-> "write", values |-> ValuesOf(elements)] /\ flushing.does = "nothing"
        /\ UNCHANGED <<changed, storage, flagLost>>
    BY <1>3 DEF BeginFlush
  <2>2. MapTypes' /\ CleanIsStored'
    BY <1>1, <1>2, <2>1 DEF MapInv, MapTypes, FlushRecords, CleanIsStored
  <2> QED
    BY <1>1, <2>2, ElsewhereKeepsMapInv DEF Touches
<1>4. CASE FlushFails
  <2>1. /\ flushing' = Unused /\ flushing.does = "write" /\ UNCHANGED <<changed, storage, flagLost>>
    BY <1>4 DEF FlushFails
  <2>2. MapTypes' /\ CleanIsStored'
    BY <1>1, <2>1 DEF MapInv, MapTypes, FlushRecords, CleanIsStored
  <2> QED
    BY <1>1, <2>2, ElsewhereKeepsMapInv DEF Touches
<1>5. CASE FlushWrites
  <2>1. /\ flushing.does = "write" /\ storage' = flushing.values /\ flushing' = [does |-> "written"]
        /\ UNCHANGED <<changed, flagLost>>
    BY <1>5 DEF FlushWrites
  <2>2. storage' \in StoredValues
    BY <2>1 DEF MapInv, MapTypes, FlushRecords, Unused
  <2>3. MapTypes' /\ CleanIsStored'
    BY <1>1, <2>1, <2>2 DEF MapInv, MapTypes, FlushRecords, CleanIsStored
  <2> QED
    BY <1>1, <2>3, ElsewhereKeepsMapInv DEF Touches
<1>6. CASE EndFlush
  <2>1. /\ changed' = FALSE /\ flushing' = Unused /\ storage' = storage
    BY <1>6 DEF EndFlush
  <2>2. flagLost' = (flagLost \/ storage # ValuesOf(elements))
    BY <1>6 DEF EndFlush
  <2>3. MapTypes'
    <3>1. flagLost' \in BOOLEAN /\ changed' \in BOOLEAN
      BY <2>1, <2>2, Zenon DEF MapInv, MapTypes
    <3> QED
      BY <1>1, <2>1, <3>1 DEF MapInv, MapTypes, FlushRecords
  <2>4. CleanIsStored'
    BY <1>1, <2>1, <2>2 DEF CleanIsStored, ValuesOf
  <2> QED
    BY <1>1, <2>3, <2>4, ElsewhereKeepsMapInv DEF Touches
<1> QED
  BY <1>3, <1>4, <1>5, <1>6

LEMMA RestartKeepsMapInv == ASSUME MapInv, RestartMap PROVE MapInv'
<1>1. /\ elements' = [k \in Keys |-> IF storage[k] = NoItem.value THEN NoItem ELSE Item(storage[k])]
      /\ kept' = elements' /\ disturbed' = {}
      /\ using' = [u \in MapUsers |-> Unused] /\ sweeping' = Unused /\ flushing' = Unused
      /\ UNCHANGED <<storage, values>>
  BY DEF RestartMap
<1>2. changed' \in BOOLEAN /\ flagLost' \in BOOLEAN
  BY Zenon DEF RestartMap
<1>3. \A k \in Keys : /\ elements'[k] \in Items
                      /\ Has(elements', k) => storage[k] = elements'[k].value
  BY <1>1, MapNumbers DEF MapInv, MapTypes, StoredValues, Has
<1>4. MapTypes'
  <2>1. elements' \in [Keys -> Items]
    BY <1>1, <1>3
  <2> QED
    BY <1>1, <1>2, <2>1 DEF MapInv, MapTypes, UsingRecords, SweepRecords, FlushRecords
<1>5. ReadsHold'
  BY <1>1 DEF ReadsHold, Touches, Unused
<1>6. UndisturbedIsKept' /\ CleanIsStored'
  BY <1>1, <1>3 DEF UndisturbedIsKept, CleanIsStored, Has
<1> QED
  BY <1>4, <1>5, <1>6 DEF MapInv

LEMMA TickKeepsMapInv == ASSUME MapInv, MapTick PROVE MapInv'
<1>1. /\ \A u \in MapUsers : using[u].does = "nothing"
      /\ elements' = [k \in Keys |-> Aged(elements[k])]
      /\ kept' = [k \in Keys |-> Aged(kept[k])]
      /\ UNCHANGED <<changed, storage, using, sweeping, flushing, values, disturbed, flagLost>>
  BY DEF MapTick
<1>2. \A k \in Keys : /\ elements'[k] \in Items /\ kept'[k] \in Items
                      /\ elements'[k].value = elements[k].value
                      /\ Has(elements', k) => Has(elements, k)
                      /\ IsExpired(elements[k]) => IsExpired(elements'[k])
                      /\ elements[k] = kept[k] => elements'[k] = kept'[k]
  BY <1>1, MapNumbers DEF MapInv, MapTypes, Has
<1>3. MapTypes'
  <2>1. elements' \in [Keys -> Items] /\ kept' \in [Keys -> Items]
    BY <1>1, <1>2
  <2> QED
    BY <1>1, <2>1 DEF MapInv, MapTypes
<1>4. ReadsHold'
  BY <1>1, <1>2 DEF MapInv, MapTypes, ReadsHold, Touches, SweepRecords, Unused
<1>5. UndisturbedIsKept' /\ CleanIsStored'
  BY <1>1, <1>2 DEF MapInv, UndisturbedIsKept, CleanIsStored, Has
<1> QED
  BY <1>3, <1>4, <1>5 DEF MapInv

LEMMA MapInvStep == MapInv /\ [MapNext]_mapVars => MapInv'
<1> SUFFICES ASSUME MapInv, [MapNext]_mapVars PROVE MapInv'
  OBVIOUS
<1>1. CASE UNCHANGED mapVars
  BY <1>1 DEF mapVars, MapInv, MapTypes, ReadsHold, Touches, UndisturbedIsKept, CleanIsStored, Has
<1> QED
  BY <1>1, BeginKeepsMapInv, EndSetKeepsMapInv, RemoveAllKeepsMapInv, GetKeepsMapInv, EndGetKeepsMapInv,
     SweepKeepsMapInv, SweepRemovesKeepsMapInv, FlushKeepsMapInv, RestartKeepsMapInv, TickKeepsMapInv
     DEF MapNext

------------------------------------------------------------------------------
(* Cache: its items, and the values it releases *)

CachedItems == [value : (1..puts), age : Nat, expiry : Nat]

\* Each value was put once, so one that was released is nowhere else.
CacheInv ==
    /\ puts \in Nat
    /\ fixedExpiry \in {"unmade", "yes", "no"}
    /\ items \in [Keys -> {NoCached} \cup CachedItems]
    /\ \A j, k \in Keys : items[j] # NoCached /\ items[j].value = items[k].value => j = k
    /\ released \subseteq 1..puts
    /\ \A k \in Keys : items[k].value \notin released
    /\ fixedExpiry = "unmade" => lastGot = NoCached /\ \A k \in Keys : items[k] = NoCached
    /\ IsFixed => ~IsDue(lastGot)

LEMMA CacheInvInit == CacheInit => CacheInv
  BY DEF CacheInit, CacheInv, NoCached, IsFixed

LEMMA CacheInvGives == CacheInv => CacheIsKept
  BY DEF CacheInv, CacheIsKept

\* What a step takes out of the cache, and may release, leaves the others alone.
LEMMA WithoutKeeps ==
    ASSUME CacheInv, NEW due \in SUBSET Keys, \A k \in due : items[k] # NoCached,
           items' = Without(due), puts' = puts, fixedExpiry' = fixedExpiry,
           released' = released \/ released' = released \cup ReleasedOf(due),
           lastGot' = lastGot \/ lastGot' = NoCached
    PROVE  CacheInv'
<1>1. \A k \in Keys : items'[k] = IF k \in due THEN NoCached ELSE items[k]
  BY DEF Without
<1>2. items' \in [Keys -> {NoCached} \cup CachedItems]
  BY DEF Without, CacheInv
<1>3. \A k \in due : items[k].value \in 1..puts
  BY DEF CacheInv, CachedItems
<1>4. released' \subseteq 1..puts
  <2>1. ReleasedOf(due) \subseteq 1..puts
    BY <1>3, Zenon DEF ReleasedOf
  <2> QED
    BY <2>1 DEF CacheInv
<1>5. \A k \in Keys : items'[k].value \notin released'
  <2> SUFFICES ASSUME NEW k \in Keys PROVE items'[k].value \notin released'
    OBVIOUS
  <2>1. CASE k \in due
    BY <1>1, <1>4, <2>1 DEF NoCached, CacheInv
  <2>2. CASE k \notin due
    BY <1>1, <2>2 DEF CacheInv, ReleasedOf
  <2> QED
    BY <2>1, <2>2
<1>6. \A j, k \in Keys : items'[j] # NoCached /\ items'[j].value = items'[k].value => j = k
  <2> SUFFICES ASSUME NEW j \in Keys, NEW k \in Keys, items'[j] # NoCached, items'[j].value = items'[k].value
               PROVE  j = k
    OBVIOUS
  <2>1. items'[j] = items[j] /\ items[j].value \in 1..puts
    BY <1>1 DEF CacheInv, CachedItems
  <2>2. items'[k] = items[k]
    BY <1>1, <2>1 DEF NoCached, CacheInv
  <2> QED
    BY <2>1, <2>2 DEF CacheInv
<1>7. /\ IsFixed' => ~IsDue(lastGot)'
      /\ fixedExpiry' = "unmade" => lastGot' = NoCached /\ \A k \in Keys : items'[k] = NoCached
  BY <1>1 DEF CacheInv, IsFixed, IsDue
<1> QED
  BY <1>2, <1>4, <1>5, <1>6, <1>7 DEF CacheInv, CachedItems

LEMMA PutKeepsCacheInv ==
    ASSUME CacheInv, NEW k \in Keys, NEW expiry \in {0, CacheExpiry}, Put(k, expiry)
    PROVE  CacheInv'
<1>1. /\ puts' = puts + 1 /\ fixedExpiry # "unmade"
      /\ items' = [items EXCEPT ![k] = [value |-> puts + 1, age |-> 0, expiry |-> expiry]]
      /\ fixedExpiry' = fixedExpiry /\ released' = released /\ lastGot' = lastGot
  BY DEF Put
<1>2. /\ items'[k] = [value |-> puts + 1, age |-> 0, expiry |-> expiry]
      /\ \A j \in Keys \ {k} : items'[j] = items[j]
  BY <1>1 DEF CacheInv
<1>3. \A j \in Keys : items[j] = NoCached \/ items[j] \in CachedItems
  BY DEF CacheInv
<1>4. \A j \in Keys : items[j].value \in 0..puts
  <2>1. \A i \in CachedItems : i.value \in 0..puts
    BY DEF CacheInv, CachedItems
  <2>2. NoCached.value \in 0..puts
    BY DEF CacheInv, NoCached
  <2> QED
    BY <1>3, <2>1, <2>2
<1>5. items' \in [Keys -> {NoCached} \cup CachedItems']
  <2>1. items'[k] \in CachedItems'
    BY <1>1, <1>2, CacheAssumption DEF CacheInv, CachedItems
  <2>2. \A j \in Keys \ {k} : items'[j] \in {NoCached} \cup CachedItems'
    BY <1>1, <1>2, <1>3 DEF CacheInv, CachedItems
  <2>3. items' = [j \in Keys |-> items'[j]]
    BY <1>1 DEF CacheInv
  <2> QED
    BY <2>1, <2>2, <2>3
<1>6. \A j \in Keys : items'[j].value \notin released'
  BY <1>1, <1>2 DEF CacheInv
<1>7. \A i, j \in Keys : items'[i] # NoCached /\ items'[i].value = items'[j].value => i = j
  <2>1. items'[k].value = puts + 1
    BY <1>2
  <2>2. \A j \in Keys \ {k} : items'[j].value \in 0..puts
    BY <1>2, <1>4
  <2> QED
    BY <1>2, <2>1, <2>2 DEF CacheInv
<1> QED
  BY <1>1, <1>5, <1>6, <1>7 DEF CacheInv, IsFixed

\* A step in which items only change their ages.
LEMMA AgesKeepCacheInv ==
    ASSUME CacheInv, puts' = puts, fixedExpiry' = fixedExpiry, released' = released,
           IsFixed => ~IsDue(lastGot)', fixedExpiry = "unmade" => lastGot' = NoCached,
           items' = [k \in Keys |-> items'[k]],
           \A k \in Keys : \/ items'[k] = items[k]
                           \/ /\ items[k] # NoCached
                              /\ \E age \in Nat : items'[k] = [items[k] EXCEPT !.age = age]
    PROVE  CacheInv'
<1>1. \A k \in Keys : items[k] = NoCached \/ items[k] \in CachedItems
  BY DEF CacheInv
<1>2. \A k \in Keys : /\ items'[k] = NoCached => items[k] = NoCached
                      /\ items'[k].value = items[k].value
                      /\ items'[k] = NoCached \/ items'[k] \in CachedItems
  <2> SUFFICES ASSUME NEW k \in Keys, items[k] # NoCached, items[k] \in CachedItems,
                      NEW age \in Nat, items'[k] = [items[k] EXCEPT !.age = age]
               PROVE  items'[k] # NoCached /\ items'[k].value = items[k].value /\ items'[k] \in CachedItems
    BY <1>1
  <2> QED
    BY DEF CachedItems, NoCached, CacheInv
<1>3. items' \in [Keys -> {NoCached} \cup CachedItems']
  BY <1>2 DEF CachedItems
<1> QED
  BY <1>2, <1>3 DEF CacheInv, IsFixed

LEMMA CacheInvStep == CacheInv /\ [CacheNext]_cacheVars => CacheInv'
<1> SUFFICES ASSUME CacheInv, [CacheNext]_cacheVars PROVE CacheInv'
  OBVIOUS
<1>1. ASSUME NEW k \in Keys, GetCached(k) PROVE CacheInv'
  <2>1. items[k] # NoCached /\ UNCHANGED <<fixedExpiry, puts, released>>
    BY <1>1 DEF GetCached
  <2>2. CASE IsGone(items[k])
    BY <1>1, <2>1, <2>2, WithoutKeeps DEF GetCached
  <2>3. CASE ~IsGone(items[k])
    <3>1. lastGot' = items[k] /\ (IsFixed => ~IsDue(items[k]))
      BY <1>1, <2>3 DEF GetCached, IsGone
    <3>2. \/ items' = items
          \/ items' = [items EXCEPT ![k].age = 0]
      BY <1>1, <2>3 DEF GetCached
    <3>3. fixedExpiry # "unmade"
      BY <2>1, <1>1 DEF CacheInv, GetCached
    <3>4. items' = [j \in Keys |-> items'[j]]
      BY <3>2 DEF CacheInv
    <3>5. \A j \in Keys : \/ items'[j] = items[j]
                          \/ /\ items[j] # NoCached
                             /\ \E age \in Nat : items'[j] = [items[j] EXCEPT !.age = age]
      BY <2>1, <3>2 DEF CacheInv
    <3> QED
      BY <2>1, <3>1, <3>3, <3>4, <3>5, AgesKeepCacheInv DEF IsDue
  <2> QED
    BY <2>2, <2>3
<1>2. ASSUME NEW k \in Keys, RemoveCached(k) PROVE CacheInv'
  BY <1>2, WithoutKeeps DEF RemoveCached
<1>3. ASSUME NEW fixed \in BOOLEAN, NewWithExpiry(fixed) PROVE CacheInv'
  BY <1>3 DEF NewWithExpiry, CacheInv, CachedItems, IsFixed, IsDue
<1>4. CASE Purge
  <2> DEFINE due == { k \in Keys : IsDue(items[k]) }
  <2>1. /\ released' = released \cup ReleasedOf(due) /\ items' = Without(due)
        /\ UNCHANGED <<fixedExpiry, puts, lastGot>>
    BY <1>4 DEF Purge
  <2>2. due \in SUBSET Keys /\ \A k \in due : items[k] # NoCached
    BY DEF IsDue
  <2> HIDE DEF due
  <2> QED
    BY <2>1, <2>2, WithoutKeeps
<1>5. CASE CountItems
  <2> DEFINE due == { k \in Keys : IsOver(items[k]) }
  <2>1. items' = Without(due) /\ UNCHANGED <<fixedExpiry, puts, released, lastGot>>
    BY <1>5 DEF CountItems
  <2>2. due \in SUBSET Keys /\ \A k \in due : items[k] # NoCached
    BY DEF IsOver
  <2> HIDE DEF due
  <2> QED
    BY <2>1, <2>2, WithoutKeeps
<1>6. CASE CacheTick
  <2>1. /\ items' = [k \in Keys |-> IF items[k] = NoCached \/ items[k].age = OldItem THEN items[k]
                                    ELSE [items[k] EXCEPT !.age = items[k].age + 1]]
        /\ UNCHANGED <<fixedExpiry, puts, released, lastGot>>
    BY <1>6 DEF CacheTick
  <2>2. \A k \in Keys : items[k] # NoCached => items[k].age + 1 \in Nat
    BY DEF CacheInv, CachedItems
  <2>3. \A k \in Keys : \/ items'[k] = items[k]
                        \/ /\ items[k] # NoCached
                           /\ \E age \in Nat : items'[k] = [items[k] EXCEPT !.age = age]
    BY <2>1, <2>2
  <2>4. items' = [k \in Keys |-> items'[k]]
    BY <2>1
  <2> QED
    BY <2>1, <2>3, <2>4, AgesKeepCacheInv DEF CacheInv, IsDue
<1>7. CASE UNCHANGED cacheVars
  BY <1>7 DEF cacheVars, CacheInv, CachedItems, IsFixed, IsDue
<1> QED
  BY <1>1, <1>2, <1>3, <1>4, <1>5, <1>6, <1>7, PutKeepsCacheInv DEF CacheNext

------------------------------------------------------------------------------
(* FileCaches: one file that goroutines create, touch, write and sweep away *)

CachingPhases == {"nothing", "creates", "touches", "writes"}

FileTypes ==
    /\ file \in {"none", "empty", "whole"} /\ fileAge \in Nat /\ sinceSweep \in Nat
    /\ caching \in [CacheUsers -> CachingPhases]
    /\ sweep \in {"waits", "removes"}
    /\ diskCritical \in BOOLEAN /\ handedOut \in BOOLEAN /\ torn \in BOOLEAN
    /\ raced \in BOOLEAN /\ youngSwept \in BOOLEAN

\* Goroutines that do not meet find the file as they saw it.
CachingIsApart ==
    /\ \A u, o \in CacheUsers : caching[u] # "nothing" /\ caching[o] # "nothing" => u = o
    /\ \A u \in CacheUsers :
          /\ caching[u] = "creates" => file = "none"
          /\ caching[u] = "writes" => file = "empty"
          /\ caching[u] = "touches" => file # "none"
          /\ caching[u] # "nothing" => sweep = "waits"
    /\ sweep = "removes" => file = "none" \/ fileAge > DeleteAfter

\* An empty file that no write failed for is being written.
EmptyIsWritten ==
    /\ handedOut => file = "whole"
    /\ file = "empty" => \E u \in CacheUsers : caching[u] = "writes"

FileInv ==
    /\ FileTypes
    /\ ~raced => ~youngSwept /\ CachingIsApart
    /\ ~raced /\ ~torn => EmptyIsWritten

LEMMA FileInvInit == FileCacheInit => FileInv
<1> SUFFICES ASSUME FileCacheInit PROVE FileInv
  OBVIOUS
<1>1. /\ diskCritical \in BOOLEAN /\ handedOut \in BOOLEAN /\ torn \in BOOLEAN
      /\ raced \in BOOLEAN /\ youngSwept \in BOOLEAN
  BY Zenon DEF FileCacheInit
<1>2. FileTypes
  BY <1>1, FileCacheAssumption DEF FileCacheInit, FileTypes, CachingPhases
<1> QED
  BY <1>2 DEF FileCacheInit, FileInv, CachingIsApart, EmptyIsWritten

LEMMA FileInvGives == FileInv => FilesAreKept
  BY DEF FileInv, EmptyIsWritten, FilesAreKept, HandedOutIsWhole, YoungFilesStay

LEMMA CacheFromDataKeepsFileInv ==
    ASSUME FileInv, NEW u \in CacheUsers, CacheFromData(u) PROVE FileInv'
<1>1. /\ caching[u] = "nothing"
      /\ caching' = [caching EXCEPT ![u] = IF file = "none" THEN "creates" ELSE "touches"]
      /\ UNCHANGED <<file, fileAge, sweep, sinceSweep, diskCritical, handedOut, torn, youngSwept>>
  BY DEF CacheFromData, Caches
<1>2. raced' = (raced \/ Busied(u))
  BY DEF CacheFromData
<1>3. raced' \in BOOLEAN
  BY <1>2, Zenon DEF FileInv, FileTypes
<1>4. FileTypes'
  BY <1>1, <1>3 DEF FileInv, FileTypes, CachingPhases
<1>5. ASSUME ~raced' PROVE (~youngSwept /\ CachingIsApart)'
  BY <1>1, <1>2, <1>5 DEF FileInv, FileTypes, CachingIsApart, Busied
<1>6. ASSUME ~raced', ~torn' PROVE EmptyIsWritten'
  BY <1>1, <1>2, <1>6 DEF FileInv, FileTypes, EmptyIsWritten
<1> QED
  BY <1>4, <1>5, <1>6 DEF FileInv

LEMMA SetModifiedKeepsFileInv ==
    ASSUME FileInv, NEW u \in CacheUsers, SetModified(u) PROVE FileInv'
<1>1. /\ caching[u] = "touches" /\ fileAge' = 0
      /\ caching' = [caching EXCEPT ![u] = "nothing"]
      /\ UNCHANGED <<file, sweep, sinceSweep, diskCritical, torn, raced, youngSwept>>
  BY DEF SetModified, Caches
<1>2. handedOut' = (file # "none")
  BY DEF SetModified
<1>3. FileTypes'
  BY <1>1, <1>2 DEF FileInv, FileTypes, CachingPhases
<1>4. ASSUME ~raced PROVE CachingIsApart'
  BY <1>1, <1>4 DEF FileInv, FileTypes, CachingIsApart
<1>5. ASSUME ~raced, ~torn PROVE EmptyIsWritten'
  BY <1>1, <1>2, <1>5 DEF FileInv, FileTypes, CachingIsApart, EmptyIsWritten
<1> QED
  BY <1>1, <1>3, <1>4, <1>5 DEF FileInv

LEMMA CreateKeepsFileInv ==
    ASSUME FileInv, NEW u \in CacheUsers, CreateFile(u) PROVE FileInv'
<1>1. /\ caching[u] = "creates" /\ file' = "empty" /\ fileAge' = 0
      /\ caching' = [caching EXCEPT ![u] = "writes"]
      /\ UNCHANGED <<sweep, sinceSweep, diskCritical, handedOut, torn, raced, youngSwept>>
  BY DEF CreateFile, Caches
<1>2. FileTypes'
  BY <1>1 DEF FileInv, FileTypes, CachingPhases
<1>3. ASSUME ~raced PROVE CachingIsApart'
  BY <1>1, <1>3 DEF FileInv, FileTypes, CachingIsApart
<1>4. ASSUME ~raced, ~torn PROVE EmptyIsWritten'
  BY <1>1, <1>4 DEF FileInv, FileTypes, CachingIsApart, EmptyIsWritten
<1> QED
  BY <1>1, <1>2, <1>3, <1>4 DEF FileInv

LEMMA WriteKeepsFileInv ==
    ASSUME FileInv, NEW u \in CacheUsers, NEW fails \in BOOLEAN, WriteFile(u, fails) PROVE FileInv'
<1>1. /\ caching[u] = "writes"
      /\ file' = IF fails \/ file = "none" THEN file ELSE "whole"
      /\ caching' = [caching EXCEPT ![u] = "nothing"]
      /\ UNCHANGED <<fileAge, sweep, sinceSweep, diskCritical, raced, youngSwept>>
  BY DEF WriteFile, Caches
<1>2. handedOut' = (~fails \/ handedOut) /\ torn' = (torn \/ fails)
  BY DEF WriteFile
<1>3. handedOut' \in BOOLEAN /\ torn' \in BOOLEAN
  BY <1>2, Zenon DEF FileInv, FileTypes
<1>4. FileTypes'
  BY <1>1, <1>3 DEF FileInv, FileTypes, CachingPhases
<1>5. ASSUME ~raced PROVE CachingIsApart'
  BY <1>1, <1>5 DEF FileInv, FileTypes, CachingIsApart
<1>6. ASSUME ~raced, ~torn' PROVE EmptyIsWritten'
  <2>1. ~torn /\ ~fails
    BY <1>2, <1>6
  <2>2. file = "empty"
    BY <1>1, <1>6 DEF FileInv, CachingIsApart
  <2> QED
    BY <1>1, <2>1, <2>2 DEF EmptyIsWritten
<1> QED
  BY <1>1, <1>4, <1>5, <1>6 DEF FileInv

LEMMA SweepKeepsFileInv ==
    ASSUME FileInv, BeginFileSweep \/ EndFileSweep PROVE FileInv'
<1>1. CASE BeginFileSweep
  <2>1. /\ diskCritical' = FALSE /\ sinceSweep' = 0
        /\ sweep' = IF file # "none" /\ fileAge > DeleteAfter THEN "removes" ELSE "waits"
        /\ UNCHANGED <<file, fileAge, caching, handedOut, torn, youngSwept>>
    BY <1>1 DEF BeginFileSweep
  <2>2. raced' = (raced \/ (sweep' = "removes" /\ \E u \in CacheUsers : caching[u] # "nothing"))
    BY <1>1 DEF BeginFileSweep
  <2>3. raced' \in BOOLEAN /\ diskCritical' \in BOOLEAN
    BY <2>1, <2>2, Zenon DEF FileInv, FileTypes
  <2>4. FileTypes'
    BY <2>1, <2>3 DEF FileInv, FileTypes
  <2>5. ASSUME ~raced' PROVE (~youngSwept /\ CachingIsApart)'
    BY <2>1, <2>2, <2>5 DEF FileInv, FileTypes, CachingIsApart
  <2>6. ASSUME ~raced', ~torn' PROVE EmptyIsWritten'
    BY <2>1, <2>2, <2>6 DEF FileInv, EmptyIsWritten
  <2> QED
    BY <2>4, <2>5, <2>6 DEF FileInv
<1>2. CASE EndFileSweep
  <2>1. /\ sweep = "removes" /\ sweep' = "waits" /\ file' = "none" /\ handedOut' = FALSE
        /\ UNCHANGED <<fileAge, caching, sinceSweep, diskCritical, raced>>
    BY <1>2 DEF EndFileSweep
  <2>2. /\ youngSwept' = (youngSwept \/ (file # "none" /\ fileAge <= DeleteAfter))
        /\ torn' = (torn /\ \E u \in CacheUsers : caching[u] # "nothing")
    BY <1>2 DEF EndFileSweep
  <2>3. youngSwept' \in BOOLEAN /\ torn' \in BOOLEAN /\ handedOut' \in BOOLEAN
    BY <2>1, <2>2, Zenon DEF FileInv, FileTypes
  <2>4. FileTypes'
    BY <2>1, <2>3 DEF FileInv, FileTypes
  <2>5. ASSUME ~raced' PROVE (~youngSwept /\ CachingIsApart)'
    <3>1. ~youngSwept /\ CachingIsApart /\ \A u \in CacheUsers : caching[u] = "nothing"
      BY <2>1, <2>5 DEF FileInv, CachingIsApart
    <3>2. ~(file # "none" /\ fileAge <= DeleteAfter)
      BY <2>1, <3>1, FileCacheAssumption DEF CachingIsApart, FileInv, FileTypes
    <3> QED
      BY <2>1, <2>2, <3>1, <3>2 DEF CachingIsApart
  <2>6. EmptyIsWritten'
    BY <2>1 DEF EmptyIsWritten
  <2> QED
    BY <2>4, <2>5, <2>6 DEF FileInv
<1> QED
  BY <1>1, <1>2

LEMMA OthersKeepFileInv ==
    ASSUME FileInv, RemoveFile \/ ForceDelete \/ RestartCache \/ FileTick PROVE FileInv'
<1>1. CASE RemoveFile
  <2>1. /\ \A u \in CacheUsers : caching[u] = "nothing"
        /\ file' = "none" /\ handedOut' = FALSE /\ torn' = FALSE
        /\ UNCHANGED <<fileAge, caching, sweep, sinceSweep, diskCritical, raced, youngSwept>>
    BY <1>1 DEF RemoveFile
  <2>2. handedOut' \in BOOLEAN /\ torn' \in BOOLEAN
    BY <2>1, Zenon
  <2> QED
    BY <2>1, <2>2 DEF FileInv, FileTypes, CachingIsApart, EmptyIsWritten
<1>2. CASE ForceDelete
  <2>1. diskCritical' \in BOOLEAN /\ sinceSweep' \in Nat
    BY <1>2, FileCacheAssumption DEF ForceDelete
  <2> QED
    BY <1>2, <2>1 DEF ForceDelete, FileInv, FileTypes, CachingIsApart, EmptyIsWritten
<1>3. CASE RestartCache
  <2>1. /\ caching' = [u \in CacheUsers |-> "nothing"] /\ sweep' = "waits" /\ handedOut' = FALSE
        /\ UNCHANGED <<file, fileAge, raced, youngSwept>>
    BY <1>3 DEF RestartCache
  <2>2. torn' = (torn \/ file = "empty")
    BY <1>3 DEF RestartCache
  <2>3. diskCritical' \in BOOLEAN /\ sinceSweep' \in Nat /\ handedOut' \in BOOLEAN
    BY <1>3, FileCacheAssumption DEF RestartCache
  <2>4. torn' \in BOOLEAN
    BY <2>2, Zenon DEF FileInv, FileTypes
  <2>5. FileTypes'
    BY <2>1, <2>3, <2>4 DEF FileInv, FileTypes, CachingPhases
  <2>6. CachingIsApart'
    BY <2>1 DEF CachingIsApart
  <2>7. ASSUME ~torn' PROVE EmptyIsWritten'
    BY <2>1, <2>2, <2>7 DEF EmptyIsWritten
  <2> QED
    BY <2>1, <2>5, <2>6, <2>7 DEF FileInv
<1>4. CASE FileTick
  <2>1. /\ fileAge' = IF file # "none" /\ fileAge <= DeleteAfter THEN fileAge + 1 ELSE fileAge
        /\ sinceSweep' = IF sinceSweep < SweepAfter THEN sinceSweep + 1 ELSE sinceSweep
        /\ UNCHANGED <<file, caching, sweep, diskCritical, handedOut, torn, raced, youngSwept>>
    BY <1>4 DEF FileTick
  <2>2. FileTypes'
    BY <2>1 DEF FileInv, FileTypes
  <2>3. ASSUME CachingIsApart PROVE CachingIsApart'
    BY <2>1, <2>3, FileCacheAssumption DEF FileInv, FileTypes, CachingIsApart
  <2> QED
    BY <2>1, <2>2, <2>3 DEF FileInv, EmptyIsWritten
<1> QED
  BY <1>1, <1>2, <1>3, <1>4

LEMMA FileInvStep == FileInv /\ [FileCacheNext]_fileCacheVars => FileInv'
<1> SUFFICES ASSUME FileInv, [FileCacheNext]_fileCacheVars PROVE FileInv'
  OBVIOUS
<1>1. CASE UNCHANGED fileCacheVars
  BY <1>1 DEF fileCacheVars, FileInv, FileTypes, CachingIsApart, EmptyIsWritten
<1> QED
  BY <1>1, CacheFromDataKeepsFileInv, SetModifiedKeepsFileInv, CreateKeepsFileInv, WriteKeepsFileInv,
     SweepKeepsFileInv, OthersKeepFileInv DEF FileCacheNext

------------------------------------------------------------------------------
(* RequestLogs: the entry of a path, and the calls that are added to it *)

Entries == {NoEntry} \cup [count : Nat \ {0}, min : Durations, max : Durations, age : Nat]
AddingRecords == {NotAdding} \cup [duration : Durations, read : Entries]

RequestTypes ==
    /\ entry \in Entries /\ deleting \in Entries
    /\ adding \in [Loggers -> AddingRecords]
    /\ durations \in Seq(Durations)
    /\ mingled \in BOOLEAN

RequestInv == RequestTypes /\ CallsAreCounted /\ EntryIsOfCalls

LEMMA RequestInvInit == RequestInit => RequestInv
<1> SUFFICES ASSUME RequestInit PROVE RequestInv
  OBVIOUS
<1>1. mingled \in BOOLEAN
  BY Zenon DEF RequestInit
<1> QED
  BY <1>1 DEF RequestInit, RequestInv, RequestTypes, CallsAreCounted, EntryIsOfCalls, Entries, AddingRecords,
      NoEntry

\* An entry that a call is added to counts one more and spans its duration.
LEMMA WithCallIsEntry ==
    ASSUME NEW read \in Entries, NEW duration \in Durations
    PROVE  LET e == WithCall(read, duration) IN
           /\ e \in Entries /\ e # NoEntry
           /\ e.count = read.count + 1
           /\ {e.min, e.max} \subseteq Durations
           /\ e.min <= duration /\ duration <= e.max
           /\ read # NoEntry => e.min <= read.min /\ read.max <= e.max
           /\ read = NoEntry => e.min = duration /\ e.max = duration
           /\ e.min = duration \/ (read # NoEntry /\ e.min = read.min)
           /\ e.max = duration \/ (read # NoEntry /\ e.max = read.max)
<1>1. CASE read = NoEntry
  BY <1>1 DEF WithCall, Entries, NoEntry, Durations
<1>2. CASE read \in [count : Nat \ {0}, min : Durations, max : Durations, age : Nat]
  BY <1>2 DEF WithCall, Entries, NoEntry, Durations
<1> QED
  BY <1>1, <1>2 DEF Entries

\* An entry that is as it was read has the counts that were read.
LEMMA AsReadIsSame ==
    ASSUME NEW read \in Entries, entry \in Entries, IsAsRead(read)
    PROVE  /\ entry.count = read.count /\ entry.min = read.min /\ entry.max = read.max
           /\ entry = NoEntry <=> read = NoEntry
<1>1. \A e \in Entries : /\ [e EXCEPT !.age = 0].count = e.count /\ [e EXCEPT !.age = 0].min = e.min
                         /\ [e EXCEPT !.age = 0].max = e.max
                         /\ e = NoEntry <=> e.count = 0
  BY DEF Entries, NoEntry
<1> QED
  BY <1>1 DEF IsAsRead

LEMMA SetEntryKeepsRequestInv ==
    ASSUME RequestInv, NEW c \in Loggers, SetEntry(c) PROVE RequestInv'
<1> DEFINE read == adding[c].read
<1> DEFINE duration == adding[c].duration
<1> DEFINE before == IF entry = NoEntry \/ mingled' THEN <<>> ELSE durations
<1>1. /\ adding[c] # NotAdding
      /\ entry' = WithCall(read, duration)
      /\ durations' = Append(before, duration)
      /\ adding' = [adding EXCEPT ![c] = NotAdding] /\ deleting' = deleting
  BY DEF SetEntry
<1>2. mingled' = (mingled \/ ~IsAsRead(read))
  BY DEF SetEntry
<1>3. read \in Entries /\ duration \in Durations
  BY <1>1 DEF RequestInv, RequestTypes, AddingRecords
<1>4. before \in Seq(Durations)
  BY DEF RequestInv, RequestTypes
<1> HIDE DEF read, duration, before
<1>5. RequestTypes'
  <2>1. mingled' \in BOOLEAN
    BY <1>2, Zenon DEF RequestInv, RequestTypes
  <2> QED
    BY <1>1, <1>3, <1>4, <2>1, WithCallIsEntry DEF RequestInv, RequestTypes, AddingRecords
<1>6. /\ DOMAIN durations' = 1..(Len(before) + 1) /\ Len(durations') = Len(before) + 1
      /\ durations'[Len(before) + 1] = duration
      /\ \A i \in DOMAIN before : i \in DOMAIN durations' /\ durations'[i] = before[i]
      /\ \A i \in DOMAIN durations' : i \in DOMAIN before \/ i = Len(before) + 1
      /\ Len(before) \in Nat
  BY <1>1, <1>3, <1>4
<1>7. EntryIsOfCalls'
  <2>1. /\ entry' \in Entries /\ entry' # NoEntry /\ {entry'.min, entry'.max} \subseteq Durations
        /\ entry'.min <= duration /\ duration <= entry'.max
    BY <1>1, <1>3, WithCallIsEntry
  <2>2. entry'.count > 0
    BY <2>1 DEF Entries
  <2>3. duration \in entry'.min..entry'.max
    BY <1>3, <2>1 DEF Durations
  <2> QED
    BY <1>6, <2>1, <2>2, <2>3 DEF EntryIsOfCalls
<1>8. ASSUME ~mingled' PROVE CallsAreCounted'
  <2>1. ~mingled /\ IsAsRead(read)
    BY <1>2, <1>8
  <2>2. /\ entry.count = read.count /\ entry.min = read.min /\ entry.max = read.max
        /\ entry = NoEntry <=> read = NoEntry
    BY <1>3, <2>1, AsReadIsSame DEF RequestInv, RequestTypes
  <2>3. /\ entry.count = Len(durations)
        /\ \A i \in DOMAIN durations : durations[i] \in entry.min..entry.max
        /\ entry # NoEntry => \E i, j \in DOMAIN durations : durations[i] = entry.min /\ durations[j] = entry.max
    BY <2>1 DEF RequestInv, CallsAreCounted
  <2>4. CASE entry = NoEntry
    <3>1. before = <<>> /\ Len(before) = 0 /\ DOMAIN durations' = {1} /\ durations'[1] = duration
      BY <1>1, <1>3, <2>4 DEF before
    <3>2. entry'.count = 1 /\ entry'.min = duration /\ entry'.max = duration
      BY <1>1, <1>3, <2>2, <2>4, WithCallIsEntry DEF NoEntry
    <3> QED
      BY <1>3, <1>6, <3>1, <3>2 DEF CallsAreCounted, Durations
  <2>5. CASE entry # NoEntry
    <3>1. before = durations
      BY <1>8, <2>5 DEF before
    <3>2. /\ entry'.count = entry.count + 1
          /\ entry'.min <= entry.min /\ entry.max <= entry'.max
          /\ entry'.min <= duration /\ duration <= entry'.max
          /\ entry'.min = duration \/ entry'.min = entry.min
          /\ entry'.max = duration \/ entry'.max = entry.max
          /\ entry'.min \in Int /\ entry'.max \in Int /\ duration \in Int
      BY <1>1, <1>3, <2>2, <2>5, WithCallIsEntry DEF Durations
    <3>3. entry.min \in Int /\ entry.max \in Int
      BY <2>5 DEF RequestInv, RequestTypes, Entries, Durations
    <3>4. \A i \in DOMAIN durations' : durations'[i] \in entry'.min..entry'.max
      <4> SUFFICES ASSUME NEW i \in DOMAIN durations' PROVE durations'[i] \in entry'.min..entry'.max
        OBVIOUS
      <4>1. CASE i \in DOMAIN before
        BY <1>6, <2>3, <3>1, <3>2, <3>3, <4>1
      <4>2. CASE i = Len(before) + 1
        BY <1>6, <3>2, <4>2
      <4> QED
        BY <1>6, <4>1, <4>2
    <3>5. \E i \in DOMAIN durations' : durations'[i] = entry'.min
      BY <1>6, <2>3, <2>5, <3>1, <3>2, SMTT(30)
    <3>6. \E i \in DOMAIN durations' : durations'[i] = entry'.max
      BY <1>6, <2>3, <2>5, <3>1, <3>2, SMTT(30)
    <3> QED
      BY <1>6, <2>3, <3>1, <3>2, <3>4, <3>5, <3>6 DEF CallsAreCounted
  <2> QED
    BY <2>4, <2>5
<1> QED
  BY <1>5, <1>7, <1>8 DEF RequestInv, CallsAreCounted

LEMMA RequestInvStep == RequestInv /\ [RequestNext]_requestVars => RequestInv'
<1> SUFFICES ASSUME RequestInv, [RequestNext]_requestVars PROVE RequestInv'
  OBVIOUS
<1>1. ASSUME NEW c \in Loggers, ReadEntry(c) PROVE RequestInv'
  <2>1. PICK duration \in Durations :
            adding' = [adding EXCEPT ![c] = [duration |-> duration, read |-> entry]]
    BY <1>1 DEF ReadEntry
  <2>2. UNCHANGED <<entry, deleting, durations, mingled>>
    BY <1>1 DEF ReadEntry
  <2>3. adding' \in [Loggers -> AddingRecords]
    BY <2>1 DEF RequestInv, RequestTypes, AddingRecords
  <2> QED
    BY <2>2, <2>3 DEF RequestInv, RequestTypes, CallsAreCounted, EntryIsOfCalls
<1>2. CASE FindOld
  BY <1>2 DEF FindOld, RequestInv, RequestTypes, CallsAreCounted, EntryIsOfCalls
<1>3. CASE RemoveOld
  <2>1. /\ entry' = NoEntry /\ durations' = <<>> /\ deleting' = NoEntry /\ adding' = adding
    BY <1>3 DEF RemoveOld
  <2>2. mingled' \in BOOLEAN
    BY <1>3, Zenon DEF RemoveOld, RequestInv, RequestTypes
  <2> QED
    BY <2>1, <2>2 DEF RequestInv, RequestTypes, CallsAreCounted, EntryIsOfCalls, Entries, NoEntry
<1>4. CASE DaysPass
  <2>1. /\ entry # NoEntry /\ entry' = [entry EXCEPT !.age = entry.age + 1]
        /\ UNCHANGED <<adding, deleting, durations, mingled>>
    BY <1>4 DEF DaysPass
  <2>2. entry \in [count : Nat \ {0}, min : Durations, max : Durations, age : Nat]
    BY <2>1 DEF RequestInv, RequestTypes, Entries
  <2>3. /\ entry' \in Entries
        /\ entry'.count = entry.count /\ entry'.min = entry.min /\ entry'.max = entry.max
    BY <2>1, <2>2 DEF Entries
  <2> QED
    BY <2>1, <2>3 DEF RequestInv, RequestTypes, CallsAreCounted, EntryIsOfCalls
<1>5. CASE UNCHANGED requestVars
  BY <1>5 DEF requestVars, RequestInv, RequestTypes, CallsAreCounted, EntryIsOfCalls
<1> QED
  BY <1>1, <1>2, <1>3, <1>4, <1>5, SetEntryKeepsRequestInv DEF RequestNext

------------------------------------------------------------------------------
(* UserAccounts: users, their sessions, and the handlers that change both *)

TaskPhases == {"adds session", "registers", "adds user", "changes password",
               "ends sessions, adds session", "ends sessions", "deletes", "renames", "permits",
               "removes reset", "pops"}
Tasks == [does : TaskPhases, id : Nat, name : UserNames \cup {""}, password : Passwords \cup {NoID},
          admin : BOOLEAN]
UserRows == [name : UserNames, password : Passwords, admin : BOOLEAN]
SessionRows == [token : Nat, id : Nat, password : Passwords \cup {NoID}, admin : BOOLEAN]

ResetRecords == [name : UserNames \cup {"none"}, used : Nat]
TemporaryRecords == [id : Nat, popped : Nat]

AccountTypes ==
    /\ added \in Nat /\ tokens \in Nat
    /\ DOMAIN users \subseteq 1..added /\ users \in [DOMAIN users -> UserRows]
    /\ sessions \subseteq SessionRows
    /\ handlers \in [AccountCallers -> {Free} \cup Tasks]
    /\ reset \in ResetRecords /\ temporary \in TemporaryRecords
    /\ crossed \in BOOLEAN /\ sqlFailed \in BOOLEAN
    /\ \A h \in AccountCallers :
          /\ handlers[h].does \in {"registers", "adds user"} =>
                handlers[h].name \in UserNames /\ handlers[h].password \in Passwords
          /\ handlers[h].does \in {"changes password", "removes reset"} => handlers[h].password \in Passwords

OneUserAName == \A i, j \in DOMAIN users : users[i].name = users[j].name => i = j

\* Handlers that come one at a time, and the tokens that they have found but not removed.
HandlersAreApart ==
    /\ \A h, o \in AccountCallers : handlers[h] # Free /\ handlers[o] # Free => h = o
    /\ \A h \in AccountCallers : /\ handlers[h].does = "removes reset" => reset.used = 0
                                 /\ handlers[h].does = "pops" => temporary.popped = 0
    /\ reset.used <= 1 /\ temporary.popped <= 1

\* What a handler knows of its user is so: it is what a session that it adds will have.
Knows(h) ==
    LET t == handlers[h] IN
    /\ t.does \in {"adds session", "ends sessions, adds session"} =>
          t.id \in DOMAIN users /\ t.password = users[t.id].password /\ t.admin = users[t.id].admin
    /\ t.does \in {"changes password", "removes reset", "renames"} =>
          t.id \in DOMAIN users /\ t.admin = users[t.id].admin
    /\ t.does \in {"registers", "adds user"} => Named(t.name) = {} /\ t.admin = FALSE

\* A session that is not as its user is one that a handler is about to end.
IsEnding(id) ==
    \E h \in AccountCallers : /\ handlers[h].does \in {"ends sessions", "ends sessions, adds session"}
                              /\ handlers[h].id = id
IsOfUser(s) ==
    s.id \in DOMAIN users /\ s.password = users[s.id].password /\ s.admin = users[s.id].admin

SessionsAreKnown ==
    /\ \A h \in AccountCallers : Knows(h)
    /\ \A s \in sessions : IsOfUser(s) \/ IsEnding(s.id)

AccountInv ==
    /\ AccountTypes /\ OneUserAName
    /\ ~crossed => HandlersAreApart
    /\ ~crossed /\ ~sqlFailed => SessionsAreKnown

\* A handler is free or has a task.
LEMMA FreeDoesNothing == Free.does = "nothing" /\ \A t \in Tasks : t # Free /\ t.does # "nothing"
<1>1. Free.does = "nothing"
  BY DEF Free
<1>2. \A t \in Tasks : t.does # "nothing"
  BY DEF Tasks, TaskPhases
<1> QED
  BY <1>1, <1>2

LEMMA AccountInvInit == AccountsInit => AccountInv
<1> SUFFICES ASSUME AccountsInit PROVE AccountInv
  OBVIOUS
<1>1. crossed \in BOOLEAN /\ sqlFailed \in BOOLEAN
  BY Zenon DEF AccountsInit
<1>2. /\ DOMAIN users = {} /\ users \in [DOMAIN users -> UserRows]
      /\ \A h \in AccountCallers : handlers[h].does = "nothing"
      /\ handlers \in [AccountCallers -> {Free} \cup Tasks]
      /\ reset.used = 0 /\ temporary.popped = 0 /\ temporary.id = 0
  BY DEF AccountsInit, NoReset, NoTemporary, Free, NoID
<1>3. AccountTypes
  <2>1. /\ added = 0 /\ tokens = 0 /\ sessions = {}
        /\ reset = [name |-> "none", used |-> 0] /\ temporary = [id |-> 0, popped |-> 0]
    BY DEF AccountsInit, NoReset, NoTemporary, NoID
  <2> QED
    BY <1>1, <1>2, <2>1 DEF AccountTypes, ResetRecords, TemporaryRecords
<1>4. OneUserAName /\ HandlersAreApart
  BY <1>2 DEF AccountsInit, OneUserAName, HandlersAreApart
<1>5. SessionsAreKnown
  BY <1>2 DEF AccountsInit, SessionsAreKnown, Knows
<1> QED
  BY <1>3, <1>4, <1>5 DEF AccountInv

LEMMA AccountInvGives == AccountInv => AccountsAreKept
<1> SUFFICES ASSUME AccountInv PROVE AccountsAreKept
  OBVIOUS
<1>1. ASSUME InTurn, NEW s \in sessions
      PROVE  /\ s.id \in DOMAIN users
             /\ s.password = PasswordOf(s.id) /\ s.admin = PermissionsOf(s.id)
  <2>1. \A h \in AccountCallers : handlers[h].does = "nothing"
    BY <1>1, FreeDoesNothing DEF InTurn, AllFree
  <2>2. IsOfUser(s)
    BY <1>1, <2>1 DEF InTurn, AccountInv, SessionsAreKnown, IsEnding
  <2> QED
    BY <2>2 DEF IsOfUser, PasswordOf, PermissionsOf
<1>2. ASSUME NEW name \in UserNames PROVE Cardinality(Named(name)) <= 1
  <2>1. CASE Named(name) = {}
    BY <2>1, FS_EmptySet
  <2>2. CASE Named(name) # {}
    <3>1. PICK id : id \in Named(name)
      BY <2>2
    <3>2. Named(name) = {id}
      BY <3>1 DEF Named, AccountInv, OneUserAName
    <3>3. Cardinality({id}) = 1
      BY FS_Singleton
    <3> QED
      BY <3>2, <3>3
  <2> QED
    BY <2>1, <2>2
<1>3. TokensAreUsedOnce
  BY DEF AccountInv, HandlersAreApart, TokensAreUsedOnce
<1> QED
  BY <1>1, <1>2, <1>3 DEF AccountsAreKept, SessionsAreOfUsers, NamesAreUnique

\* A handler begins: others that are at work have crossed it.
LEMMA StartingGives ==
    ASSUME AccountInv, NEW h \in AccountCallers, NEW t \in Tasks, Starting(h, t)
    PROVE  /\ handlers' \in [AccountCallers -> {Free} \cup Tasks]
           /\ handlers[h] = Free /\ handlers'[h] = t
           /\ \A o \in AccountCallers \ {h} : handlers'[o] = handlers[o]
           /\ crossed' \in BOOLEAN
           /\ ~crossed' => /\ ~crossed /\ HandlersAreApart
                           /\ \A o \in AccountCallers : handlers[o] = Free
<1>1. /\ handlers[h] = Free
      /\ handlers' = [handlers EXCEPT ![h] = t]
  BY DEF Starting
<1>2. crossed' = (crossed \/ \E o \in AccountCallers \ {h} : handlers[o] # Free)
  BY DEF Starting
<1>3. crossed' \in BOOLEAN
  BY <1>2, Zenon DEF AccountInv, AccountTypes
<1>4. /\ handlers' \in [AccountCallers -> {Free} \cup Tasks]
      /\ handlers'[h] = t
      /\ \A o \in AccountCallers \ {h} : handlers'[o] = handlers[o]
  BY <1>1 DEF AccountInv, AccountTypes
<1> QED
  BY <1>1, <1>2, <1>3, <1>4 DEF AccountInv

\* The first step of every handler reads the tables and the caches, and writes none of them.
LEMMA StartKeepsAccountInv ==
    ASSUME AccountInv, NEW h \in AccountCallers, NEW t \in Tasks, Starting(h, t),
           UNCHANGED <<users, added, sessions, tokens, reset, temporary, sqlFailed>>,
           t.does \in {"registers", "adds user"} => t.name \in UserNames /\ t.password \in Passwords,
           t.does \in {"changes password", "removes reset"} => t.password \in Passwords,
           t.does = "removes reset" => reset.used = 0,
           t.does = "pops" => temporary.popped = 0,
           t.does \in {"adds session", "ends sessions, adds session"} =>
               t.id \in DOMAIN users /\ t.password = users[t.id].password /\ t.admin = users[t.id].admin,
           t.does \in {"changes password", "removes reset", "renames"} =>
               t.id \in DOMAIN users /\ t.admin = users[t.id].admin,
           t.does \in {"registers", "adds user"} => Named(t.name) = {} /\ t.admin = FALSE
    PROVE  AccountInv'
<1>1. /\ handlers' \in [AccountCallers -> {Free} \cup Tasks]
      /\ handlers[h] = Free /\ handlers'[h] = t
      /\ \A o \in AccountCallers \ {h} : handlers'[o] = handlers[o]
      /\ crossed' \in BOOLEAN
      /\ ~crossed' => /\ ~crossed /\ HandlersAreApart
                      /\ \A o \in AccountCallers : handlers[o] = Free
  BY StartingGives
<1>2. AccountTypes'
  BY <1>1 DEF AccountInv, AccountTypes
<1>3. OneUserAName'
  BY DEF AccountInv, OneUserAName
<1>4. ASSUME ~crossed' PROVE HandlersAreApart'
  <2>1. /\ \A o \in AccountCallers \ {h} : handlers'[o] = Free /\ handlers'[o].does = "nothing"
        /\ handlers'[h] = t /\ HandlersAreApart
    BY <1>1, <1>4, FreeDoesNothing
  <2>2. \A o \in AccountCallers : /\ handlers'[o].does = "removes reset" => reset'.used = 0
                                  /\ handlers'[o].does = "pops" => temporary'.popped = 0
    BY <2>1
  <2>3. \A i, o \in AccountCallers : handlers'[i] # Free /\ handlers'[o] # Free => i = o
    BY <2>1
  <2>4. reset'.used <= 1 /\ temporary'.popped <= 1
    BY <2>1 DEF HandlersAreApart
  <2> QED
    BY <2>2, <2>3, <2>4 DEF HandlersAreApart
<1>5. ASSUME ~crossed', ~sqlFailed' PROVE SessionsAreKnown'
  <2>1. SessionsAreKnown /\ \A o \in AccountCallers : handlers[o] = Free
    BY <1>1, <1>5 DEF AccountInv
  <2>2. \A o \in AccountCallers : Knows(o)'
    BY <1>1, <2>1, FreeDoesNothing, ZenonT(40) DEF Knows, Named
  <2>3. \A s \in sessions : IsOfUser(s)
    BY <2>1, FreeDoesNothing DEF SessionsAreKnown, IsEnding
  <2> QED
    BY <2>2, <2>3 DEF SessionsAreKnown, IsOfUser
<1> QED
  BY <1>2, <1>3, <1>4, <1>5 DEF AccountInv

LEMMA FirstStepsKeepAccountInv ==
    ASSUME AccountInv, NEW h \in AccountCallers,
           \/ baseLogin(h) \/ (\E makeToken \in BOOLEAN : RegisterUser(h, makeToken))
           \/ ChangePasswordForSelf(h) \/ BeginDelete(h) \/ BeginChange(h) \/ GetOrCreateSession(h)
           \/ FindReset(h) \/ BeginPop(h)
    PROVE  AccountInv'
<1> USE DEF Task
<1>1. \A id \in DOMAIN users : /\ id \in Nat /\ users[id] \in UserRows
                               /\ users[id].name \in UserNames /\ users[id].password \in Passwords
                               /\ users[id].admin \in BOOLEAN
  <2>1. \A id \in DOMAIN users : id \in Nat /\ users[id] \in UserRows
    <3>1. /\ added \in Nat /\ DOMAIN users \subseteq 1..added
          /\ users \in [DOMAIN users -> UserRows]
      BY DEF AccountInv, AccountTypes
    <3> QED
      BY <3>1
  <2>2. \A row \in UserRows : row.name \in UserNames /\ row.password \in Passwords /\ row.admin \in BOOLEAN
    BY DEF UserRows
  <2> QED
    BY <2>1, <2>2
<1>2. CASE baseLogin(h)
  <2>1. PICK name \in UserNames : \E id \in Named(name) :
          Starting(h, Task("adds session", id, name, users[id].password, users[id].admin))
    BY <1>2 DEF baseLogin
  <2>5. PICK id \in Named(name) :
          Starting(h, Task("adds session", id, name, users[id].password, users[id].admin))
    BY <2>1
  <2>2. id \in DOMAIN users
    BY DEF Named
  <2>3. Task("adds session", id, name, users[id].password, users[id].admin) \in Tasks
    BY <1>1, <2>2 DEF Tasks, TaskPhases
  <2>4. UNCHANGED <<users, added, sessions, tokens, reset, temporary, sqlFailed>>
    BY <1>2 DEF baseLogin
  <2> QED
    BY <2>2, <2>3, <2>4, <2>5, StartKeepsAccountInv
<1>3. ASSUME NEW makeToken \in BOOLEAN, RegisterUser(h, makeToken) PROVE AccountInv'
  <2> DEFINE does == IF makeToken THEN "registers" ELSE "adds user"
  <2>1. PICK name \in UserNames :
          Named(name) = {} /\ Starting(h, Task(does, NoID, name, FirstPassword, FALSE))
    BY <1>3 DEF RegisterUser
  <2>2. FirstPassword \in Passwords
    BY AccountAssumption DEF FirstPassword
  <2>3. Task(does, NoID, name, FirstPassword, FALSE) \in Tasks
    BY <2>2 DEF Tasks, TaskPhases, NoID
  <2>4. UNCHANGED <<users, added, sessions, tokens, reset, temporary, sqlFailed>>
    BY <1>3 DEF RegisterUser
  <2> QED
    BY <2>1, <2>2, <2>3, <2>4, StartKeepsAccountInv
<1>4. CASE ChangePasswordForSelf(h)
  <2>1. PICK s \in sessions : /\ s.id \in DOMAIN users
          /\ \E p \in OtherPasswords(s.id) :
                Starting(h, Task("changes password", s.id, users[s.id].name, p, users[s.id].admin))
    BY <1>4 DEF ChangePasswordForSelf
  <2>2. PICK p \in OtherPasswords(s.id) :
                Starting(h, Task("changes password", s.id, users[s.id].name, p, users[s.id].admin))
    BY <2>1
  <2>3. p \in Passwords
    BY DEF OtherPasswords
  <2>4. Task("changes password", s.id, users[s.id].name, p, users[s.id].admin) \in Tasks
    BY <1>1, <2>1, <2>3 DEF Tasks, TaskPhases
  <2>5. UNCHANGED <<users, added, sessions, tokens, reset, temporary, sqlFailed>>
    BY <1>4 DEF ChangePasswordForSelf
  <2> QED
    BY <2>1, <2>2, <2>3, <2>4, <2>5, StartKeepsAccountInv
<1>5. CASE BeginDelete(h)
  <2>1. PICK id \in DOMAIN users : Starting(h, Task("deletes", id, users[id].name, NoID, FALSE))
    BY <1>5 DEF BeginDelete
  <2>2. Task("deletes", id, users[id].name, NoID, FALSE) \in Tasks
    BY <1>1 DEF Tasks, TaskPhases
  <2>3. UNCHANGED <<users, added, sessions, tokens, reset, temporary, sqlFailed>>
    BY <1>5 DEF BeginDelete
  <2> QED
    BY <2>1, <2>2, <2>3, StartKeepsAccountInv
<1>6. CASE BeginChange(h)
  <2>1. PICK id \in DOMAIN users, admin \in BOOLEAN :
          Starting(h, Task(IF admin = users[id].admin THEN "renames" ELSE "permits", id,
                           users[id].name, NoID, admin))
    BY <1>6 DEF BeginChange
  <2>2. Task(IF admin = users[id].admin THEN "renames" ELSE "permits", id, users[id].name, NoID, admin) \in Tasks
    BY <1>1 DEF Tasks, TaskPhases
  <2>3. UNCHANGED <<users, added, sessions, tokens, reset, temporary, sqlFailed>>
    BY <1>6 DEF BeginChange
  <2> QED
    BY <2>1, <2>2, <2>3, StartKeepsAccountInv
<1>7. CASE GetOrCreateSession(h)
  <2>1. PICK id \in DOMAIN users :
          Starting(h, Task("adds session", id, users[id].name, users[id].password, users[id].admin))
    BY <1>7 DEF GetOrCreateSession
  <2>2. Task("adds session", id, users[id].name, users[id].password, users[id].admin) \in Tasks
    BY <1>1 DEF Tasks, TaskPhases
  <2>3. UNCHANGED <<users, added, sessions, tokens, reset, temporary, sqlFailed>>
    BY <1>7 DEF GetOrCreateSession
  <2> QED
    BY <2>1, <2>2, <2>3, StartKeepsAccountInv
<1>8. CASE FindReset(h)
  <2>1. PICK id \in Named(reset.name) : \E p \in OtherPasswords(id) :
            Starting(h, Task("removes reset", id, reset.name, p, users[id].admin))
    BY <1>8 DEF FindReset
  <2>2. PICK p \in OtherPasswords(id) : Starting(h, Task("removes reset", id, reset.name, p, users[id].admin))
    BY <2>1
  <2>3. p \in Passwords /\ id \in DOMAIN users /\ users[id].name = reset.name
    BY DEF OtherPasswords, Named
  <2>4. Task("removes reset", id, reset.name, p, users[id].admin) \in Tasks
    BY <1>1, <2>3 DEF Tasks, TaskPhases
  <2>5. reset.used = 0 /\ UNCHANGED <<users, added, sessions, tokens, reset, temporary, sqlFailed>>
    BY <1>8 DEF FindReset
  <2> QED
    BY <2>2, <2>3, <2>4, <2>5, StartKeepsAccountInv
<1>9. CASE BeginPop(h)
  <2>1. Starting(h, Task("pops", temporary.id, "", NoID, FALSE)) /\ temporary.popped = 0
    BY <1>9 DEF BeginPop
  <2>2. Task("pops", temporary.id, "", NoID, FALSE) \in Tasks
    BY DEF Tasks, TaskPhases, AccountInv, AccountTypes, TemporaryRecords
  <2>3. UNCHANGED <<users, added, sessions, tokens, reset, temporary, sqlFailed>>
    BY <1>9 DEF BeginPop
  <2> QED
    BY <2>1, <2>2, <2>3, StartKeepsAccountInv
<1> QED
  BY <1>2, <1>3, <1>4, <1>5, <1>6, <1>7, <1>8, <1>9

\* A handler that is at work goes on with another step, or ends; alone, if none has crossed it.
LEMMA GoingOnGives ==
    ASSUME AccountInv, NEW h \in AccountCallers, handlers[h].does # "nothing"
    PROVE  /\ handlers[h] \in Tasks
           /\ ~crossed => \A o \in AccountCallers \ {h} : handlers[o] = Free /\ handlers[o].does = "nothing"
           /\ \A what \in TaskPhases : Turns(h, what) =>
                 /\ handlers' \in [AccountCallers -> {Free} \cup Tasks]
                 /\ handlers'[h] = [handlers[h] EXCEPT !.does = what]
                 /\ handlers'[h].does = what
                 /\ handlers'[h].id = handlers[h].id /\ handlers'[h].name = handlers[h].name
                 /\ handlers'[h].password = handlers[h].password /\ handlers'[h].admin = handlers[h].admin
                 /\ \A o \in AccountCallers \ {h} : handlers'[o] = handlers[o]
           /\ Ends(h) =>
                 /\ handlers' \in [AccountCallers -> {Free} \cup Tasks]
                 /\ handlers'[h] = Free /\ handlers'[h].does = "nothing"
                 /\ \A o \in AccountCallers \ {h} : handlers'[o] = handlers[o]
<1>1. handlers[h] # Free /\ handlers[h] \in Tasks
  BY FreeDoesNothing DEF AccountInv, AccountTypes
<1>2. ~crossed => \A o \in AccountCallers \ {h} : handlers[o] = Free /\ handlers[o].does = "nothing"
  BY <1>1, FreeDoesNothing DEF AccountInv, HandlersAreApart
<1>3. ASSUME NEW what \in TaskPhases, Turns(h, what)
      PROVE  /\ handlers' \in [AccountCallers -> {Free} \cup Tasks]
             /\ handlers'[h] = [handlers[h] EXCEPT !.does = what]
             /\ handlers'[h].does = what
             /\ handlers'[h].id = handlers[h].id /\ handlers'[h].name = handlers[h].name
             /\ handlers'[h].password = handlers[h].password /\ handlers'[h].admin = handlers[h].admin
             /\ \A o \in AccountCallers \ {h} : handlers'[o] = handlers[o]
  <2>1. [handlers[h] EXCEPT !.does = what] \in Tasks
    BY <1>1 DEF Tasks
  <2>2. handlers' = [handlers EXCEPT ![h] = [handlers[h] EXCEPT !.does = what]]
    BY <1>3 DEF Turns
  <2>3. /\ handlers' \in [AccountCallers -> {Free} \cup Tasks]
        /\ handlers'[h] = [handlers[h] EXCEPT !.does = what]
        /\ \A o \in AccountCallers \ {h} : handlers'[o] = handlers[o]
    BY <2>1, <2>2 DEF AccountInv, AccountTypes
  <2> QED
    BY <1>1, <2>3 DEF Tasks
<1>4. ASSUME Ends(h)
      PROVE  /\ handlers' \in [AccountCallers -> {Free} \cup Tasks]
             /\ handlers'[h] = Free /\ handlers'[h].does = "nothing"
             /\ \A o \in AccountCallers \ {h} : handlers'[o] = handlers[o]
  BY <1>4, FreeDoesNothing DEF Ends, AccountInv, AccountTypes
<1> QED
  BY <1>1, <1>2, <1>3, <1>4

CachesAreKept ==
    /\ reset' \in ResetRecords /\ temporary' \in TemporaryRecords
    /\ ~crossed => reset'.used <= 1 /\ temporary'.popped <= 1

\* What is left to show of a later step of a handler: the tables, and what it knows of them.
LEMMA LaterStepKeepsAccountInv ==
    ASSUME AccountInv, NEW h \in AccountCallers, handlers[h].does # "nothing",
           handlers' \in [AccountCallers -> {Free} \cup Tasks],
           \A o \in AccountCallers \ {h} : handlers'[o] = handlers[o],
           handlers'[h].does \notin {"registers", "adds user", "removes reset", "pops"},
           handlers'[h].does = "changes password" => handlers'[h].password \in Passwords,
           added' \in Nat, tokens' \in Nat, sessions' \subseteq SessionRows,
           DOMAIN users' \subseteq 1..added', users' \in [DOMAIN users' -> UserRows], OneUserAName',
           CachesAreKept,
           crossed' = crossed, sqlFailed' \in BOOLEAN,
           ~crossed /\ ~sqlFailed' =>
               /\ ~sqlFailed /\ Knows(h)'
               /\ \A s \in sessions' : IsOfUser(s)' \/ (s.id = handlers'[h].id
                     /\ handlers'[h].does \in {"ends sessions", "ends sessions, adds session"})
    PROVE  AccountInv'
<1>1. /\ ~crossed => \A o \in AccountCallers \ {h} : handlers[o] = Free /\ handlers[o].does = "nothing"
  BY GoingOnGives
<1>4. \A o \in AccountCallers :
          /\ handlers'[o].does \in {"registers", "adds user"} =>
                handlers'[o].name \in UserNames /\ handlers'[o].password \in Passwords
          /\ handlers'[o].does \in {"changes password", "removes reset"} => handlers'[o].password \in Passwords
  BY <1>1 DEF AccountInv, AccountTypes
<1>5. crossed' \in BOOLEAN
  BY Zenon DEF AccountInv, AccountTypes
<1>6. AccountTypes'
  BY <1>1, <1>4, <1>5 DEF AccountTypes, CachesAreKept
<1>7. ASSUME ~crossed' PROVE HandlersAreApart'
  <2>1. /\ ~crossed /\ HandlersAreApart
        /\ \A o \in AccountCallers \ {h} : handlers'[o] = Free /\ handlers'[o].does = "nothing"
    BY <1>1, <1>7 DEF AccountInv
  <2>2. reset'.used <= 1 /\ temporary'.popped <= 1
    BY <2>1 DEF CachesAreKept
  <2>3. \A o \in AccountCallers : handlers'[o].does \notin {"removes reset", "pops"}
    BY <2>1
  <2>4. \A i, o \in AccountCallers : handlers'[i] # Free /\ handlers'[o] # Free => i = o
    BY <2>1
  <2> QED
    BY <2>2, <2>3, <2>4 DEF HandlersAreApart
<1>8. ASSUME ~crossed', ~sqlFailed' PROVE SessionsAreKnown'
  <2>1. ~crossed
    BY <1>8
  <2>2. \A o \in AccountCallers \ {h} : handlers'[o].does = "nothing"
    BY <1>1, <2>1
  <2>3. \A o \in AccountCallers : Knows(o)'
    BY <1>8, <2>1, <2>2 DEF Knows
  <2> QED
    BY <1>8, <2>1, <2>3 DEF SessionsAreKnown, IsEnding
<1> QED
  BY <1>6, <1>7, <1>8, Zenon DEF AccountInv

LEMMA AddSessionKeepsAccountInv ==
    ASSUME AccountInv, NEW h \in AccountCallers, AddNewSession(h) PROVE AccountInv'
<1> DEFINE t == handlers[h]
<1> DEFINE s == [token |-> tokens + 1, id |-> t.id, password |-> t.password, admin |-> t.admin]
<1>1. /\ t.does = "adds session" /\ tokens' = tokens + 1 /\ sessions' = sessions \cup {s} /\ Ends(h)
      /\ UNCHANGED <<users, added, reset, temporary, crossed, sqlFailed>>
  BY DEF AddNewSession, Does
<1>2. /\ t \in Tasks
      /\ handlers' \in [AccountCallers -> {Free} \cup Tasks]
      /\ handlers'[h] = Free /\ handlers'[h].does = "nothing"
      /\ \A o \in AccountCallers \ {h} : handlers'[o] = handlers[o]
      /\ ~crossed => \A o \in AccountCallers \ {h} : handlers[o].does = "nothing"
  BY <1>1, GoingOnGives
<1>3. tokens' \in Nat /\ s \in SessionRows
  <2>1. t.id \in Nat /\ t.password \in Passwords \cup {NoID} /\ t.admin \in BOOLEAN
    BY <1>2 DEF Tasks
  <2>2. tokens \in Nat
    BY DEF AccountInv, AccountTypes
  <2>3. tokens + 1 \in Nat
    BY <2>2
  <2> QED
    BY <1>1, <2>1, <2>3, Zenon DEF SessionRows
<1>4. OneUserAName'
  BY <1>1 DEF AccountInv, OneUserAName
<1>5. ASSUME ~crossed, ~sqlFailed' PROVE ~sqlFailed /\ Knows(h)' /\ \A x \in sessions' : IsOfUser(x)'
  <2>1. ~sqlFailed /\ SessionsAreKnown
    BY <1>1, <1>5 DEF AccountInv
  <2>2. \A x \in sessions : IsOfUser(x)
    BY <1>1, <1>2, <1>5, <2>1 DEF SessionsAreKnown, IsEnding
  <2>3. IsOfUser(s)
    BY <1>1, <2>1 DEF SessionsAreKnown, Knows, IsOfUser
  <2>4. Knows(h)'
    BY <1>2 DEF Knows
  <2> QED
    BY <1>1, <2>1, <2>2, <2>3, <2>4 DEF IsOfUser
<1> HIDE DEF s
<1>6. sessions' \subseteq SessionRows /\ sqlFailed' \in BOOLEAN
  BY <1>1, <1>3 DEF AccountInv, AccountTypes
<1>7. added' \in Nat /\ DOMAIN users' \subseteq 1..added' /\ users' \in [DOMAIN users' -> UserRows]
  BY <1>1 DEF AccountInv, AccountTypes
<1>8. CachesAreKept
  BY <1>1, <1>2 DEF CachesAreKept, AccountInv, AccountTypes, HandlersAreApart
<1> QED
  BY <1>1, <1>2, <1>3, <1>4, <1>5, <1>6, <1>7, <1>8, LaterStepKeepsAccountInv 
LEMMA OthersAreKept ==
    ASSUME AccountInv, UNCHANGED <<reset, temporary>> PROVE CachesAreKept
  BY DEF CachesAreKept, AccountInv, AccountTypes, HandlersAreApart

\* The users are rows of IDs that were given.
LEMMA UserRow ==
    ASSUME AccountInv
    PROVE  added \in Nat /\ DOMAIN users \subseteq 1..added /\ users \in [DOMAIN users -> UserRows]
  BY DEF AccountInv, AccountTypes

\* A change of a password leaves all else in the table.
LEMMA PasswordOfRow ==
    ASSUME AccountInv, NEW id \in DOMAIN users, NEW password \in Passwords,
           users' = [users EXCEPT ![id].password = password]
    PROVE  /\ DOMAIN users' = DOMAIN users /\ users' \in [DOMAIN users' -> UserRows]
           /\ users'[id].password = password /\ users'[id].admin = users[id].admin
           /\ \A i \in DOMAIN users : users'[i].name = users[i].name
           /\ \A i \in DOMAIN users \ {id} : users'[i] = users[i]
  BY UserRow DEF UserRows

\* So does a change of permissions.
LEMMA AdminOfRow ==
    ASSUME AccountInv, NEW id \in DOMAIN users, NEW admin \in BOOLEAN,
           users' = [users EXCEPT ![id].admin = admin]
    PROVE  /\ DOMAIN users' = DOMAIN users /\ users' \in [DOMAIN users' -> UserRows]
           /\ users'[id].password = users[id].password /\ users'[id].admin = admin
           /\ \A i \in DOMAIN users : users'[i].name = users[i].name
           /\ \A i \in DOMAIN users \ {id} : users'[i] = users[i]
  BY UserRow DEF UserRows

LEMMA ChangePasswordKeepsAccountInv ==
    ASSUME AccountInv, NEW h \in AccountCallers, NEW fails \in BOOLEAN, ChangePasswordForUser(h, fails)
    PROVE  AccountInv'
<1> DEFINE t == handlers[h]
<1>1. /\ t.does = "changes password"
      /\ fails => Ends(h) /\ users' = users
      /\ ~fails => Turns(h, "ends sessions, adds session")
                   /\ users' = IF t.id \in DOMAIN users THEN [users EXCEPT ![t.id].password = t.password] ELSE users
      /\ UNCHANGED <<added, sessions, tokens, reset, temporary, crossed>>
  BY DEF ChangePasswordForUser, Does
<1>2. sqlFailed' = (sqlFailed \/ fails)
  BY DEF ChangePasswordForUser
<1>3. /\ "ends sessions, adds session" \in TaskPhases /\ t.does # "nothing" /\ t.password \in Passwords
      /\ sqlFailed' \in BOOLEAN
  BY <1>1, <1>2, Zenon DEF TaskPhases, AccountInv, AccountTypes
<1>4. /\ handlers' \in [AccountCallers -> {Free} \cup Tasks]
      /\ \A o \in AccountCallers \ {h} : handlers'[o] = handlers[o]
      /\ fails => handlers'[h].does = "nothing"
      /\ ~fails => /\ handlers'[h].does = "ends sessions, adds session" /\ handlers'[h].id = t.id
                   /\ handlers'[h].password = t.password /\ handlers'[h].admin = t.admin
      /\ ~crossed => \A o \in AccountCallers \ {h} : handlers[o].does = "nothing"
  BY <1>1, <1>3, GoingOnGives
<1>5. /\ DOMAIN users' = DOMAIN users /\ users' \in [DOMAIN users' -> UserRows]
      /\ \A i \in DOMAIN users : users'[i].name = users[i].name
      /\ \A i \in DOMAIN users \ {t.id} : users'[i] = users[i]
      /\ ~fails /\ t.id \in DOMAIN users =>
            users'[t.id].password = t.password /\ users'[t.id].admin = users[t.id].admin
  <2>1. CASE fails \/ t.id \notin DOMAIN users
    BY <1>1, <2>1, UserRow
  <2>2. CASE ~fails /\ t.id \in DOMAIN users
    BY <1>1, <1>3, <2>2, PasswordOfRow
  <2> QED
    BY <2>1, <2>2
<1>6. OneUserAName'
  BY <1>5 DEF AccountInv, OneUserAName
<1>7. ASSUME ~crossed, ~sqlFailed'
      PROVE  /\ ~sqlFailed /\ Knows(h)'
             /\ \A s \in sessions' : IsOfUser(s)' \/ (s.id = handlers'[h].id
                   /\ handlers'[h].does \in {"ends sessions", "ends sessions, adds session"})
  <2>1. ~sqlFailed /\ ~fails
    BY <1>2, <1>7
  <2>2. SessionsAreKnown
    BY <1>7, <2>1 DEF AccountInv
  <2>3. t.id \in DOMAIN users /\ t.admin = users[t.id].admin
    BY <1>1, <2>2 DEF SessionsAreKnown, Knows
  <2>4. Knows(h)'
    BY <1>4, <1>5, <2>1, <2>3 DEF Knows
  <2>5. \A s \in sessions : IsOfUser(s)
    BY <1>1, <1>4, <1>7, <2>2 DEF SessionsAreKnown, IsEnding
  <2> QED
    BY <1>1, <1>4, <1>5, <2>1, <2>4, <2>5 DEF IsOfUser
<1>8. /\ added' \in Nat /\ tokens' \in Nat /\ sessions' \subseteq SessionRows /\ DOMAIN users' \subseteq 1..added'
  BY <1>1, <1>5 DEF AccountInv, AccountTypes
<1>9. handlers'[h].does \notin {"registers", "adds user", "removes reset", "pops", "changes password"}
  BY <1>4
<1> QED
  BY <1>1, <1>3, <1>4, <1>5, <1>6, <1>7, <1>8, <1>9, OthersAreKept, LaterStepKeepsAccountInv

LEMMA UnauthenticateKeepsAccountInv ==
    ASSUME AccountInv, NEW h \in AccountCallers, NEW fails \in BOOLEAN, UnauthenticateUser(h, fails)
    PROVE  AccountInv'
<1> DEFINE t == handlers[h]
<1> DEFINE adds == t.does = "ends sessions, adds session"
<1>1. /\ t.does \in {"ends sessions", "ends sessions, adds session"}
      /\ sessions' = IF fails THEN sessions ELSE sessions \ { s \in sessions : s.id = t.id }
      /\ ~adds => Ends(h)
      /\ adds => Turns(h, "adds session")
      /\ UNCHANGED <<users, added, tokens, reset, temporary, crossed>>
  BY DEF UnauthenticateUser, Does, EndedSessions, SessionsOf
<1>2. sqlFailed' = (sqlFailed \/ fails)
  BY DEF UnauthenticateUser
<1>3. "adds session" \in TaskPhases /\ t.does # "nothing" /\ sqlFailed' \in BOOLEAN
  BY <1>1, <1>2, Zenon DEF TaskPhases, AccountInv, AccountTypes
<1>4. /\ handlers' \in [AccountCallers -> {Free} \cup Tasks]
      /\ \A o \in AccountCallers \ {h} : handlers'[o] = handlers[o]
      /\ ~adds => handlers'[h].does = "nothing"
      /\ adds => /\ handlers'[h].does = "adds session" /\ handlers'[h].id = t.id
                 /\ handlers'[h].password = t.password /\ handlers'[h].admin = t.admin
      /\ ~crossed => \A o \in AccountCallers \ {h} : handlers[o].does = "nothing"
  BY <1>1, <1>3, GoingOnGives
<1>5. OneUserAName'
  BY <1>1 DEF AccountInv, OneUserAName
<1>6. ASSUME ~crossed, ~sqlFailed'
      PROVE  ~sqlFailed /\ Knows(h)' /\ \A s \in sessions' : IsOfUser(s)'
  <2>1. ~sqlFailed /\ ~fails
    BY <1>2, <1>6
  <2>2. SessionsAreKnown
    BY <1>6, <2>1 DEF AccountInv
  <2>3. Knows(h)'
    BY <1>1, <1>4, <2>2 DEF SessionsAreKnown, Knows
  <2>4. \A s \in sessions : s.id # t.id => IsOfUser(s)
    <3>1. \A id : IsEnding(id) => id = t.id
      BY <1>4, <1>6 DEF IsEnding
    <3> QED
      BY <2>2, <3>1 DEF SessionsAreKnown
  <2> QED
    BY <1>1, <2>1, <2>3, <2>4 DEF IsOfUser
<1>7. /\ added' \in Nat /\ tokens' \in Nat /\ sessions' \subseteq SessionRows /\ DOMAIN users' \subseteq 1..added'
      /\ users' \in [DOMAIN users' -> UserRows]
  BY <1>1 DEF AccountInv, AccountTypes
<1>8. handlers'[h].does \notin {"registers", "adds user", "removes reset", "pops", "changes password"}
  BY <1>4
<1> QED
  BY <1>1, <1>3, <1>4, <1>5, <1>6, <1>7, <1>8, OthersAreKept, LaterStepKeepsAccountInv

LEMMA DeleteKeepsAccountInv ==
    ASSUME AccountInv, NEW h \in AccountCallers, NEW fails \in BOOLEAN, DeleteUserForID(h, fails)
    PROVE  AccountInv'
<1> DEFINE t == handlers[h]
<1>1. /\ t.does = "deletes"
      /\ fails => Ends(h) /\ users' = users
      /\ ~fails => Turns(h, "ends sessions") /\ users' = [id \in DOMAIN users \ {t.id} |-> users[id]]
      /\ UNCHANGED <<added, sessions, tokens, reset, temporary, crossed>>
  BY DEF DeleteUserForID, Does
<1>2. sqlFailed' = (sqlFailed \/ fails)
  BY DEF DeleteUserForID
<1>3. "ends sessions" \in TaskPhases /\ t.does # "nothing" /\ sqlFailed' \in BOOLEAN
  BY <1>1, <1>2, Zenon DEF TaskPhases, AccountInv, AccountTypes
<1>4. /\ handlers' \in [AccountCallers -> {Free} \cup Tasks]
      /\ \A o \in AccountCallers \ {h} : handlers'[o] = handlers[o]
      /\ fails => handlers'[h].does = "nothing"
      /\ ~fails => handlers'[h].does = "ends sessions" /\ handlers'[h].id = t.id
      /\ ~crossed => \A o \in AccountCallers \ {h} : handlers[o].does = "nothing"
  BY <1>1, <1>3, GoingOnGives
<1>5. /\ DOMAIN users' \subseteq DOMAIN users /\ users' \in [DOMAIN users' -> UserRows]
      /\ \A i \in DOMAIN users' : users'[i] = users[i]
      /\ ~fails => DOMAIN users' = DOMAIN users \ {t.id}
  <2>1. users \in [DOMAIN users -> UserRows]
    BY UserRow
  <2> QED
    BY <1>1, <2>1
<1>6. OneUserAName'
  BY <1>5 DEF AccountInv, OneUserAName
<1>7. ASSUME ~crossed, ~sqlFailed'
      PROVE  /\ ~sqlFailed /\ Knows(h)'
             /\ \A s \in sessions' : IsOfUser(s)' \/ (s.id = handlers'[h].id
                   /\ handlers'[h].does \in {"ends sessions", "ends sessions, adds session"})
  <2>1. ~sqlFailed /\ ~fails
    BY <1>2, <1>7
  <2>2. SessionsAreKnown
    BY <1>7, <2>1 DEF AccountInv
  <2>3. Knows(h)'
    BY <1>4, <2>1 DEF Knows
  <2>4. \A s \in sessions : IsOfUser(s)
    BY <1>1, <1>4, <1>7, <2>2 DEF SessionsAreKnown, IsEnding
  <2> QED
    BY <1>1, <1>4, <1>5, <2>1, <2>3, <2>4 DEF IsOfUser
<1>8. /\ added' \in Nat /\ tokens' \in Nat /\ sessions' \subseteq SessionRows /\ DOMAIN users' \subseteq 1..added'
  BY <1>1, <1>5 DEF AccountInv, AccountTypes
<1>9. handlers'[h].does \notin {"registers", "adds user", "removes reset", "pops", "changes password"}
  BY <1>4
<1> QED
  BY <1>1, <1>3, <1>4, <1>5, <1>6, <1>7, <1>8, <1>9, OthersAreKept, LaterStepKeepsAccountInv

LEMMA PermitKeepsAccountInv ==
    ASSUME AccountInv, NEW h \in AccountCallers, NEW fails \in BOOLEAN,
           ChangeUsersUserNameAndPermissions(h, fails)
    PROVE  AccountInv'
<1> DEFINE t == handlers[h]
<1> DEFINE permits == t.does = "permits"
<1>1. /\ t.does \in {"renames", "permits"}
      /\ fails => Ends(h) /\ users' = users
      /\ ~fails => users' = IF t.id \in DOMAIN users THEN [users EXCEPT ![t.id].admin = t.admin] ELSE users
      /\ ~fails /\ permits => Turns(h, "ends sessions")
      /\ ~fails /\ ~permits => Ends(h)
      /\ UNCHANGED <<added, sessions, tokens, reset, temporary, crossed>>
  BY DEF ChangeUsersUserNameAndPermissions, Does
<1>2. sqlFailed' = (sqlFailed \/ fails)
  BY DEF ChangeUsersUserNameAndPermissions
<1>3. "ends sessions" \in TaskPhases /\ t.does # "nothing" /\ sqlFailed' \in BOOLEAN
  BY <1>1, <1>2, Zenon DEF TaskPhases, AccountInv, AccountTypes
<1>4. /\ handlers' \in [AccountCallers -> {Free} \cup Tasks] /\ t \in Tasks
      /\ \A o \in AccountCallers \ {h} : handlers'[o] = handlers[o]
      /\ fails \/ ~permits => handlers'[h].does = "nothing"
      /\ ~fails /\ permits => handlers'[h].does = "ends sessions" /\ handlers'[h].id = t.id
      /\ ~crossed => \A o \in AccountCallers \ {h} : handlers[o].does = "nothing"
  BY <1>1, <1>3, GoingOnGives
<1>5. t.admin \in BOOLEAN
  BY <1>4 DEF Tasks
<1>6. /\ DOMAIN users' = DOMAIN users /\ users' \in [DOMAIN users' -> UserRows]
      /\ \A i \in DOMAIN users : users'[i].name = users[i].name
      /\ \A i \in DOMAIN users \ {t.id} : users'[i] = users[i]
      /\ ~fails /\ t.id \in DOMAIN users =>
            users'[t.id].password = users[t.id].password /\ users'[t.id].admin = t.admin
  <2>1. CASE fails \/ t.id \notin DOMAIN users
    BY <1>1, <2>1, UserRow
  <2>2. CASE ~fails /\ t.id \in DOMAIN users
    BY <1>1, <1>5, <2>2, AdminOfRow
  <2> QED
    BY <2>1, <2>2
<1>7. OneUserAName'
  BY <1>6 DEF AccountInv, OneUserAName
<1>8. ASSUME ~crossed, ~sqlFailed'
      PROVE  /\ ~sqlFailed /\ Knows(h)'
             /\ \A s \in sessions' : IsOfUser(s)' \/ (s.id = handlers'[h].id
                   /\ handlers'[h].does \in {"ends sessions", "ends sessions, adds session"})
  <2>1. ~sqlFailed /\ ~fails
    BY <1>2, <1>8
  <2>2. SessionsAreKnown
    BY <1>8, <2>1 DEF AccountInv
  <2>3. Knows(h)'
    BY <1>4, <2>1 DEF Knows
  <2>4. \A s \in sessions : IsOfUser(s)
    BY <1>1, <1>4, <1>8, <2>2 DEF SessionsAreKnown, IsEnding
  <2>5. CASE permits
    BY <1>1, <1>4, <1>6, <2>1, <2>3, <2>4, <2>5 DEF IsOfUser
  <2>6. CASE ~permits
    <3>1. t.id \in DOMAIN users /\ t.admin = users[t.id].admin
      BY <1>1, <2>2, <2>6 DEF SessionsAreKnown, Knows
    <3> QED
      BY <1>1, <1>4, <1>6, <2>1, <2>3, <2>4, <3>1, ZenonT(40) DEF IsOfUser
  <2> QED
    BY <2>5, <2>6
<1>9. /\ added' \in Nat /\ tokens' \in Nat /\ sessions' \subseteq SessionRows /\ DOMAIN users' \subseteq 1..added'
  BY <1>1, <1>6 DEF AccountInv, AccountTypes
<1>10. handlers'[h].does \notin {"registers", "adds user", "removes reset", "pops", "changes password"}
  BY <1>1, <1>4
<1> QED
  BY <1>1, <1>3, <1>4, <1>6, <1>7, <1>8, <1>9, <1>10, OthersAreKept, LaterStepKeepsAccountInv

LEMMA AddUserKeepsAccountInv ==
    ASSUME AccountInv, NEW h \in AccountCallers, NEW fails \in BOOLEAN, AddNewUser(h, fails)
    PROVE  AccountInv'
<1> DEFINE t == handlers[h]
<1> DEFINE refused == fails \/ Named(t.name) # {}
<1> DEFINE new == added + 1
<1> DEFINE row == [name |-> t.name, password |-> t.password, admin |-> FALSE]
<1>1. /\ t.does \in {"registers", "adds user"}
      /\ refused => added' = added /\ users' = users
      /\ ~refused => added' = new /\ users' = [id \in DOMAIN users \cup {new} |->
                                                  IF id \in DOMAIN users THEN users[id] ELSE row]
      /\ t.does = "adds user" => Ends(h)
      /\ t.does = "registers" => handlers' = [handlers EXCEPT ![h].does = "adds session",
                                                 ![h].id = IF refused THEN NoID ELSE new]
      /\ UNCHANGED <<sessions, tokens, reset, temporary, crossed>>
  BY DEF AddNewUser, Does
<1>2. sqlFailed' = (sqlFailed \/ fails)
  BY DEF AddNewUser
<1>3. /\ t.does # "nothing" /\ sqlFailed' \in BOOLEAN
      /\ t.name \in UserNames /\ t.password \in Passwords
  BY <1>1, <1>2, Zenon DEF AccountInv, AccountTypes
<1>4. /\ added \in Nat /\ DOMAIN users \subseteq 1..added /\ users \in [DOMAIN users -> UserRows]
      /\ new \in Nat /\ new \notin DOMAIN users
  BY UserRow
<1>5. row \in UserRows
  BY <1>3 DEF UserRows
<1>6. /\ handlers' \in [AccountCallers -> {Free} \cup Tasks] /\ t \in Tasks
      /\ \A o \in AccountCallers \ {h} : handlers'[o] = handlers[o]
      /\ t.does = "adds user" => handlers'[h].does = "nothing"
      /\ t.does = "registers" =>
            /\ handlers'[h].does = "adds session" /\ handlers'[h].id = IF refused THEN NoID ELSE new
            /\ handlers'[h].password = t.password /\ handlers'[h].admin = t.admin
      /\ ~crossed => \A o \in AccountCallers \ {h} : handlers[o].does = "nothing"
  <2>1. /\ t \in Tasks
        /\ ~crossed => \A o \in AccountCallers \ {h} : handlers[o].does = "nothing"
    BY <1>3, GoingOnGives
  <2>2. CASE t.does = "adds user"
    BY <1>1, <1>3, <2>1, <2>2, GoingOnGives
  <2>3. CASE t.does = "registers"
    <3> DEFINE id == IF refused THEN NoID ELSE new
    <3>1. id \in Nat /\ "adds session" \in TaskPhases
      BY <1>4 DEF NoID, TaskPhases
    <3> HIDE DEF id
    <3>2. handlers' = [handlers EXCEPT ![h].does = "adds session", ![h].id = id]
      BY <1>1, <2>3 DEF id
    <3>3. [t EXCEPT !.does = "adds session", !.id = id] \in Tasks
      BY <2>1, <3>1 DEF Tasks
    <3>4. /\ handlers'[h] = [t EXCEPT !.does = "adds session", !.id = id]
          /\ handlers' \in [AccountCallers -> {Free} \cup Tasks]
          /\ \A o \in AccountCallers \ {h} : handlers'[o] = handlers[o]
      BY <3>2, <3>3 DEF AccountInv, AccountTypes
    <3>5. /\ handlers'[h].does = "adds session" /\ handlers'[h].id = id
          /\ handlers'[h].password = t.password /\ handlers'[h].admin = t.admin
      BY <2>1, <3>4 DEF Tasks
    <3> QED
      BY <2>1, <2>3, <3>4, <3>5 DEF id
  <2> QED
    BY <1>1, <2>2, <2>3
<1>7. /\ added' \in Nat /\ DOMAIN users' \subseteq 1..added' /\ users' \in [DOMAIN users' -> UserRows]
      /\ \A i \in DOMAIN users : i \in DOMAIN users' /\ users'[i] = users[i]
      /\ ~refused => DOMAIN users' = DOMAIN users \cup {new} /\ users'[new] = row
      /\ refused => DOMAIN users' = DOMAIN users
  <2>1. CASE refused
    BY <1>1, <1>4, <2>1
  <2>2. CASE ~refused
    <3> HIDE DEF row
    <3>1. /\ DOMAIN users' = DOMAIN users \cup {new} /\ users'[new] = row
          /\ \A i \in DOMAIN users : users'[i] = users[i]
          /\ users' = [i \in DOMAIN users' |-> users'[i]]
      BY <1>1, <1>4, <2>2
    <3>2. \A i \in DOMAIN users' : users'[i] \in UserRows
      BY <1>4, <1>5, <3>1
    <3>3. added \in Nat /\ DOMAIN users \subseteq 1..added /\ added' = added + 1 /\ new = added + 1
      BY <1>1, <1>4, <2>2 DEF AccountInv, AccountTypes
    <3>4. added' \in Nat /\ DOMAIN users' \subseteq 1..added'
      <4> HIDE DEF new
      <4>1. 1..added \subseteq 1..(added + 1) /\ added + 1 \in 1..(added + 1)
        BY <3>3
      <4> QED
        BY <3>1, <3>3, <4>1
    <3>5. users' \in [DOMAIN users' -> UserRows]
      BY <3>1, <3>2
    <3>6. \A i \in DOMAIN users : i \in DOMAIN users' /\ users'[i] = users[i]
      BY <3>1
    <3> QED
      BY <2>2, <3>1, <3>4, <3>5, <3>6
  <2> QED
    BY <2>1, <2>2
<1>8. OneUserAName'
  <2>1. CASE refused
    BY <1>1, <2>1 DEF AccountInv, OneUserAName
  <2>2. CASE ~refused
    <3>1. \A i \in DOMAIN users : users[i].name # t.name
      BY <2>2 DEF Named
    <3>2. users'[new].name = t.name
      BY <1>7, <2>2
    <3> HIDE DEF row
    <3> QED
      BY <1>7, <2>2, <3>1, <3>2 DEF AccountInv, OneUserAName
  <2> QED
    BY <2>1, <2>2
<1>9. ASSUME ~crossed, ~sqlFailed'
      PROVE  ~sqlFailed /\ Knows(h)' /\ \A s \in sessions' : IsOfUser(s)'
  <2>1. ~sqlFailed /\ ~fails
    BY <1>2, <1>9
  <2>2. SessionsAreKnown
    BY <1>9, <2>1 DEF AccountInv
  <2>3. Named(t.name) = {} /\ t.admin = FALSE
    BY <1>1, <2>2 DEF SessionsAreKnown, Knows
  <2>4. ~refused
    BY <2>1, <2>3
  <2>5. users'[new].password = t.password /\ users'[new].admin = FALSE /\ new \in DOMAIN users'
    BY <1>7, <2>4
  <2>6. Knows(h)'
    BY <1>1, <1>6, <2>3, <2>4, <2>5 DEF Knows
  <2>7. \A s \in sessions : IsOfUser(s)
    BY <1>1, <1>6, <1>9, <2>2 DEF SessionsAreKnown, IsEnding
  <2> QED
    BY <1>1, <1>7, <2>1, <2>6, <2>7 DEF IsOfUser
<1>10. tokens' \in Nat /\ sessions' \subseteq SessionRows
  BY <1>1 DEF AccountInv, AccountTypes
<1>11. handlers'[h].does \notin {"registers", "adds user", "removes reset", "pops", "changes password"}
  BY <1>1, <1>6
<1> QED
  BY <1>1, <1>3, <1>6, <1>7, <1>8, <1>9, <1>10, <1>11, OthersAreKept, LaterStepKeepsAccountInv

\* A reset record whose token is used once more is still one.
LEMMA UsedOnceMore ==
    ASSUME NEW r \in ResetRecords
    PROVE  /\ [r EXCEPT !.used = r.used + 1] \in ResetRecords
           /\ [r EXCEPT !.used = r.used + 1].used = r.used + 1
<1>1. r.used + 1 \in Nat
  BY DEF ResetRecords
<1> HIDE DEF ResetRecords
<1>2. \A n \in Nat : [r EXCEPT !.used = n] \in ResetRecords /\ [r EXCEPT !.used = n].used = n
  BY DEF ResetRecords
<1> QED
  BY <1>1, <1>2

LEMMA RemoveResetKeepsAccountInv ==
    ASSUME AccountInv, NEW h \in AccountCallers, RemoveReset(h) PROVE AccountInv'
<1> DEFINE t == handlers[h]
<1>1. /\ t.does = "removes reset" /\ reset' = [reset EXCEPT !.used = reset.used + 1]
      /\ Turns(h, "changes password")
      /\ UNCHANGED <<users, added, sessions, tokens, temporary, crossed, sqlFailed>>
  BY DEF RemoveReset, Does
<1>2. "changes password" \in TaskPhases /\ t.does # "nothing" /\ t.password \in Passwords
      /\ sqlFailed' \in BOOLEAN
  BY <1>1, Zenon DEF TaskPhases, AccountInv, AccountTypes
<1>3. /\ handlers' \in [AccountCallers -> {Free} \cup Tasks]
      /\ \A o \in AccountCallers \ {h} : handlers'[o] = handlers[o]
      /\ handlers'[h].does = "changes password" /\ handlers'[h].id = t.id
      /\ handlers'[h].password = t.password /\ handlers'[h].admin = t.admin
      /\ ~crossed => \A o \in AccountCallers \ {h} : handlers[o].does = "nothing"
  BY <1>1, <1>2, GoingOnGives
<1>4. CachesAreKept
  <2>1. reset \in ResetRecords /\ reset.used \in Nat
    BY DEF AccountInv, AccountTypes, ResetRecords
  <2>2. reset' \in ResetRecords /\ reset'.used = reset.used + 1
    BY <1>1, <2>1, UsedOnceMore
  <2>3. ~crossed => reset.used = 0 /\ temporary.popped <= 1
    BY <1>1 DEF AccountInv, HandlersAreApart
  <2>4. ~crossed => reset'.used <= 1
    BY <2>2, <2>3
  <2> QED
    BY <1>1, <2>2, <2>3, <2>4 DEF CachesAreKept, AccountInv, AccountTypes
<1>5. ASSUME ~crossed, ~sqlFailed' PROVE ~sqlFailed /\ Knows(h)' /\ \A s \in sessions' : IsOfUser(s)'
  <2>1. ~sqlFailed /\ SessionsAreKnown
    BY <1>1, <1>5 DEF AccountInv
  <2>2. Knows(h)'
    BY <1>1, <1>3, <2>1 DEF SessionsAreKnown, Knows
  <2>3. \A s \in sessions : IsOfUser(s)
    BY <1>1, <1>3, <1>5, <2>1 DEF SessionsAreKnown, IsEnding
  <2> QED
    BY <1>1, <2>1, <2>2, <2>3 DEF IsOfUser
<1>6. OneUserAName'
  BY <1>1 DEF AccountInv, OneUserAName
<1>7. /\ added' \in Nat /\ tokens' \in Nat /\ sessions' \subseteq SessionRows /\ DOMAIN users' \subseteq 1..added'
      /\ users' \in [DOMAIN users' -> UserRows]
  BY <1>1 DEF AccountInv, AccountTypes
<1> QED
  BY <1>1, <1>2, <1>3, <1>4, <1>5, <1>6, <1>7, LaterStepKeepsAccountInv

LEMMA EndPopKeepsAccountInv ==
    ASSUME AccountInv, NEW h \in AccountCallers, EndPop(h) PROVE AccountInv'
<1> DEFINE t == handlers[h]
<1>1. /\ t.does = "pops" /\ temporary' = [temporary EXCEPT !.popped = temporary.popped + 1]
      /\ Ends(h)
      /\ UNCHANGED <<users, added, sessions, tokens, reset, crossed, sqlFailed>>
  BY DEF EndPop, Does
<1>2. sqlFailed' \in BOOLEAN
  BY <1>1, Zenon DEF AccountInv, AccountTypes
<1>3. /\ handlers' \in [AccountCallers -> {Free} \cup Tasks]
      /\ \A o \in AccountCallers \ {h} : handlers'[o] = handlers[o]
      /\ handlers'[h].does = "nothing"
      /\ ~crossed => \A o \in AccountCallers \ {h} : handlers[o].does = "nothing"
  BY <1>1, GoingOnGives
<1>4. CachesAreKept
  <2>1. temporary \in TemporaryRecords /\ temporary.popped \in Nat
    BY DEF AccountInv, AccountTypes, TemporaryRecords
  <2>2. temporary' \in TemporaryRecords /\ temporary'.popped = temporary.popped + 1
    BY <1>1, <2>1 DEF TemporaryRecords
  <2>3. ~crossed => temporary.popped = 0 /\ reset.used <= 1
    BY <1>1 DEF AccountInv, HandlersAreApart
  <2>4. ~crossed => temporary'.popped <= 1
    BY <2>2, <2>3
  <2> QED
    BY <1>1, <2>2, <2>3, <2>4 DEF CachesAreKept, AccountInv, AccountTypes
<1>5. ASSUME ~crossed, ~sqlFailed' PROVE ~sqlFailed /\ Knows(h)' /\ \A s \in sessions' : IsOfUser(s)'
  <2>1. ~sqlFailed /\ SessionsAreKnown
    BY <1>1, <1>5 DEF AccountInv
  <2>2. Knows(h)'
    BY <1>3 DEF Knows
  <2>3. \A s \in sessions : IsOfUser(s)
    BY <1>1, <1>3, <1>5, <2>1 DEF SessionsAreKnown, IsEnding
  <2> QED
    BY <1>1, <2>1, <2>2, <2>3 DEF IsOfUser
<1>6. OneUserAName'
  BY <1>1 DEF AccountInv, OneUserAName
<1>7. /\ added' \in Nat /\ tokens' \in Nat /\ sessions' \subseteq SessionRows /\ DOMAIN users' \subseteq 1..added'
      /\ users' \in [DOMAIN users' -> UserRows]
  BY <1>1 DEF AccountInv, AccountTypes
<1> QED
  BY <1>1, <1>2, <1>3, <1>4, <1>5, <1>6, <1>7, LaterStepKeepsAccountInv

LEMMA SetAdminKeepsAccountInv ==
    ASSUME AccountInv, NEW h \in AccountCallers, SetAdminForUser(h) PROVE AccountInv'
<1>1. PICK id \in DOMAIN users : SessionsOf(id) = {} /\ users' = [users EXCEPT ![id].admin = TRUE]
  BY DEF SetAdminForUser
<1>2. /\ \A o \in AccountCallers : handlers[o] = Free
      /\ UNCHANGED <<added, sessions, handlers, tokens, reset, temporary, crossed, sqlFailed>>
  BY DEF SetAdminForUser
<1>3. /\ DOMAIN users' = DOMAIN users /\ users' \in [DOMAIN users' -> UserRows]
      /\ \A i \in DOMAIN users : users'[i].name = users[i].name
      /\ \A i \in DOMAIN users \ {id} : users'[i] = users[i]
  BY <1>1, AdminOfRow
<1>4. AccountTypes' /\ OneUserAName'
  BY <1>2, <1>3 DEF AccountInv, AccountTypes, OneUserAName
<1>5. ~crossed' => HandlersAreApart'
  BY <1>2 DEF AccountInv, HandlersAreApart
<1>6. ASSUME SessionsAreKnown PROVE SessionsAreKnown'
  <2>1. \A o \in AccountCallers : handlers[o].does = "nothing" /\ handlers'[o].does = "nothing"
    BY <1>2, FreeDoesNothing
  <2>2. \A s \in sessions : IsOfUser(s) /\ s.id # id
    BY <1>1, <1>6, <2>1 DEF SessionsAreKnown, IsEnding, SessionsOf
  <2>3. \A s \in sessions' : IsOfUser(s)'
    BY <1>2, <1>3, <2>2 DEF IsOfUser
  <2>4. \A o \in AccountCallers : Knows(o)'
    BY <2>1 DEF Knows
  <2> QED
    BY <2>3, <2>4 DEF SessionsAreKnown
<1> QED
  BY <1>2, <1>4, <1>5, <1>6 DEF AccountInv

LEMMA TablesAloneKeepAccountInv ==
    ASSUME AccountInv, UnauthenticateToken \/ PutReset \/ AddTemporaryToken PROVE AccountInv'
<1>1. CASE UnauthenticateToken
  <2>1. /\ sessions' \subseteq sessions
        /\ UNCHANGED <<users, added, handlers, tokens, reset, temporary, crossed, sqlFailed>>
    BY <1>1 DEF UnauthenticateToken
  <2>2. AccountTypes' /\ OneUserAName' /\ (HandlersAreApart => HandlersAreApart')
    BY <2>1 DEF AccountInv, AccountTypes, OneUserAName, HandlersAreApart
  <2>3. SessionsAreKnown => SessionsAreKnown'
    BY <2>1 DEF SessionsAreKnown, Knows, Named, IsOfUser, IsEnding
  <2> QED
    BY <2>1, <2>2, <2>3 DEF AccountInv
<1>2. CASE PutReset
  <2>1. PICK name \in UserNames : reset' = [name |-> name, used |-> 0]
    BY <1>2 DEF PutReset
  <2>2. UNCHANGED <<users, added, sessions, handlers, tokens, temporary, crossed, sqlFailed>>
    BY <1>2 DEF PutReset
  <2>3. reset' \in ResetRecords /\ reset'.used = 0
    BY <2>1 DEF ResetRecords
  <2>4. AccountTypes' /\ OneUserAName'
    BY <2>2, <2>3 DEF AccountInv, AccountTypes, OneUserAName
  <2>5. ASSUME HandlersAreApart PROVE HandlersAreApart'
    <3>1. handlers' = handlers /\ temporary' = temporary
      BY <2>2
    <3>2. reset'.used = 0 /\ reset'.used <= 1
      BY <2>3
    <3>3. temporary'.popped <= 1
      BY <2>5, <3>1 DEF HandlersAreApart
    <3> QED
      BY <2>5, <3>1, <3>2, <3>3, Zenon DEF HandlersAreApart
  <2>6. SessionsAreKnown => SessionsAreKnown'
    BY <2>2 DEF SessionsAreKnown, Knows, Named, IsOfUser, IsEnding
  <2> QED
    BY <2>2, <2>4, <2>5, <2>6 DEF AccountInv
<1>3. CASE AddTemporaryToken
  <2>1. PICK id \in 1..MaxUserID : temporary' = [id |-> id, popped |-> 0]
    BY <1>3 DEF AddTemporaryToken
  <2>2. UNCHANGED <<users, added, sessions, handlers, tokens, reset, crossed, sqlFailed>>
    BY <1>3 DEF AddTemporaryToken
  <2>3. temporary' \in TemporaryRecords /\ temporary'.popped = 0
    BY <2>1, AccountAssumption DEF TemporaryRecords
  <2>4. AccountTypes' /\ OneUserAName'
    BY <2>2, <2>3 DEF AccountInv, AccountTypes, OneUserAName
  <2>5. ASSUME HandlersAreApart PROVE HandlersAreApart'
    <3>1. handlers' = handlers /\ reset' = reset
      BY <2>2
    <3>2. temporary'.popped = 0 /\ temporary'.popped <= 1
      BY <2>3
    <3>3. reset'.used <= 1
      BY <2>5, <3>1 DEF HandlersAreApart
    <3> QED
      BY <2>5, <3>1, <3>2, <3>3, Zenon DEF HandlersAreApart
  <2>6. SessionsAreKnown => SessionsAreKnown'
    BY <2>2 DEF SessionsAreKnown, Knows, Named, IsOfUser, IsEnding
  <2> QED
    BY <2>2, <2>4, <2>5, <2>6 DEF AccountInv
<1> QED
  BY <1>1, <1>2, <1>3

LEMMA AccountInvStep == AccountInv /\ [AccountsNext \/ TemporaryNext]_accountVars => AccountInv'
<1> SUFFICES ASSUME AccountInv, [AccountsNext \/ TemporaryNext]_accountVars PROVE AccountInv'
  OBVIOUS
<1>1. CASE UNCHANGED accountVars
  BY <1>1, ZenonT(40) DEF accountVars, AccountInv, AccountTypes, OneUserAName, HandlersAreApart, SessionsAreKnown, Knows, Named,
      IsOfUser, IsEnding
<1>2. CASE AccountsNext
  BY <1>2, FirstStepsKeepAccountInv, AddSessionKeepsAccountInv, SetAdminKeepsAccountInv,
     RemoveResetKeepsAccountInv, AddUserKeepsAccountInv, ChangePasswordKeepsAccountInv,
     UnauthenticateKeepsAccountInv, DeleteKeepsAccountInv, PermitKeepsAccountInv,
     TablesAloneKeepAccountInv DEF AccountsNext
<1>3. CASE TemporaryNext
  BY <1>3, FirstStepsKeepAccountInv, EndPopKeepsAccountInv, TablesAloneKeepAccountInv DEF TemporaryNext
<1> QED
  BY <1>1, <1>2, <1>3

================================================================================
