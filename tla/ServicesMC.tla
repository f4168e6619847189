------------------------------ MODULE ServicesMC ------------------------------
(***************************************************************************)
(* One run for the parts of the system that keep state in one process and  *)
(* share it between goroutines: in a behaviour one of them is used, and    *)
(* the others stay as they were made.                                      *)
(***************************************************************************)
EXTENDS Timers, RateLimits, Caches, FileCaches, KeyValues, UserAccounts, Processes, Commands, Grapher, Tables, LogFiles, RequestLogs

CONSTANTS a, b, onlyKey, v, w

Two == 1..2
Typed == {NumberPath(n) : n \in 1..2}
         \union {TreePath(TRUE, p) : p \in {<<>>, <<"host", "disk">>, <<"jobs">>}}
         \union {TreePath(FALSE, p) : p \in {<<"host">>, <<"disk">>, <<"port">>, <<"home">>, <<"task">>,
                     <<"..">>, <<"..", "jobs">>, <<"..", "port">>, <<"..", "..", "jobs">>,
                     <<"..", "..", "jobs", "disk">>, <<"..", "..", "host", "disk">>}}

VARIABLE part

laterVars == <<executorVars, commandVars, grapherVars, tableVars, logVars, requestVars>>

earlierVars == <<timerVars, repeaterVars, rateVars, mapVars, cacheVars, fileCacheVars, storeVars,
                 optionVars, accountVars, poolVars, waitVars, eventVars>>
servicesVars == <<earlierVars, laterVars>>

Init ==
    /\ part = "none"
    /\ TimerInit /\ RepeaterInit /\ RateInit /\ MapInit /\ CacheInit /\ FileCacheInit
    /\ StoreInit /\ OptionInit /\ AccountsInit /\ PoolInit /\ WaitInit /\ EventInit
    /\ ExecutorInit /\ CommandsInit /\ GrapherInit /\ TablesInit /\ LogInit /\ RequestInit

Uses(p) == part \in {"none", p} /\ part' = p

Next ==
    \/ /\ Uses("timer") /\ TimerSteps
       /\ UNCHANGED <<repeaterVars, rateVars, mapVars, cacheVars, fileCacheVars, storeVars,
                     optionVars, accountVars, poolVars, waitVars, eventVars, laterVars>>
    \/ /\ Uses("repeater") /\ RepeaterSteps
       /\ UNCHANGED <<timerVars, rateVars, mapVars, cacheVars, fileCacheVars, storeVars,
                     optionVars, accountVars, poolVars, waitVars, eventVars, laterVars>>
    \/ /\ Uses("rates") /\ RateNext
       /\ UNCHANGED <<timerVars, repeaterVars, mapVars, cacheVars, fileCacheVars,
                     storeVars, optionVars, accountVars, poolVars, waitVars, eventVars, laterVars>>
    \/ /\ Uses("map") /\ MapNext
       /\ UNCHANGED <<timerVars, repeaterVars, rateVars, cacheVars, fileCacheVars,
                     storeVars, optionVars, accountVars, poolVars, waitVars, eventVars, laterVars>>
    \/ /\ Uses("cache") /\ CacheNext
       /\ UNCHANGED <<timerVars, repeaterVars, rateVars, mapVars, fileCacheVars, storeVars,
                     optionVars, accountVars, poolVars, waitVars, eventVars, laterVars>>
    \/ /\ Uses("files") /\ FileCacheNext
       /\ UNCHANGED <<timerVars, repeaterVars, rateVars, mapVars, cacheVars, storeVars,
                     optionVars, accountVars, poolVars, waitVars, eventVars, laterVars>>
    \/ /\ Uses("store") /\ StoreNext
       /\ UNCHANGED <<timerVars, repeaterVars, rateVars, mapVars, cacheVars, fileCacheVars,
                     optionVars, accountVars, poolVars, waitVars, eventVars, laterVars>>
    \/ /\ Uses("option") /\ OptionNext
       /\ UNCHANGED <<timerVars, repeaterVars, rateVars, mapVars, cacheVars, fileCacheVars,
                     storeVars, accountVars, poolVars, waitVars, eventVars, laterVars>>
    \/ /\ Uses("accounts") /\ AccountsNext
       /\ UNCHANGED <<timerVars, repeaterVars, rateVars, mapVars, cacheVars, fileCacheVars,
                     storeVars, optionVars, poolVars, waitVars, eventVars, laterVars>>
    \/ /\ Uses("tokens") /\ TemporaryNext
       /\ UNCHANGED <<timerVars, repeaterVars, rateVars, mapVars, cacheVars, fileCacheVars,
                     storeVars, optionVars, poolVars, waitVars, eventVars, laterVars>>
    \/ /\ Uses("pool") /\ PoolNext
       /\ UNCHANGED <<timerVars, repeaterVars, rateVars, mapVars, cacheVars, fileCacheVars,
                     storeVars, optionVars, accountVars, waitVars, eventVars, laterVars>>
    \/ /\ Uses("waits") /\ WaitNext
       /\ UNCHANGED <<timerVars, repeaterVars, rateVars, mapVars, cacheVars, fileCacheVars,
                     storeVars, optionVars, accountVars, poolVars, eventVars, laterVars>>
    \/ /\ Uses("events") /\ EventNext
       /\ UNCHANGED <<timerVars, repeaterVars, rateVars, mapVars, cacheVars, fileCacheVars,
                     storeVars, optionVars, accountVars, poolVars, waitVars, laterVars>>
    \/ /\ Uses("main thread") /\ ExecutorNext
       /\ UNCHANGED <<earlierVars, commandVars, grapherVars, tableVars, logVars, requestVars>>
    \/ /\ Uses("commands") /\ CommandsNext
       /\ UNCHANGED <<earlierVars, executorVars, grapherVars, tableVars, logVars, requestVars>>
    \/ /\ Uses("graphs") /\ GrapherNext
       /\ UNCHANGED <<earlierVars, executorVars, commandVars, tableVars, logVars, requestVars>>
    \/ /\ Uses("tables") /\ TablesNext
       /\ UNCHANGED <<earlierVars, executorVars, commandVars, grapherVars, logVars, requestVars>>
    \/ /\ Uses("logs") /\ LogNext
       /\ UNCHANGED <<earlierVars, executorVars, commandVars, grapherVars, tableVars, requestVars>>
    \/ /\ Uses("requests") /\ RequestNext
       /\ UNCHANGED <<earlierVars, executorVars, commandVars, grapherVars, tableVars, logVars>>

Spec == Init /\ [][Next]_<<servicesVars, part>> /\ RepeaterFairness /\ ProcessFairness

\* Every variable of the parts has its type.
ServicesTypeOK == TimersTypeOK /\ RateTypeOK /\ MapTypeOK /\ ProcessTypeOK

\* Timers, repeaters and rate limits: see TimersAreKept and RatesAreKept.
TimingIsKept == TimersAreKept /\ RatesAreKept

\* What expires is there until it does: see MapIsKept, CacheIsKept, FilesAreKept and RequestsAreKept.
ExpiryIsKept == MapIsKept /\ CacheIsKept /\ FilesAreKept /\ RequestsAreKept

\* A part that is not the one in use is as it was made.
MaybeIn(p) == part \in {"none", p}

\* What is stored and found again: see KeyValuesAreKept, CommandsAreKept,
\* TablesAreKept and LogsAreKept.
StoresAreKept ==
    /\ KeyValuesAreKept
    /\ MaybeIn("commands") => CommandsAreKept
    /\ MaybeIn("tables") => TablesAreKept
    /\ MaybeIn("logs") => LogsAreKept

\* Work done for others: see WorkIsKept and GraphsAreKept.
JobsAreKept == WorkIsKept /\ (MaybeIn("graphs") => GraphsAreKept)

\* A Stop ends its loop, an event's handler whose client is gone ends, and what is sent to the main
\* thread is run.
WorkEnds == StopEndsLoop /\ GoneIsRemoved /\ SentIsRun
==============================================================================
