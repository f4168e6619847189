------------------------------ MODULE Scheduler ------------------------------
(***************************************************************************)
(* zscheduler.Scheduler: the goroutine of selectLoop, which owns the runs  *)
(* and the executors, the goroutines startJob and stopJob spawn, the       *)
(* clients that write to the channels, the executors the jobs run on, and  *)
(* the clock.                                                              *)
(*                                                                         *)
(* selectLoop takes one message at a time, and most handlers end in        *)
(* startAndStopRuns, a loop that stops or starts one run per round.  A     *)
(* handler is one action.  Its call of startAndStopRuns sets looping, and  *)
(* until the loop has ended no other message is taken; each round of the   *)
(* loop is one action, because the spawned goroutines, and Start and Stop, *)
(* which run in their caller, change the runs without a lock meanwhile.    *)
(***************************************************************************)
EXTENDS SchedulerRecords, FiniteSetsExt, SequencesExt, Functions

CONSTANTS
    Requests,         \* the channels clients write to
    TotalMaxJobCounts, \* the values of TotalMaxJobCount: first setup, then requests
    InitialJobs,      \* jobs added before Start: a set of functions from jobs to configs
    InitialExecutors, \* the same for executors
    KeptAliveInputs,  \* the KeptAliveAt an executor may be added with
    FailingCalls,     \* the executor functions that may return an error
    MaxErrors,        \* bound: how often they do
    MaxRefresh,       \* bound: room for pending refreshes (refreshCh has 100)
    MaxMessages       \* bound: goroutines that wait to say a job is running, and those
                      \* at work on a job when a client asks to stop it once more

NoLimit == -1  \* TotalMaxJobCount that is none

ASSUME InputAssumption ==
    /\ TotalMaxJobCounts \subseteq Nat \cup {NoLimit}
    /\ KeptAliveInputs \subseteq {Never, 0}
    /\ FailingCalls \subseteq {"start", "stop"}
    /\ MaxErrors \in Nat
    /\ MaxRefresh \in Nat \ {0}
    /\ MaxMessages \in Nat \ {0}
    /\ \A f \in InitialJobs : DOMAIN f \subseteq Jobs /\ f \in [DOMAIN f -> JobConfigs]
    /\ \A f \in InitialExecutors :
          DOMAIN f \subseteq Executors /\ f \in [DOMAIN f -> ExecutorConfigs]

VARIABLES
    runs,         \* s.runs: from the jobs the scheduler knows to their runs
    executors,    \* s.executors: from the executors it knows to their records
    totalMax,     \* s.setup.TotalMaxJobCount
    started,      \* s.started
    stopped,      \* s.stopped
    looping,      \* selectLoop is in startAndStopRuns
    timer,        \* ticks until s.timer fires, or Never
    refresh,      \* what is in refreshCh or about to be written to it
    startCalls,   \* StartJobOnExecutorFunc calls in progress, by job and executor
    stopCalls,    \* StopJobOnExecutorFunc calls in progress, by job and executor
    endRuns,      \* goroutines at endRunCh <- jobID, by job
    runningMsgs,  \* goroutines at JobIsRunningCh <- jobID, by job
    live,         \* the <<job, executor>> where a job really runs
    errors,       \* how many calls have failed
    finished      \* SchedulerFinishedStopping has been reported

books == <<runs, executors, totalMax>>
flags == <<started, stopped, finished>>
calls == <<startCalls, stopCalls>>
msgs  == <<endRuns, runningMsgs>>
world == <<live, errors>>
vars  == <<books, flags, looping, timer, refresh, calls, msgs, world>>

-----------------------------------------------------------------------------
(* What the functions of the scheduler compute from its state *)

Known == DOMAIN runs

Executing(j) == executors[runs[j].executor]

IsExecutorAlive(e) ==
    \/ ExecutorAliveDuration = 0
    \/ executors[e].keptAliveAt # Never /\ executors[e].keptAliveAt < ExecutorAliveDuration

RunnableExecutors ==
    { e \in DOMAIN executors : executors[e].config.isAble /\ ~executors[e].config.paused
                               /\ IsExecutorAlive(e) }

\* The runs that count against the capacity of executor e
Loading(e) ==
    { j \in Known : runs[j].job.isAble /\ runs[j].executor = e /\ ~runs[j].stopping
                    /\ runs[j].startedAt # Never }

CostOf(js) == SumFunctionOnSet([j \in Known |-> runs[j].job.cost], js)

Load(e) == CostOf(Loading(e))

Spare(e) == executors[e].config.capacity - Load(e)

StartingCount(e) == Cardinality({ j \in Loading(e) : runs[j].ranAt = Never })

HasUnrunJobs ==
    \E j \in Known : \/ runs[j].executor = NoExecutor \/ runs[j].stopping
                     \/ runs[j].removing \/ runs[j].startedAt = Never
                     \/ runs[j].ranAt = Never \/ ~runs[j].job.isAble

\* Cost of the other jobs that wait for an executor, and of all that are
\* between assignment and running or being stopped
UnrunCost(j) ==
    CostOf({ k \in Known : \/ k # j /\ runs[k].executor = NoExecutor
                           \/ runs[k].stopping \/ runs[k].removing
                           \/ runs[k].startedAt = Never \/ runs[k].ranAt = Never })

SpareLeft(j) == MapThenSumSet(Spare, RunnableExecutors) - UnrunCost(j)

\* The run may go on after its end, until others have capacity
HasSlack(j) ==
    /\ KeepJobsBeyondAtEndUntilEnoughSlack # 0
    /\ runs[j].ranAt # Never
    /\ runs[j].ranAt < runs[j].job.duration + KeepJobsBeyondAtEndUntilEnoughSlack

FarFromMilestone(j) ==
    runs[j].milestoneAt = Never \/ runs[j].milestoneAt >= StopJobIfSinceMilestoneLessThan

\* Mutant: a milestone is waited for although the slack is over.
NeedsMilestoneAlways(j) == StopJobIfSinceMilestoneLessThan # 0 /\ FarFromMilestone(j)

NeedsMilestone(j) ==
    HasSlack(j) /\ StopJobIfSinceMilestoneLessThan # 0 /\ FarFromMilestone(j)

PausedExecutorStops(j) ==
    \/ KeepJobsBeyondAtEndUntilEnoughSlack = 0
    \/ /\ ~NeedsMilestone(j)
       /\ \/ UnrunCost(j) = 0
          \/ SpareLeft(j) <= 0
          \/ runs[j].ranAt = Never
          \/ runs[j].ranAt >= runs[j].job.duration + KeepJobsBeyondAtEndUntilEnoughSlack

IsOverDuration(j) ==
    /\ runs[j].ranAt # Never
    /\ runs[j].job.duration # 0
    /\ runs[j].ranAt >= runs[j].job.duration

DurationStops(j) ==
    /\ IsOverDuration(j)
    /\ \/ KeepJobsBeyondAtEndUntilEnoughSlack = 0
       \/ SpareLeft(j) > runs[j].job.cost /\ UnrunCost(j) = 0 /\ ~NeedsMilestone(j)
       \/ ~HasSlack(j)

\* For a run that was started: startAndStopRuns asks of no other.
ShouldStopJob(j) ==
    \/ runs[j].executor \notin DOMAIN executors
    \/ ~IsExecutorAlive(runs[j].executor)
    \/ ~runs[j].job.isAble
    \/ ~Executing(j).config.isAble
    \/ ~JobMatchesExecutorAttributes(runs[j].job, Executing(j).config)
    \/ Executing(j).changedCount # runs[j].executorChangedCount
    \/ Executing(j).config.paused /\ PausedExecutorStops(j)
    \/ ~Executing(j).config.paused /\ DurationStops(j)

-----------------------------------------------------------------------------
(* The decisions of a round of startAndStopRuns *)

\* A round skips the runs that had an error a short time ago.
Skipped(j) ==
    runs[j].errorAt # Never /\ runs[j].errorAt < MinimumTimeBeforeRestartingErroredJob

\* Mutant: only runs that got as far as running are stopped.
ToStopRunning ==
    { j \in Known : ~Skipped(j) /\ runs[j].executor # NoExecutor /\ runs[j].ranAt # Never
                    /\ ~runs[j].stopping /\ ShouldStopJob(j) }

ToStop ==
    { j \in Known : /\ ~Skipped(j)
                    /\ runs[j].executor # NoExecutor /\ runs[j].startedAt # Never
                    /\ ~runs[j].stopping
                    /\ ShouldStopJob(j) }

\* The runs a round looks at once none is to be stopped
Considered == { j \in Known : ~stopped /\ ~Skipped(j) /\ runs[j].job.isAble }

ActiveCount ==
    Cardinality({ j \in Considered : runs[j].startedAt # Never \/ runs[j].ranAt # Never })

Startable ==
    { j \in Considered : /\ runs[j].executor = NoExecutor
                         /\ ~runs[j].stopping /\ runs[j].startedAt = Never }

\* Never had an error; or had it longer ago; or was tried longer ago.
IsBetterRunCandidate(r, other) ==
    \/ r.errorAt = Never /\ other.errorAt # Never
    \/ r.errorAt # Never /\ other.errorAt # Never /\ r.errorAt > other.errorAt
    \/ r.errorAt = Never /\ other.errorAt = Never /\ r.triedToRunIndex < other.triedToRunIndex

OldestRuns ==
    { j \in Startable : \A k \in Startable : ~IsBetterRunCandidate(runs[k], runs[j]) }

\* Mutant: off by one in the limit of active jobs.
MaximumReachedLate == totalMax # NoLimit /\ ActiveCount > totalMax

MaximumReached == totalMax # NoLimit /\ ActiveCount >= totalMax

StartedTooRecently(e) ==
    /\ SimultaneousStarts > 1 /\ StartingCount(e) > 0
    /\ \E k \in Loading(e) : runs[k].startedAt < MinDurationBetweenSimultaneousStarts

\* Mutant: startJob does not compare the cost with what is left.
HasRoomAlways(e, j) == TRUE

HasRoom(e, j) == Spare(e) >= runs[j].job.cost

\* Mutant: off by one in the limit of simultaneous starts.
StartsOneMore(e) == SimultaneousStarts # 0 /\ StartingCount(e) > SimultaneousStarts

StartsOthers(e) == SimultaneousStarts # 0 /\ StartingCount(e) >= SimultaneousStarts

SuitableExecutors(j) ==
    { e \in RunnableExecutors :
        /\ JobMatchesExecutorAttributes(runs[j].job, executors[e].config)
        /\ HasRoom(e, j) /\ ~StartsOthers(e) /\ ~StartedTooRecently(e) }

\* e replaces f as the best executor so far: fewer jobs are starting on it, or
\* a smaller part of its capacity is used.
Replaces(e, f) ==
    \/ StartingCount(e) < StartingCount(f)
    \/ Load(e) * executors[f].config.capacity < Load(f) * executors[e].config.capacity

\* What the scan ends with.  It goes over a Go map, so it may visit the
\* executors in any order, and Replaces is not transitive.
BestExecutors(j) ==
    LET Better(best, e) == IF best = NoExecutor \/ Replaces(e, best) THEN e ELSE best
    IN { FoldLeft(Better, NoExecutor, order) : order \in SetToSeqs(SuitableExecutors(j)) }

\* Mutant: the cost of the job itself is left out.
LeftWith(j) == Spare(runs[j].executor)

\* What the executor of run j would have left without it
LeftWithout(j) == Spare(runs[j].executor) + runs[j].job.cost

\* Could the job of run j move to executor e, with diff the configured cost
\* difference as a part of the smaller capacity?  Ratios are compared crosswise.
BalancePairs ==
    { p \in { j \in Considered : ~runs[j].stopping } \X RunnableExecutors :
        LET own == runs[p[1]].executor
            cap(e) == executors[e].config.capacity
            larger == IF cap(own) > cap(p[2]) THEN cap(own) ELSE cap(p[2])
            diff == LoadBalanceIfCostDifference * larger
        IN /\ own \in RunnableExecutors /\ own # p[2]
           /\ JobMatchesExecutorAttributes(runs[p[1]].job, executors[p[2]].config)
           /\ Spare(p[2]) * cap(own) >= diff
           /\ Spare(p[2]) * cap(own) - LeftWithout(p[1]) * cap(p[2]) >= diff }

\* The scan over those pairs, in any order: the emptiest executor so far, and
\* the longest running job that fits it.
BalanceStep(best, p) ==
    LET j == p[1]
        e == p[2]
        emptier == \/ best.executor = NoExecutor
                   \/ Spare(e) * executors[best.executor].config.capacity
                        > Spare(best.executor) * executors[e].config.capacity
        fits == /\ runs[j].ranAt # Never
                /\ runs[j].job.cost < Spare(e)
                /\ best.jobs = {} \/ \E k \in best.jobs : runs[j].ranAt > runs[k].ranAt
                /\ ~ /\ StopJobIfSinceMilestoneLessThan # 0
                     /\ runs[j].milestoneAt # Never
                     /\ runs[j].milestoneAt >= StopJobIfSinceMilestoneLessThan
    IN IF ~emptier THEN best
       ELSE [executor |-> e, jobs |-> IF fits THEN {j} ELSE best.jobs]

\* What a scan may find: no job, or the one to move
BalanceOutcomes ==
    IF HasUnrunJobs \/ LoadBalanceIfCostDifference = 0 THEN {{}}
    ELSE { FoldLeft(BalanceStep, [executor |-> NoExecutor, jobs |-> {}], order).jobs :
             order \in SetToSeqs(BalancePairs) }

-----------------------------------------------------------------------------
(* Where the timer is set when the loop has ended *)

JobEndIn(j) == runs[j].job.duration - runs[j].ranAt

JobsWithEnd == { j \in Known : runs[j].job.duration # 0 /\ runs[j].ranAt # Never }

\* Mutant: a run past its end does not set the timer for its slack.
JobEndTimesWithoutSlack == { { JobEndIn(j) : j \in JobsWithEnd } }

\* The scan keeps the earliest end, but a run past its end puts the time of its
\* slack in place of what was kept before: only the ends after it in s.runs
\* still count.  The order of s.runs is not kept here, so any may be those.
JobEndTimes ==
    LET past == { j \in JobsWithEnd : JobEndIn(j) <= 0 }
        slack == KeepJobsBeyondAtEndUntilEnoughSlack
    IN IF slack = 0 \/ past = {}
       THEN { { JobEndIn(j) : j \in JobsWithEnd } }
       ELSE { {slack} \cup { JobEndIn(j) : j \in after } : after \in SUBSET (JobsWithEnd \ past) }

ExpiryTimes ==
    IF ExecutorAliveDuration = 0 THEN {}
    ELSE { ExecutorAliveDuration - executors[e].keptAliveAt :
             e \in { e \in DOMAIN executors : executors[e].config.isAble
                                             /\ executors[e].keptAliveAt # Never } }

\* The earliest time sets the timer.  One that is past does not, and hides the others.
TimerFor(times) ==
    IF \E t \in times : t > 0 /\ \A u \in times : t <= u THEN Min(times) ELSE Never

NextTimers == { TimerFor(ends \cup ExpiryTimes) : ends \in JobEndTimes }

-----------------------------------------------------------------------------
(* Parts of the handlers *)

\* The call of startAndStopRuns a handler ends with
StartAndStopRuns == looping' = started

Receive(channel) == channel \in Requests /\ ~looping

AddRefresh == refresh' = IF refresh < MaxRefresh THEN refresh + 1 ELSE refresh

\* stopJob for a set of runs: each run not being stopped already gets a
\* goroutine that calls StopJobOnExecutorFunc.
StopJobs(js, remove) ==
    /\ runs' = [j \in Known |-> IF j \in js THEN StoppedRun(runs[j], remove) ELSE runs[j]]
    /\ stopCalls' = [j \in Jobs |->
          IF j \in js /\ ~IsAlreadyStopping(runs[j])
          THEN [stopCalls[j] EXCEPT ![runs[j].executor] = @ + 1]
          ELSE stopCalls[j]]

WithRun(j, run) == [runs EXCEPT ![j] = run]

WithoutRuns(js) == Ranked([j \in Known \ js |-> runs[j]])

-----------------------------------------------------------------------------
(* Clients: Start and Stop, which run in the caller's goroutine *)

Start ==
    /\ ~started
    /\ started' = TRUE
    /\ AddRefresh
    /\ UNCHANGED <<books, stopped, finished, looping, timer, calls, msgs, world>>

Stop ==
    /\ "Stop" \in Requests /\ started /\ ~stopped
    /\ stopped' = TRUE
    /\ executors' = [e \in {} |-> executors[e]]
    /\ runs' = WithoutRuns({ j \in Known : runs[j].ranAt = Never /\ ~runs[j].stopping })
    /\ AddRefresh
    /\ UNCHANGED <<totalMax, started, finished, looping, timer, calls, msgs, world>>

(* Clients: the handlers of selectLoop for what they write to the channels *)

\* RemoveJobCh and StopJobCh.  A job that is not known is only logged.
RequestStop(j, remove) ==
    /\ j \in Known
    /\ SumFunction(startCalls[j]) + SumFunction(stopCalls[j]) + endRuns[j] < MaxMessages
    /\ StopJobs({j}, remove)
    /\ AddRefresh
    /\ UNCHANGED <<executors, totalMax, flags, looping, timer, startCalls, msgs, world>>

RemoveJob(j) == Receive("RemoveJobCh") /\ RequestStop(j, TRUE)

StopJob(j) == Receive("StopJobCh") /\ RequestStop(j, FALSE)

\* An executor reports that a job runs, when starting it does not say so.
JobIsRunning(j) ==
    /\ Receive("JobIsRunningCh")
    /\ ~JobIsRunningOnSuccessfulStart
    /\ j \in Known /\ runs[j].ranAt = Never
    /\ \E e \in Executors : <<j, e>> \in live
    /\ runs' = WithRun(j, [runs[j] EXCEPT !.ranAt = 0])
    /\ StartAndStopRuns
    /\ UNCHANGED <<executors, totalMax, flags, timer, refresh, calls, msgs, world>>

ChangeJob(j, cfg) ==
    /\ Receive("ChangeJobCh")
    /\ runs' = IF j \in Known
               THEN WithRun(j, [runs[j] EXCEPT !.job = cfg])
               ELSE Ranked([k \in Known \cup {j} |-> IF k = j THEN NewRun(cfg) ELSE runs[k]])
    /\ StartAndStopRuns
    /\ UNCHANGED <<executors, totalMax, flags, timer, refresh, calls, msgs, world>>

\* A known executor keeps its KeptAliveAt and its changedCount.
ChangeExecutor(e, cfg, kept) ==
    /\ Receive("ChangeExecutorCh")
    /\ executors' = [f \in DOMAIN executors \cup {e} |->
          IF f # e THEN executors[f]
          ELSE IF e \in DOMAIN executors THEN [executors[e] EXCEPT !.config = cfg]
          ELSE [config |-> cfg, keptAliveAt |-> kept, changedCount |-> 0]]
    /\ StartAndStopRuns
    /\ UNCHANGED <<runs, totalMax, flags, timer, refresh, calls, msgs, world>>

RemoveExecutor(e) ==
    /\ Receive("RemoveExecutorCh")
    /\ e \in DOMAIN executors
    /\ executors' = [f \in DOMAIN executors \ {e} |-> executors[f]]
    /\ StartAndStopRuns
    /\ UNCHANGED <<runs, totalMax, flags, timer, refresh, calls, msgs, world>>

FlushExecutorJobs(e) ==
    /\ Receive("FlushExecutorJobsCh")
    /\ e \in DOMAIN executors
    /\ executors[e].changedCount < MaxChanged
    /\ executors' = [executors EXCEPT ![e].changedCount = @ + 1]
    /\ StartAndStopRuns
    /\ UNCHANGED <<runs, totalMax, flags, timer, refresh, calls, msgs, world>>

SetExecutorIsAlive(e) ==
    /\ Receive("SetExecutorIsAliveCh")
    /\ e \in DOMAIN executors
    /\ executors' = [executors EXCEPT ![e].keptAliveAt = 0]
    /\ StartAndStopRuns
    /\ UNCHANGED <<runs, totalMax, flags, timer, refresh, calls, msgs, world>>

\* purgeStartedJobsNotInList: js are the jobs executor e says it has.  It does
\* not call startAndStopRuns, nor does it ask for a refresh.
SetJobsOnExecutor(e, js) ==
    /\ Receive("SetJobsOnExecutorCh")
    /\ StopJobs({ j \in Known \ js :
                    /\ runs[j].executor = e
                    /\ ~(runs[j].startedAt # Never /\ runs[j].starting)
                    /\ ~(/\ runs[j].startedAt # Never
                         /\ runs[j].startedAt < GracePeriodForJobsOnExecutorCh) }, FALSE)
    /\ UNCHANGED <<executors, totalMax, flags, looping, timer, refresh, startCalls, msgs, world>>

SetTotalMaxJobCount(max) ==
    /\ Receive("SetTotalMaxJobCountCh")
    /\ totalMax' = max
    /\ StartAndStopRuns
    /\ UNCHANGED <<runs, executors, flags, timer, refresh, calls, msgs, world>>

SetJobHasMilestoneNow(j) ==
    /\ Receive("SetJobHasMilestoneNowCh")
    /\ j \in Known
    /\ runs' = WithRun(j, [runs[j] EXCEPT !.milestoneAt = 0])
    /\ StartAndStopRuns
    /\ UNCHANGED <<executors, totalMax, flags, timer, refresh, calls, msgs, world>>

SetJobHasError(j) ==
    /\ Receive("SetJobHasErrorCh")
    /\ j \in Known
    /\ runs' = WithRun(j, [runs[j] EXCEPT !.errorAt = 0])
    /\ UNCHANGED <<executors, totalMax, flags, looping, timer, refresh, calls, msgs, world>>

-----------------------------------------------------------------------------
(* The goroutine of startJob: the call, then what it does to the run *)

StartSucceeds(j, e) ==
    /\ startCalls[j][e] > 0
    /\ runningMsgs[j] < MaxMessages
    /\ startCalls' = [startCalls EXCEPT ![j][e] = @ - 1]
    /\ live' = live \cup {<<j, e>>}
    /\ runs' = IF j \in Known
               THEN WithRun(j, SucceededRun(runs[j]))
               ELSE runs
    /\ runningMsgs' =
          IF /\ j \in Known /\ JobIsRunningOnSuccessfulStart /\ ~stopped
             /\ runs[j].stoppedAt = Never /\ ~runs[j].stopping
             /\ runs[j].executor # NoExecutor /\ ~runs[j].removing
          THEN [runningMsgs EXCEPT ![j] = @ + 1]
          ELSE runningMsgs
    /\ UNCHANGED <<executors, totalMax, flags, looping, timer, refresh, stopCalls, endRuns, errors>>

StartFails(j, e) ==
    /\ "start" \in FailingCalls /\ errors < MaxErrors
    /\ startCalls[j][e] > 0
    /\ startCalls' = [startCalls EXCEPT ![j][e] = @ - 1]
    /\ errors' = errors + 1
    /\ IF j \in Known
       THEN /\ runs' = WithRun(j, FailedRun(runs[j]))
            /\ endRuns' = [endRuns EXCEPT ![j] = @ + 1]
       ELSE UNCHANGED <<runs, endRuns>>
    /\ UNCHANGED <<executors, totalMax, flags, looping, timer, refresh, stopCalls, runningMsgs, live>>

(* The goroutine of stopJob.  An executor carries out the calls about one job
   in the order it gets them, so it answers a start before a later stop. *)

StopSucceeds(j, e) ==
    /\ stopCalls[j][e] > 0
    /\ e \in Executors => startCalls[j][e] = 0
    /\ stopCalls' = [stopCalls EXCEPT ![j][e] = @ - 1]
    /\ live' = live \ {<<j, e>>}
    /\ endRuns' = [endRuns EXCEPT ![j] = @ + 1]
    /\ UNCHANGED <<books, flags, looping, timer, refresh, startCalls, runningMsgs, errors>>

\* A job that could not be stopped goes on.
StopFails(j, e) ==
    /\ "stop" \in FailingCalls /\ errors < MaxErrors
    /\ stopCalls[j][e] > 0
    /\ e \in Executors => startCalls[j][e] = 0
    /\ stopCalls' = [stopCalls EXCEPT ![j][e] = @ - 1]
    /\ errors' = errors + 1
    /\ runs' = IF j \in Known THEN WithRun(j, [runs[j] EXCEPT !.errorAt = 0]) ELSE runs
    /\ endRuns' = [endRuns EXCEPT ![j] = @ + 1]
    /\ UNCHANGED <<executors, totalMax, flags, looping, timer, refresh, startCalls, runningMsgs, live>>

-----------------------------------------------------------------------------
(* The handlers of selectLoop for what its own goroutines and timer send *)

\* Mutant: once stopped, endRun removes no run.
RunsAfterEndOfStopped(j) ==
    IF j \notin Known \/ stopped THEN runs
    ELSE IF runs[j].removing THEN WithoutRuns({j})
    ELSE WithRun(j, EndedRun(runs[j]))

\* endRun.  The message names the job only, not the start it ends.
RunsAfterEndOf(j) ==
    IF j \notin Known THEN runs
    ELSE IF runs[j].removing THEN WithoutRuns({j})
    ELSE IF ~stopped THEN WithRun(j, EndedRun(runs[j]))
    ELSE runs

\* Mutant: endRun returns without looking what may be started.
EndRunSilently(j) ==
    /\ ~looping
    /\ endRuns[j] > 0
    /\ endRuns' = [endRuns EXCEPT ![j] = @ - 1]
    /\ runs' = RunsAfterEndOf(j)
    /\ UNCHANGED <<executors, totalMax, flags, looping, timer, refresh, calls, runningMsgs, world>>

EndRun(j) ==
    /\ ~looping
    /\ endRuns[j] > 0
    /\ endRuns' = [endRuns EXCEPT ![j] = @ - 1]
    /\ runs' = RunsAfterEndOf(j)
    /\ StartAndStopRuns
    /\ UNCHANGED <<executors, totalMax, flags, timer, refresh, calls, runningMsgs, world>>

\* setJobRunning, for the message the goroutine of startJob sends
SetJobRunning(j) ==
    /\ ~looping
    /\ runningMsgs[j] > 0
    /\ runningMsgs' = [runningMsgs EXCEPT ![j] = @ - 1]
    /\ IF j \in Known
       THEN runs' = WithRun(j, [runs[j] EXCEPT !.ranAt = 0]) /\ StartAndStopRuns
       ELSE UNCHANGED <<runs, looping>>
    /\ UNCHANGED <<executors, totalMax, flags, timer, refresh, calls, endRuns, world>>

TakeRefresh ==
    /\ ~looping
    /\ refresh > 0
    /\ refresh' = refresh - 1
    /\ StartAndStopRuns
    /\ UNCHANGED <<books, flags, timer, calls, msgs, world>>

TimerFires ==
    /\ ~looping
    /\ timer = 0
    /\ timer' = Never
    /\ StartAndStopRuns
    /\ UNCHANGED <<books, flags, refresh, calls, msgs, world>>

-----------------------------------------------------------------------------
(* The rounds of startAndStopRuns *)

RoundStops(j) ==
    /\ looping
    /\ j \in ToStop
    /\ StopJobs({j}, stopped)
    /\ AddRefresh
    /\ UNCHANGED <<executors, totalMax, flags, looping, timer, startCalls, msgs, world>>

\* The call of startJob ends the loop, whether it finds an executor or not,
\* and the timer stays what it was.
RoundTries(j) ==
    /\ looping
    /\ ToStop = {}
    /\ j \in OldestRuns
    /\ ~MaximumReached
    /\ looping' = FALSE
    /\ UNCHANGED <<executors, totalMax, flags, timer, stopCalls, msgs, world>>

Tried(run) == [run EXCEPT !.triedToRunIndex = Cardinality(Known) + 1]

RoundStarts(j, e) ==
    /\ RoundTries(j)
    /\ e \in SuitableExecutors(j)
    /\ e \in BestExecutors(j)
    /\ runs' = Ranked(WithRun(j, Tried(StartedRun(runs[j], e, executors[e].changedCount))))
    /\ startCalls' = [startCalls EXCEPT ![j][e] = @ + 1]
    /\ AddRefresh

RoundFindsNoExecutor(j) ==
    /\ RoundTries(j)
    /\ SuitableExecutors(j) = {}
    /\ runs' = Ranked(WithRun(j, Tried(runs[j])))
    /\ UNCHANGED <<refresh, startCalls>>

RoundBalances(j) ==
    /\ looping
    /\ ToStop = {} /\ Startable = {}
    /\ j \in Considered /\ {j} \in BalanceOutcomes
    /\ StopJobs({j}, FALSE)
    /\ UNCHANGED <<executors, totalMax, flags, looping, timer, refresh, startCalls, msgs, world>>

\* Nothing to stop, nothing that may start, nothing to move.
RoundEnds ==
    /\ looping
    /\ ToStop = {}
    /\ Startable # {} => MaximumReached
    /\ Startable = {} => {} \in BalanceOutcomes
    /\ looping' = FALSE
    /\ IF stopped /\ DOMAIN executors = {} /\ Known = {}
       THEN finished' = TRUE /\ UNCHANGED timer
       ELSE timer' \in NextTimers /\ UNCHANGED finished
    /\ UNCHANGED <<books, started, stopped, refresh, calls, msgs, world>>

-----------------------------------------------------------------------------
(* The clock: rounds take no time, calls and waiting messages may take any *)

Tick ==
    /\ ~looping
    /\ runs' = [j \in Known |-> OlderRun(runs[j])]
    /\ executors' = [e \in DOMAIN executors |-> OlderExecutor(executors[e])]
    /\ timer' = IF timer > 0 THEN timer - 1 ELSE timer
    /\ UNCHANGED <<totalMax, flags, looping, refresh, calls, msgs, world>>

-----------------------------------------------------------------------------

Init ==
    /\ \E f \in InitialJobs :
          \E rank \in Bijection(DOMAIN f, 1..Cardinality(DOMAIN f)) :
             runs = [j \in DOMAIN f |-> [NewRun(f[j]) EXCEPT !.triedToRunIndex = rank[j]]]
    /\ \E f \in InitialExecutors : \E kept \in KeptAliveInputs :
          executors = [e \in DOMAIN f |->
                         [config |-> f[e], keptAliveAt |-> kept, changedCount |-> 0]]
    /\ totalMax \in TotalMaxJobCounts
    /\ started = FALSE /\ stopped = FALSE /\ finished = FALSE /\ looping = FALSE
    /\ timer = 1
    /\ refresh = 0
    /\ startCalls = [j \in Jobs |-> [e \in Executors |-> 0]]
    /\ stopCalls = [j \in Jobs |-> [e \in Executors \cup {NoExecutor} |-> 0]]
    /\ endRuns = [j \in Jobs |-> 0]
    /\ runningMsgs = [j \in Jobs |-> 0]
    /\ live = {}
    /\ errors = 0

ClientStep ==
    \/ Start \/ Stop
    \/ \E j \in Jobs : RemoveJob(j) \/ StopJob(j) \/ JobIsRunning(j)
                       \/ SetJobHasMilestoneNow(j) \/ SetJobHasError(j)
    \/ \E j \in Jobs, cfg \in JobConfigs : ChangeJob(j, cfg)
    \/ \E e \in Executors : RemoveExecutor(e) \/ FlushExecutorJobs(e) \/ SetExecutorIsAlive(e)
    \/ \E e \in Executors, cfg \in ExecutorConfigs, kept \in KeptAliveInputs :
          ChangeExecutor(e, cfg, kept)
    \/ \E e \in Executors, js \in SUBSET Jobs : SetJobsOnExecutor(e, js)
    \/ \E max \in TotalMaxJobCounts : SetTotalMaxJobCount(max)

CallReturns ==
    \/ \E j \in Jobs, e \in Executors : StartSucceeds(j, e) \/ StartFails(j, e)
    \/ \E j \in Jobs, e \in Executors \cup {NoExecutor} : StopSucceeds(j, e) \/ StopFails(j, e)

InternalStep ==
    \/ \E j \in Jobs : EndRun(j) \/ SetJobRunning(j)
    \/ TakeRefresh \/ TimerFires

Round ==
    \/ \E j \in Jobs : RoundStops(j) \/ RoundFindsNoExecutor(j) \/ RoundBalances(j)
    \/ \E j \in Jobs, e \in Executors : RoundStarts(j, e)
    \/ RoundEnds

Next == ClientStep \/ CallReturns \/ InternalStep \/ Round \/ Tick

Spec == Init /\ [][Next]_vars

\* A loop that has begun ends, Start is called and calls return.  select takes a
\* random one of the cases that are ready, so one that is ready again and again
\* is taken; and time passes.
SchedulerFairness ==
    /\ WF_vars(Start)
    /\ WF_vars(Round)
    /\ \A j \in Jobs : SF_vars(EndRun(j)) /\ SF_vars(SetJobRunning(j))
    /\ SF_vars(TakeRefresh)
    /\ SF_vars(TimerFires)
    /\ SF_vars(Tick)

StartCallsReturn ==
    \A j \in Jobs, e \in Executors : WF_vars(StartSucceeds(j, e) \/ StartFails(j, e))

StopCallsReturn ==
    \A j \in Jobs, e \in Executors \cup {NoExecutor} :
        WF_vars(StopSucceeds(j, e) \/ StopFails(j, e))

FairSpec == Spec /\ SchedulerFairness /\ StartCallsReturn /\ StopCallsReturn
=============================================================================
