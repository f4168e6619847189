-------------------------- MODULE SchedulerRecords --------------------------
(***************************************************************************)
(* The setup of a zscheduler.Scheduler, the records it keeps (Job,         *)
(* Executor, Run) and what its functions do to one record.                 *)
(*                                                                         *)
(* Timestamps are kept as ages.  A field that holds a time.Time in the     *)
(* code holds here the number of whole ticks since that time, or Never for *)
(* the zero time.  Between any two readings of the clock some time passes, *)
(* so an age a stands for an elapsed time strictly between a and a + 1:    *)
(*     time.Since(t) >  d   is   age >= d                                  *)
(*     time.Since(t) <= d   is   age <  d   (and so is time.Since(t) < d). *)
(* An age stops growing at a cap at which every comparison is decided.     *)
(***************************************************************************)
EXTENDS Integers, FiniteSets

CONSTANTS
    Jobs,            \* IDs of the jobs clients may add
    Executors,       \* IDs of the executors clients may add
    NoExecutor,      \* zeroID
    Attributes,      \* attributes of jobs and executors, "prefix.value" as <<prefix, value>>
    JobConfigs,      \* the client-set fields of a Job
    ExecutorConfigs, \* the client-set fields of an Executor
    SimultaneousStarts,                    \* 0 is no limit
    MinDurationBetweenSimultaneousStarts,
    LoadBalanceIfCostDifference,           \* 0 is off
    KeepJobsBeyondAtEndUntilEnoughSlack,
    StopJobIfSinceMilestoneLessThan,
    MinimumTimeBeforeRestartingErroredJob,
    GracePeriodForJobsOnExecutorCh,
    ExecutorAliveDuration,                 \* 0 is always alive
    JobIsRunningOnSuccessfulStart,
    AgeCap,            \* bound: per timestamp, the age at which it stops growing
    MaxChanged         \* bound: how often one executor's jobs are flushed

\* The zero time.Time
Never == -1

Durations == { cfg.duration : cfg \in JobConfigs }

ASSUME IDsAssumption ==
    /\ IsFiniteSet(Jobs)
    /\ IsFiniteSet(Executors)
    /\ NoExecutor \notin Executors

ASSUME SetupAssumption ==
    /\ SimultaneousStarts \in Nat
    /\ MinDurationBetweenSimultaneousStarts \in Nat
    /\ LoadBalanceIfCostDifference \in Nat
    /\ KeepJobsBeyondAtEndUntilEnoughSlack \in Nat
    /\ StopJobIfSinceMilestoneLessThan \in Nat
    /\ MinimumTimeBeforeRestartingErroredJob \in Nat
    /\ GracePeriodForJobsOnExecutorCh \in Nat
    /\ ExecutorAliveDuration \in Nat
    /\ JobIsRunningOnSuccessfulStart \in BOOLEAN
    /\ MaxChanged \in Nat

ASSUME ConfigAssumption ==
    /\ JobConfigs \subseteq
         [duration: Nat, cost: Nat \ {0}, attributes: SUBSET Attributes, isAble: BOOLEAN]
    /\ ExecutorConfigs \subseteq
         [capacity: Nat, accepts: SUBSET Attributes, isAble: BOOLEAN, paused: BOOLEAN]

\* Every duration that a timestamp's age is compared with is within its cap.
ASSUME AgeCapAssumption ==
    /\ AgeCap \in [started: Nat, ran: Nat, milestone: Nat, error: Nat, alive: Nat]
    /\ AgeCap.started >= GracePeriodForJobsOnExecutorCh
    /\ AgeCap.started >= MinDurationBetweenSimultaneousStarts
    /\ \A d \in Durations : AgeCap.ran >= d + KeepJobsBeyondAtEndUntilEnoughSlack
    /\ AgeCap.milestone >= StopJobIfSinceMilestoneLessThan
    /\ AgeCap.error >= MinimumTimeBeforeRestartingErroredJob
    /\ AgeCap.alive >= ExecutorAliveDuration

-----------------------------------------------------------------------------
(* The records *)

Age == Nat \cup {Never}

Run == [job: JobConfigs,
        executor: Executors \cup {NoExecutor},
        startedAt: Age, ranAt: Age, stoppedAt: Age, milestoneAt: Age, errorAt: Age,
        removing: BOOLEAN, stopping: BOOLEAN, starting: BOOLEAN,
        executorChangedCount: Nat,
        triedToRunIndex: Nat]

Executor == [config: ExecutorConfigs, keptAliveAt: Age, changedCount: Nat]

\* A run of a job that has just been added
NewRun(cfg) ==
    [job |-> cfg, executor |-> NoExecutor,
     startedAt |-> Never, ranAt |-> Never, stoppedAt |-> Never,
     milestoneAt |-> Never, errorAt |-> Never,
     removing |-> FALSE, stopping |-> FALSE, starting |-> FALSE,
     executorChangedCount |-> 0, triedToRunIndex |-> 0]

\* Mutant: stopJob does not return early for a run that is being stopped.
IsAlreadyStoppingNever(r) == FALSE

\* stopJob on a run that is being stopped already only upgrades it to a
\* removal.  A run on no executor is first reset, so it never is "already".
IsAlreadyStopping(r) == r.stopping /\ r.executor # NoExecutor

\* Mutant: stopJob frees the executor before it has answered.
StoppedRunFreed(r, remove) ==
    [r EXCEPT !.stopping = TRUE, !.stoppedAt = 0, !.removing = remove, !.ranAt = Never,
              !.startedAt = Never, !.starting = FALSE, !.executor = NoExecutor]

\* Mutant: stopJob forgets to reset starting.
StoppedRunStarting(r, remove) ==
    [r EXCEPT !.stopping = TRUE, !.stoppedAt = 0, !.removing = @ \/ remove,
              !.ranAt = Never, !.startedAt = Never]

StoppedRun(r, remove) ==
    IF IsAlreadyStopping(r)
    THEN [r EXCEPT !.removing = @ \/ remove]
    ELSE [r EXCEPT !.stopping = TRUE, !.stoppedAt = 0, !.removing = remove,
                   !.ranAt = Never, !.startedAt = Never, !.starting = FALSE]

\* Mutant: startJob takes the count before the last change.
StartedRunCountsBack(r, e, changedCount) ==
    [r EXCEPT !.stoppedAt = Never, !.removing = FALSE, !.startedAt = 0,
              !.executor = e, !.executorChangedCount = changedCount - 1, !.starting = TRUE]

\* What startJob writes to the run it starts on executor e
StartedRun(r, e, changedCount) ==
    [r EXCEPT !.stoppedAt = Never, !.removing = FALSE, !.startedAt = 0,
              !.executor = e, !.executorChangedCount = changedCount, !.starting = TRUE]

\* Mutant: the same after an error.
FailedRunStarting(r) == [r EXCEPT !.errorAt = 0]

\* What the goroutine of startJob writes when StartJobOnExecutorFunc returns
SucceededRun(r) == [r EXCEPT !.errorAt = Never, !.starting = FALSE]
FailedRun(r) == [r EXCEPT !.errorAt = 0, !.starting = FALSE]

\* Mutant: endRun forgets the flags of stopping.
EndedRunStopping(r) ==
    [r EXCEPT !.starting = FALSE, !.startedAt = Never, !.ranAt = Never, !.executor = NoExecutor]

\* What endRun writes to a run that stays in the scheduler
EndedRun(r) ==
    [r EXCEPT !.starting = FALSE, !.startedAt = Never, !.ranAt = Never,
              !.stoppedAt = Never, !.milestoneAt = Never, !.removing = FALSE,
              !.stopping = FALSE, !.executor = NoExecutor]

\* A job may run where, for each of its attributes, one with the same prefix is
\* accepted, and the same value too unless the job's value is empty.
JobMatchesExecutorAttributes(job, e) ==
    \A ja \in job.attributes : \E ea \in e.accepts :
        ea[1] = ja[1] /\ (ja[2] = "" \/ ea[2] = ja[2])

\* triedToRunIndex comes from a counter that only grows and is only ever
\* compared, so the runs keep their rank in it.  A job that was never tried has
\* index 0, and among those a later one in s.runs wins: a new run ranks first.
Ranked(rs) ==
    [j \in DOMAIN rs |->
        [rs[j] EXCEPT !.triedToRunIndex =
            Cardinality({k \in DOMAIN rs : rs[k].triedToRunIndex <= @})]]

-----------------------------------------------------------------------------
(* The clock *)

Older(age, cap) == IF age = Never \/ age >= cap THEN age ELSE age + 1

\* The age of stoppedAt decides nothing, so it stays 0: the one branch that reads
\* it, "Remove stuck job with executor", changes a copy of the run.
OlderRun(r) ==
    [r EXCEPT !.startedAt = Older(@, AgeCap.started), !.ranAt = Older(@, AgeCap.ran),
              !.errorAt = Older(@, AgeCap.error), !.milestoneAt = Older(@, AgeCap.milestone)]

OlderExecutor(e) == [e EXCEPT !.keptAliveAt = Older(@, AgeCap.alive)]
=============================================================================
