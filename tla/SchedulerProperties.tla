------------------------ MODULE SchedulerProperties ------------------------
(***************************************************************************)
(* What Scheduler is checked and proved to do, and what the comments and   *)
(* tests of zscheduler say it does.                                        *)
(***************************************************************************)
EXTENDS Scheduler

RunsTypeOK ==
    /\ DOMAIN runs \subseteq Jobs
    /\ runs \in [DOMAIN runs -> Run]

ExecutorsTypeOK ==
    /\ DOMAIN executors \subseteq Executors
    /\ executors \in [DOMAIN executors -> Executor]

CallsTypeOK ==
    /\ startCalls \in [Jobs -> [Executors -> Nat]]
    /\ stopCalls \in [Jobs -> [Executors \cup {NoExecutor} -> Nat]]

\* Every variable has its type.
TypeOK ==
    /\ RunsTypeOK /\ ExecutorsTypeOK /\ CallsTypeOK
    /\ totalMax \in Nat \cup {NoLimit}
    /\ started \in BOOLEAN /\ stopped \in BOOLEAN /\ finished \in BOOLEAN /\ looping \in BOOLEAN
    /\ timer \in Nat \cup {Never}
    /\ refresh \in Nat
    /\ endRuns \in [Jobs -> Nat]
    /\ runningMsgs \in [Jobs -> Nat]
    /\ live \subseteq Jobs \X Executors
    /\ errors \in Nat

-----------------------------------------------------------------------------
(* The runs and the goroutines that work on them *)

HasStopCall(j) == \E e \in Executors \cup {NoExecutor} : stopCalls[j][e] > 0

RunConsistent(r) ==
    /\ r.stopping <=> r.stoppedAt # Never
    /\ r.stopping => r.startedAt = Never /\ ~r.starting
    /\ r.removing => r.stopping
    /\ r.startedAt # Never => r.executor # NoExecutor
    /\ r.starting => r.startedAt # Never

\* stopJob, startJob and endRun write nine fields between them, from two kinds
\* of goroutine.  A run that is being stopped is not starting or started; only
\* a run that is being stopped is to be removed (so the branch of
\* startAndStopRuns for a "stuck removing job" is never taken); a run that is
\* started has an executor.
RunsConsistent == \A j \in Known : RunConsistent(runs[j])

\* A run is flagged as starting only as long as the call that starts it on its
\* executor is in progress, whatever other calls about the job come back.
StartingHasCall ==
    \A j \in Known : runs[j].starting => startCalls[j][runs[j].executor] > 0

\* Until Stop, a run that is being stopped has a goroutine that will end it: no
\* endRun of an earlier start or stop uses up the one it waits for.
StoppingHasEnder ==
    ~stopped => \A j \in Known : runs[j].stopping => endRuns[j] > 0 \/ HasStopCall(j)

-----------------------------------------------------------------------------
(* Where jobs run *)

Placement == INSTANCE JobPlacement WITH
    place <- [j \in Jobs |-> IF j \in Known THEN runs[j].executor ELSE NoExecutor]

\* The scheduler implements JobPlacement: endRun frees a job's place only when
\* the job no longer runs there.
ImplementsPlacement == Placement!Spec

\* zscheduler.go:61, "endRunCh sets a run to after stopped status": a run that
\* loses its executor, which is what endRun does, is not running on it.
EndRunIsAfterStop ==
    [][\A j \in Known : runs[j].executor # NoExecutor
                        /\ (j \in DOMAIN runs' => runs'[j].executor = NoExecutor)
            => <<j, runs[j].executor>> \notin live]_vars

\* Between two messages, no run is started where the job and executor records,
\* which clients change at any time, do not let it be.
StartedRunsAreAllowed ==
    ~looping => \A j \in Known : runs[j].startedAt # Never =>
        /\ runs[j].job.isAble
        /\ runs[j].executor \in DOMAIN executors
        /\ Executing(j).config.isAble /\ ~Executing(j).config.paused
        /\ JobMatchesExecutorAttributes(runs[j].job, Executing(j).config)

-----------------------------------------------------------------------------
(* Limits *)

\* The cost booked on an executor stays within its capacity, over starts, ends,
\* flushes and the removal and return of the executor.
BookedWithinCapacity ==
    \A e \in DOMAIN executors : Load(e) <= executors[e].config.capacity

\* zscheduler.go:34, "wont start another job if active jobs >= TotalMaxJobCount":
\* the number of started runs does not grow beyond it, also while it changes.
StartedCount == Cardinality({ j \in Known : runs[j].startedAt # Never })
StartedWithinMax ==
    [][totalMax' # NoLimit /\ StartedCount' > StartedCount => StartedCount' <= totalMax']_vars

\* zscheduler.go:28, SimultaneousStarts: of the start calls of one executor's runs, no more
\* are in progress; they are counted by RanAt, so (:35, "set a job as running once its start
\* function completes") no run is running while its start function has not returned.
StartsWithinLimit ==
    /\ \A j \in Known : runs[j].starting => runs[j].ranAt = Never
    /\ SimultaneousStarts # 0 =>
        \A e \in Executors :
            Cardinality({ j \in Known : runs[j].executor = e /\ runs[j].starting })
                <= SimultaneousStarts

-----------------------------------------------------------------------------
(* Time *)

\* zscheduler.go:78, "How long job should run for", and with slack :31, "are stopped
\* if they go beyond this duration extra": a run over its Duration is stopped.
DurationIsHonoured ==
    \A j \in Jobs : (j \in Known /\ IsOverDuration(j)) ~> ~(j \in Known /\ IsOverDuration(j))

OnPaused(j) ==
    /\ j \in Known /\ runs[j].startedAt # Never
    /\ runs[j].executor \in DOMAIN executors
    /\ Executing(j).config.paused

OnExpired(j) ==
    /\ j \in Known /\ runs[j].startedAt # Never
    /\ runs[j].executor \in DOMAIN executors
    /\ ~IsExecutorAlive(runs[j].executor)

\* An executor that stays paused loses the job it runs: at once, or when the job reaches a
\* milestone or the end of its slack.  zscheduler.go:27, "how often an executor needs to say
\* it's alive to be considered operatable": no run stays started on one that did not.
UnusableExecutorIsLeft ==
    \A j \in Jobs : (OnPaused(j) ~> ~OnPaused(j)) /\ (OnExpired(j) ~> ~OnExpired(j))

\* zscheduler.go:7, "start jobs as soon as possible on any executor with enough
\* capacity": a job that could be started on one does not wait for ever.
FittingJobIsStarted ==
    \A j \in Jobs :
        LET fits == j \in Startable /\ ~MaximumReached /\ SuitableExecutors(j) # {}
        IN fits ~> ~fits

\* zscheduler.go:7, "priority is to start jobs as soon as possible": where there
\* is room for all jobs, every job runs again and again, until Stop.
JobsKeepRunning ==
    \A j \in Jobs : []<>(stopped \/ (j \in Known /\ runs[j].ranAt # Never))

\* zscheduler.go:30, "once all jobs are running, switch job to an executor with
\* more capacity left": that comes to an end, jobs are not switched for ever.
BalanceSettles ==
    <>[][\A j \in Jobs : ~RoundBalances(j)]_vars

-----------------------------------------------------------------------------
(* Stopping the scheduler *)

\* zscheduler_test.go:677, "length of runs should be zero" a while after Stop, and
\* SchedulerFinishedStopping is reported.  That needs every run that is being
\* stopped to be removed too: Stop leaves alone a run that was being stopped
\* before, and its endRun then keeps it.
StopFinishes ==
    (stopped /\ \A j \in Known : runs[j].stopping => runs[j].removing) ~> finished
=============================================================================
