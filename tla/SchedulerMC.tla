----------------------------- MODULE SchedulerMC -----------------------------
(* Values of the constants of Scheduler for TLC. *)
EXTENDS SchedulerProperties, TLC

CONSTANTS j1, j2, j3, e1, e2

AgeCaps(startedAt, ranAt, milestoneAt, errorAt, aliveAt) ==
    [started |-> startedAt, ran |-> ranAt, milestone |-> milestoneAt,
     error |-> errorAt, alive |-> aliveAt]

NoAges == AgeCaps(0, 0, 0, 0, 0)
ErrorTo1 == AgeCaps(0, 0, 0, 1, 0)
SlackAges == AgeCaps(0, 2, 1, 0, 0)
TimesAges == AgeCaps(1, 2, 1, 0, 2)

JobOf(duration, cost) ==
    [duration |-> duration, cost |-> cost, attributes |-> {}, isAble |-> TRUE]
Unable(job) == [job EXCEPT !.isAble = FALSE]
With(job, attributes) == [job EXCEPT !.attributes = attributes]

ExecutorOf(capacity) ==
    [capacity |-> capacity, accepts |-> {}, isAble |-> TRUE, paused |-> FALSE]
Paused(executor) == [executor EXCEPT !.paused = TRUE]

UntilStopped == {JobOf(0, 1)}
ForOneTick == {JobOf(1, 1)}
EndingOrNot == {JobOf(0, 1), JobOf(1, 1)}
UntilStoppedOrUnable == {JobOf(0, 1), Unable(JobOf(0, 1))}

Room1 == {ExecutorOf(1)}
Room2 == {ExecutorOf(2)}
Room3 == {ExecutorOf(3)}
Room1OrPaused == {ExecutorOf(1), Paused(ExecutorOf(1))}

All(ids, configs) == [ids -> configs]
NothingYet == {[x \in {} |-> x]}
AllJobs == All(Jobs, JobConfigs)
AllExecutors == All(Executors, ExecutorConfigs)
AllAbleJobs == { f \in AllJobs : \A j \in Jobs : f[j].isAble }
AllAble == { f \in AllExecutors : \A e \in Executors : ~f[e].paused }

ForCdn == {With(JobOf(0, 1), {<<"cdn", "1">>}), With(JobOf(0, 1), {<<"cdn", "">>}),
           Unable(JobOf(0, 1))}
Accepting2 == {[ExecutorOf(2) EXCEPT !.accepts = {<<"cdn", "1">>}],
               [ExecutorOf(2) EXCEPT !.accepts = {<<"cdn", "2">>}],
               [Paused(ExecutorOf(2)) EXCEPT !.accepts = {<<"cdn", "1">>}],
               [ExecutorOf(2) EXCEPT !.isAble = FALSE]}

NoAttributes == {}
Cdn == {<<"cdn", "1">>, <<"cdn", "2">>, <<"cdn", "">>}

Unlimited == {NoLimit}
AtMost1Or2 == {1, 2}

NotKeptAlive == {Never}
MaybeKeptAlive == {0, Never}

Interchangeable == Permutations(Jobs) \cup Permutations(Executors)
==============================================================================
