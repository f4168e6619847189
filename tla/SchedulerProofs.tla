--------------------------- MODULE SchedulerProofs ---------------------------
(***************************************************************************)
(* The invariants of SchedulerProperties that follow from the order in     *)
(* which selectLoop and its goroutines write a run, for any number of      *)
(* jobs, executors, failures, messages and any setup.                      *)
(*                                                                         *)
(* Then the goroutines that startJob and stopJob spawn: at most one start  *)
(* and one stop of a job is in progress, on the executor its run is placed *)
(* on, and endRun frees that executor only when the job no longer runs     *)
(* there.  This takes executors whose functions do not fail, and clients   *)
(* that do not stop a run twice while it waits without an executor.        *)
(*                                                                         *)
(* Last, the limits: the capacity of an executor, TotalMaxJobCount, what   *)
(* the records of jobs and executors allow, and SimultaneousStarts.  Only  *)
(* a round that calls startJob starts a run, and it does so when no run is *)
(* to be stopped.  What it counted then is what bounds the runs until the  *)
(* next one.                                                               *)
(***************************************************************************)
EXTENDS SchedulerProperties, SumProofs

-----------------------------------------------------------------------------
(* What the functions on one run keep *)

\* The writes of stopJob, of its goroutine and of startJob's, and of endRun
\* keep the type of a run.
LEMMA RunTypes ==
    ASSUME NEW r \in Run
    PROVE  /\ \A remove \in BOOLEAN : StoppedRun(r, remove) \in Run
           /\ \A e \in Executors, n \in Nat : StartedRun(r, e, n) \in Run
           /\ \A n \in Nat : [r EXCEPT !.triedToRunIndex = n] \in Run
           /\ SucceededRun(r) \in Run /\ FailedRun(r) \in Run /\ EndedRun(r) \in Run
           /\ [r EXCEPT !.ranAt = 0] \in Run
           /\ [r EXCEPT !.milestoneAt = 0] \in Run
           /\ [r EXCEPT !.errorAt = 0] \in Run
           /\ \A cfg \in JobConfigs : [r EXCEPT !.job = cfg] \in Run
<1>1. ASSUME NEW remove \in BOOLEAN PROVE StoppedRun(r, remove) \in Run
  <2>1. (r.removing \/ remove) \in BOOLEAN
    OBVIOUS
  <2>2. [r EXCEPT !.removing = @ \/ remove] \in Run
    BY <2>1 DEF Run
  <2>3. [r EXCEPT !.stopping = TRUE, !.stoppedAt = 0, !.removing = remove,
                  !.ranAt = Never, !.startedAt = Never, !.starting = FALSE] \in Run
    BY DEF Run, Age
  <2>4. QED BY <2>2, <2>3 DEF StoppedRun
<1>2. \A e \in Executors, n \in Nat : StartedRun(r, e, n) \in Run
  BY DEF Run, Age, Never, StartedRun
<1>3. SucceededRun(r) \in Run /\ FailedRun(r) \in Run /\ EndedRun(r) \in Run
  BY ZenonT(40) DEF Run, Age, Never, SucceededRun, FailedRun, EndedRun
<1>4. QED BY <1>1, <1>2, <1>3 DEF Run, Age

\* Time keeps the type of a run, and zero times stay zero.
LEMMA OlderRunType ==
    ASSUME NEW r \in Run
    PROVE  /\ OlderRun(r) \in Run
           /\ OlderRun(r).startedAt = Never <=> r.startedAt = Never
<1>1. ASSUME NEW age \in Age, NEW cap \in Nat
      PROVE  Older(age, cap) \in Age /\ (Older(age, cap) = Never <=> age = Never)
  BY DEF Age, Never, Older
<1>2. /\ AgeCap.started \in Nat /\ AgeCap.ran \in Nat
      /\ AgeCap.error \in Nat /\ AgeCap.milestone \in Nat
  BY AgeCapAssumption
<1>3. QED BY <1>1, <1>2 DEF Run, OlderRun

\* A rank is a number, so ranking keeps the type of the runs; nothing but the
\* rank of a run changes.
LEMMA RankedRuns ==
    ASSUME NEW rs, DOMAIN rs \subseteq Jobs, \A j \in DOMAIN rs : rs[j] \in Run
    PROVE  /\ DOMAIN Ranked(rs) = DOMAIN rs
           /\ Ranked(rs) \in [DOMAIN rs -> Run]
           /\ \A j \in DOMAIN rs : \E n \in Nat :
                 Ranked(rs)[j] = [rs[j] EXCEPT !.triedToRunIndex = n]
<1> DEFINE rank(j) == Cardinality({k \in DOMAIN rs : rs[k].triedToRunIndex <= rs[j].triedToRunIndex})
<1>1. ASSUME NEW j \in DOMAIN rs PROVE rank(j) \in Nat
  BY IDsAssumption, FS_Subset, FS_CardinalityType
<1>2. Ranked(rs) = [j \in DOMAIN rs |-> [rs[j] EXCEPT !.triedToRunIndex = rank(j)]]
  BY DEF Ranked
<1>3. ASSUME NEW j \in DOMAIN rs, NEW n \in Nat PROVE [rs[j] EXCEPT !.triedToRunIndex = n] \in Run
  BY DEF Run
<1> HIDE DEF rank
<1>4. QED BY <1>1, <1>2, <1>3

-----------------------------------------------------------------------------
(* What the parts of the handlers do to the types *)

\* findRun and a write to what it found keeps the type of the runs.
LEMMA WithRunType ==
    ASSUME RunsTypeOK, NEW j \in Known, NEW r \in Run
    PROVE  DOMAIN WithRun(j, r) = Known /\ WithRun(j, r) \in [Known -> Run]
  BY DEF RunsTypeOK, Known, WithRun

\* What the handlers and goroutines write to the run of a known job has its type.
LEMMA RunWriteTypes ==
    ASSUME RunsTypeOK, NEW j \in Known
    PROVE  /\ runs[j] \in Run
           /\ SucceededRun(runs[j]) \in Run
           /\ FailedRun(runs[j]) \in Run
           /\ EndedRun(runs[j]) \in Run
           /\ [runs[j] EXCEPT !.ranAt = 0] \in Run
           /\ [runs[j] EXCEPT !.milestoneAt = 0] \in Run
           /\ [runs[j] EXCEPT !.errorAt = 0] \in Run
           /\ \A cfg \in JobConfigs : [runs[j] EXCEPT !.job = cfg] \in Run
<1>1. runs[j] \in Run
  BY DEF RunsTypeOK, Known
<1>2. QED BY <1>1, RunTypes

\* A message is taken only when there is one, so the numbers stay natural.
LEMMA TakeOne ==
    ASSUME NEW S, NEW f \in [S -> Nat], NEW x \in S, f[x] > 0
    PROVE  [f EXCEPT ![x] = @ - 1] \in [S -> Nat]
  OBVIOUS

\* A count of each that is increased is still one.
LEMMA AddOne ==
    ASSUME NEW S, NEW f \in [S -> Nat], NEW x \in S
    PROVE  [f EXCEPT ![x] = @ + 1] \in [S -> Nat]
  OBVIOUS

\* Pending refreshes are a number.
LEMMA AddRefreshType ==
    ASSUME refresh \in Nat, AddRefresh
    PROVE  refresh' \in Nat
  BY DEF AddRefresh

\* removeRun, and what Stop does to the runs, keeps the type of the others.
LEMMA WithoutRunsType ==
    ASSUME RunsTypeOK, NEW js, runs' = WithoutRuns(js)
    PROVE  RunsTypeOK'
<1> DEFINE rest == [j \in Known \ js |-> runs[j]]
<1>1. DOMAIN rest \subseteq Jobs /\ \A j \in DOMAIN rest : rest[j] \in Run
  BY DEF RunsTypeOK, Known
<1>2. runs' = Ranked(rest)
  BY DEF WithoutRuns
<1> HIDE DEF rest
<1>3. QED BY <1>1, <1>2, RankedRuns DEF RunsTypeOK

\* startJob ranks the run it tried last.
LEMMA TriedType ==
    ASSUME RunsTypeOK, NEW j \in Known, NEW r \in Run
    PROVE  /\ DOMAIN Ranked(WithRun(j, Tried(r))) = Known
           /\ Ranked(WithRun(j, Tried(r))) \in [Known -> Run]
<1>1. Cardinality(Known) + 1 \in Nat
  BY IDsAssumption, FS_Subset, FS_CardinalityType DEF RunsTypeOK, Known
<1>2. Tried(r) \in Run
  BY <1>1, RunTypes DEF Tried
<1>3. DOMAIN WithRun(j, Tried(r)) = Known /\ WithRun(j, Tried(r)) \in [Known -> Run]
  BY <1>2, WithRunType
<1>4. QED BY <1>3, RankedRuns DEF RunsTypeOK, Known

\* stopJob keeps the types of the runs and of the calls in progress.
LEMMA StopJobsType ==
    ASSUME RunsTypeOK, CallsTypeOK, NEW js \in SUBSET Known, NEW remove \in BOOLEAN,
           StopJobs(js, remove), UNCHANGED startCalls
    PROVE  RunsTypeOK' /\ CallsTypeOK'
<1>1. RunsTypeOK'
  BY RunTypes DEF RunsTypeOK, StopJobs, Known
<1>2. ASSUME NEW j \in Jobs
      PROVE  stopCalls'[j] \in [Executors \cup {NoExecutor} -> Nat]
  <2>1. stopCalls[j] \in [Executors \cup {NoExecutor} -> Nat]
    BY DEF CallsTypeOK
  <2>2. ASSUME NEW e \in Executors \cup {NoExecutor}
        PROVE  [stopCalls[j] EXCEPT ![e] = @ + 1] \in [Executors \cup {NoExecutor} -> Nat]
    BY <2>1
  <2>3. j \in js => runs[j].executor \in Executors \cup {NoExecutor}
    BY DEF RunsTypeOK, Known, Run
  <2>4. QED BY <2>1, <2>2, <2>3 DEF StopJobs
<1>3. CallsTypeOK'
  BY <1>2 DEF CallsTypeOK, StopJobs
<1>4. QED BY <1>1, <1>3

\* The timer is set to a time that is not past, or not at all.
LEMMA NextTimersType ==
    ASSUME TypeOK
    PROVE  NextTimers \subseteq Nat \cup {Never}
<1>1. ASSUME NEW j \in JobsWithEnd PROVE JobEndIn(j) \in Int
  <2>1. runs[j] \in Run /\ runs[j].job \in JobConfigs
    BY <1>1 DEF TypeOK, RunsTypeOK, JobsWithEnd, Known, Run
  <2>2. runs[j].ranAt \in Int /\ runs[j].job.duration \in Nat
    BY <2>1, ConfigAssumption DEF Run, Age, Never
  <2>3. QED BY <2>2 DEF JobEndIn
<1>2. ASSUME NEW ends \in JobEndTimes PROVE ends \subseteq Int
  BY <1>1, <1>2, SetupAssumption DEF JobEndTimes
<1>3. ExpiryTimes \subseteq Int
  <2>1. ASSUME NEW e \in DOMAIN executors PROVE executors[e].keptAliveAt \in Int
    BY DEF TypeOK, ExecutorsTypeOK, Executor, Age, Never
  <2>2. QED BY <2>1, SetupAssumption DEF ExpiryTimes
<1>4. ASSUME NEW times \in SUBSET Int PROVE TimerFor(times) \in Nat \cup {Never}
  <2>1. CASE \E t \in times : t > 0 /\ \A u \in times : t <= u
    <3>1. PICK t \in times : t > 0 /\ \A u \in times : t <= u
      BY <2>1
    <3>2. Min(times) \in times
      BY <3>1 DEF Min
    <3>3. t \in Int /\ Min(times) \in Int /\ t > 0 /\ t <= Min(times)
      BY <3>1, <3>2
    <3>4. QED BY <2>1, <3>3 DEF TimerFor
  <2>2. QED BY <2>1 DEF TimerFor
<1>5. QED BY <1>2, <1>3, <1>4 DEF NextTimers

-----------------------------------------------------------------------------
(* Types *)

LEMMA TypeOKInit == Init => TypeOK
<1> SUFFICES ASSUME Init PROVE TypeOK
  OBVIOUS
<1>1. RunsTypeOK
  <2>1. PICK f \in InitialJobs :
           \E rank \in Bijection(DOMAIN f, 1..Cardinality(DOMAIN f)) :
             runs = [j \in DOMAIN f |-> [NewRun(f[j]) EXCEPT !.triedToRunIndex = rank[j]]]
    BY DEF Init
  <2> PICK rank \in Bijection(DOMAIN f, 1..Cardinality(DOMAIN f)) :
         runs = [j \in DOMAIN f |-> [NewRun(f[j]) EXCEPT !.triedToRunIndex = rank[j]]]
    BY <2>1
  <2>2. DOMAIN f \subseteq Jobs /\ f \in [DOMAIN f -> JobConfigs]
    BY InputAssumption
  <2>3. Cardinality(DOMAIN f) \in Nat
    BY <2>2, IDsAssumption, FS_Subset, FS_CardinalityType
  <2>4. rank \in [DOMAIN f -> Nat]
    BY <2>3 DEF Bijection, Injection
  <2>5. ASSUME NEW cfg \in JobConfigs, NEW n \in Nat
        PROVE  [NewRun(cfg) EXCEPT !.triedToRunIndex = n] \in Run
    BY DEF NewRun, Run, Age
  <2>6. QED BY <2>1, <2>2, <2>4, <2>5 DEF RunsTypeOK
<1>2. ExecutorsTypeOK
  BY InputAssumption DEF Init, ExecutorsTypeOK, Executor, Age
<1>3. QED BY <1>1, <1>2, InputAssumption DEF Init, TypeOK, CallsTypeOK

LEMMA TypeOKStep == TypeOK /\ [Next]_vars => TypeOK'
<1> SUFFICES ASSUME TypeOK, [Next]_vars PROVE TypeOK'
  OBVIOUS
<1> USE DEF books, flags, calls, msgs, world
<1> USE DEF TypeOK
<1>1. CASE Start
  BY <1>1, AddRefreshType DEF Start, RunsTypeOK, ExecutorsTypeOK, CallsTypeOK
<1>2. CASE Stop
  <2>1. RunsTypeOK'
    <3>1. PICK js \in SUBSET Known : runs' = WithoutRuns(js)
      BY <1>2 DEF Stop
    <3>2. QED BY <3>1, WithoutRunsType
  <2>2. ExecutorsTypeOK'
    BY <1>2 DEF Stop, ExecutorsTypeOK
  <2>3. QED BY <1>2, <2>1, <2>2, AddRefreshType DEF Stop, CallsTypeOK
<1>3. ASSUME NEW j \in Jobs, NEW remove \in BOOLEAN, RequestStop(j, remove) PROVE TypeOK'
  BY <1>3, StopJobsType, AddRefreshType DEF RequestStop, ExecutorsTypeOK
<1>4. ASSUME NEW j \in Jobs, JobIsRunning(j) PROVE TypeOK'
  <2>1. RunsTypeOK'
    BY <1>4, RunWriteTypes, WithRunType DEF JobIsRunning, RunsTypeOK, Known
  <2>2. QED BY <1>4, <2>1 DEF JobIsRunning, StartAndStopRuns, ExecutorsTypeOK, CallsTypeOK
<1>5. ASSUME NEW j \in Jobs, NEW cfg \in JobConfigs, ChangeJob(j, cfg) PROVE TypeOK'
  <2>1. RunsTypeOK'
    <3>1. CASE j \in Known
      BY <1>5, <3>1, RunWriteTypes, WithRunType DEF ChangeJob, RunsTypeOK, Known
    <3>2. CASE j \notin Known
      <4> DEFINE more == [k \in Known \cup {j} |-> IF k = j THEN NewRun(cfg) ELSE runs[k]]
      <4>1. runs' = Ranked(more)
        BY <1>5, <3>2 DEF ChangeJob
      <4>2. DOMAIN more \subseteq Jobs /\ \A k \in DOMAIN more : more[k] \in Run
        BY DEF RunsTypeOK, Known, NewRun, Run, Age
      <4>3. QED BY <4>1, <4>2, RankedRuns DEF RunsTypeOK
    <3>3. QED BY <3>1, <3>2
  <2>2. QED BY <1>5, <2>1 DEF ChangeJob, StartAndStopRuns, ExecutorsTypeOK, CallsTypeOK
<1>6. ASSUME NEW e \in Executors, NEW cfg \in ExecutorConfigs, NEW kept \in KeptAliveInputs,
             ChangeExecutor(e, cfg, kept)
      PROVE  TypeOK'
  <2>1. ExecutorsTypeOK'
    BY <1>6, InputAssumption DEF ChangeExecutor, ExecutorsTypeOK, Executor, Age
  <2>2. QED BY <1>6, <2>1 DEF ChangeExecutor, StartAndStopRuns, RunsTypeOK, CallsTypeOK
<1>7. ASSUME NEW e \in Executors,
             RemoveExecutor(e) \/ FlushExecutorJobs(e) \/ SetExecutorIsAlive(e)
      PROVE  TypeOK'
  <2>1. ExecutorsTypeOK'
    BY <1>7 DEF RemoveExecutor, FlushExecutorJobs, SetExecutorIsAlive, ExecutorsTypeOK,
                Executor, Age
  <2>2. QED BY <1>7, <2>1 DEF RemoveExecutor, FlushExecutorJobs, SetExecutorIsAlive,
                              StartAndStopRuns, RunsTypeOK, CallsTypeOK
<1>8. ASSUME NEW e \in Executors, NEW js \in SUBSET Jobs, SetJobsOnExecutor(e, js) PROVE TypeOK'
  BY <1>8, StopJobsType DEF SetJobsOnExecutor, ExecutorsTypeOK
<1>9. ASSUME NEW max \in TotalMaxJobCounts, SetTotalMaxJobCount(max) PROVE TypeOK'
  BY <1>9, InputAssumption
     DEF SetTotalMaxJobCount, StartAndStopRuns, RunsTypeOK, ExecutorsTypeOK, CallsTypeOK
<1>10. ASSUME NEW j \in Jobs, SetJobHasMilestoneNow(j) \/ SetJobHasError(j) PROVE TypeOK'
  <2>1. RunsTypeOK'
    <3>1. PICK r \in Run : j \in Known /\ runs' = WithRun(j, r)
      BY <1>10, RunWriteTypes DEF SetJobHasMilestoneNow, SetJobHasError
    <3>2. QED BY <3>1, WithRunType DEF RunsTypeOK, Known
  <2>2. QED BY <1>10, <2>1 DEF SetJobHasMilestoneNow, SetJobHasError, StartAndStopRuns,
                               ExecutorsTypeOK, CallsTypeOK
<1>11. ASSUME NEW j \in Jobs, NEW e \in Executors, StartSucceeds(j, e) \/ StartFails(j, e)
       PROVE  TypeOK'
  <2>1. RunsTypeOK'
    <3>1. \/ runs' = runs
          \/ j \in Known /\ \E r \in Run : runs' = WithRun(j, r)
      BY <1>11, RunWriteTypes DEF StartSucceeds, StartFails
    <3>2. QED BY <3>1, WithRunType DEF RunsTypeOK, Known
  <2>2. CallsTypeOK'
    <3>1. startCalls[j] \in [Executors -> Nat] /\ startCalls[j][e] > 0
      BY <1>11 DEF StartSucceeds, StartFails, CallsTypeOK
    <3>2. [startCalls[j] EXCEPT ![e] = @ - 1] \in [Executors -> Nat]
      BY <3>1, TakeOne
    <3>3. startCalls' = [startCalls EXCEPT ![j] = [startCalls[j] EXCEPT ![e] = @ - 1]]
      BY <1>11 DEF StartSucceeds, StartFails, CallsTypeOK
    <3>4. QED BY <1>11, <3>2, <3>3 DEF StartSucceeds, StartFails, CallsTypeOK
  <2>3. endRuns' \in [Jobs -> Nat] /\ runningMsgs' \in [Jobs -> Nat]
    BY <1>11, AddOne DEF StartSucceeds, StartFails
  <2>4. QED BY <1>11, <2>1, <2>2, <2>3 DEF StartSucceeds, StartFails, ExecutorsTypeOK
<1>12. ASSUME NEW j \in Jobs, NEW e \in Executors \cup {NoExecutor},
              StopSucceeds(j, e) \/ StopFails(j, e)
       PROVE  TypeOK'
  <2>1. RunsTypeOK'
    <3>1. \/ runs' = runs
          \/ j \in Known /\ \E r \in Run : runs' = WithRun(j, r)
      BY <1>12, RunWriteTypes DEF StopSucceeds, StopFails
    <3>2. QED BY <3>1, WithRunType DEF RunsTypeOK, Known
  <2>2. CallsTypeOK'
    <3>1. stopCalls[j] \in [Executors \cup {NoExecutor} -> Nat] /\ stopCalls[j][e] > 0
      BY <1>12 DEF StopSucceeds, StopFails, CallsTypeOK
    <3>2. [stopCalls[j] EXCEPT ![e] = @ - 1] \in [Executors \cup {NoExecutor} -> Nat]
      BY <3>1, TakeOne
    <3>3. stopCalls' = [stopCalls EXCEPT ![j] = [stopCalls[j] EXCEPT ![e] = @ - 1]]
      BY <1>12 DEF StopSucceeds, StopFails, CallsTypeOK
    <3>4. QED BY <1>12, <3>2, <3>3 DEF StopSucceeds, StopFails, CallsTypeOK
  <2>3. endRuns' \in [Jobs -> Nat]
    BY <1>12, AddOne DEF StopSucceeds, StopFails
  <2>4. QED BY <1>12, <2>1, <2>2, <2>3 DEF StopSucceeds, StopFails, ExecutorsTypeOK
<1>13. ASSUME NEW j \in Jobs, EndRun(j) PROVE TypeOK'
  <2>1. RunsTypeOK'
    <3>1. CASE runs' = runs
      BY <3>1 DEF RunsTypeOK
    <3>2. CASE runs' = WithoutRuns({j})
      BY <3>2, WithoutRunsType
    <3>3. CASE j \in Known /\ runs' = WithRun(j, EndedRun(runs[j]))
      BY <3>3, RunWriteTypes, WithRunType DEF RunsTypeOK, Known
    <3>4. QED BY <1>13, <3>1, <3>2, <3>3 DEF EndRun, RunsAfterEndOf
  <2>2. endRuns' \in [Jobs -> Nat]
    BY <1>13, TakeOne DEF EndRun
  <2>3. QED BY <1>13, <2>1, <2>2 DEF EndRun, StartAndStopRuns, ExecutorsTypeOK, CallsTypeOK
<1>14. ASSUME NEW j \in Jobs, SetJobRunning(j) PROVE TypeOK'
  <2>1. RunsTypeOK'
    BY <1>14, RunWriteTypes, WithRunType, ZenonT(40) DEF SetJobRunning, RunsTypeOK, Known
  <2>2. runningMsgs' \in [Jobs -> Nat]
    BY <1>14, TakeOne DEF SetJobRunning
  <2>3. QED BY <1>14, <2>1, <2>2 DEF SetJobRunning, StartAndStopRuns, ExecutorsTypeOK, CallsTypeOK
<1>15. CASE TakeRefresh \/ TimerFires
  <2>1. refresh' \in Nat /\ timer' \in Nat \cup {Never}
    BY <1>15 DEF TakeRefresh, TimerFires
  <2>2. QED BY <1>15, <2>1 DEF TakeRefresh, TimerFires, StartAndStopRuns, RunsTypeOK, ExecutorsTypeOK, CallsTypeOK
<1>16. ASSUME NEW j \in Jobs, RoundStops(j) \/ RoundBalances(j) PROVE TypeOK'
  <2>1. j \in Known /\ UNCHANGED startCalls
        /\ \E remove \in BOOLEAN : StopJobs({j}, remove)
    BY <1>16 DEF RoundStops, RoundBalances, ToStop, Considered
  <2>2. RunsTypeOK' /\ CallsTypeOK'
    BY <2>1, StopJobsType
  <2>3. refresh' \in Nat
    BY <1>16, AddRefreshType DEF RoundStops, RoundBalances
  <2>4. QED BY <1>16, <2>2, <2>3 DEF RoundStops, RoundBalances, ExecutorsTypeOK
<1>17. ASSUME NEW j \in Jobs, RoundFindsNoExecutor(j) PROVE TypeOK'
  <2>1. runs' = Ranked(WithRun(j, Tried(runs[j]))) /\ j \in Known
    BY <1>17 DEF RoundFindsNoExecutor, RoundTries, OldestRuns, Startable, Considered
  <2>2. QED BY <1>17, <2>1, TriedType DEF RoundFindsNoExecutor, RoundTries, RunsTypeOK, Known,
                                          ExecutorsTypeOK, CallsTypeOK
<1>18. ASSUME NEW j \in Jobs, NEW e \in Executors, RoundStarts(j, e) PROVE TypeOK'
  <2>1. j \in Known /\ e \in DOMAIN executors
        /\ runs' = Ranked(WithRun(j, Tried(StartedRun(runs[j], e, executors[e].changedCount))))
    BY <1>18 DEF RoundStarts, RoundTries, OldestRuns, Startable, Considered, SuitableExecutors,
                 RunnableExecutors
  <2>2. executors[e].changedCount \in Nat
    BY <2>1 DEF ExecutorsTypeOK, Executor
  <2>3. StartedRun(runs[j], e, executors[e].changedCount) \in Run
    BY <2>1, <2>2, RunTypes DEF RunsTypeOK, Known
  <2>4. RunsTypeOK'
    BY <2>1, <2>3, TriedType DEF RunsTypeOK, Known
  <2>5. CallsTypeOK'
    <3>1. [startCalls[j] EXCEPT ![e] = @ + 1] \in [Executors -> Nat]
      BY AddOne DEF CallsTypeOK
    <3>2. startCalls' = [startCalls EXCEPT ![j] = [startCalls[j] EXCEPT ![e] = @ + 1]]
      BY <1>18 DEF RoundStarts, CallsTypeOK
    <3>3. QED BY <1>18, <3>1, <3>2 DEF RoundStarts, RoundTries, CallsTypeOK
  <2>6. QED BY <1>18, <2>4, <2>5, AddRefreshType DEF RoundStarts, RoundTries, ExecutorsTypeOK
<1>19. CASE RoundEnds
  <2>1. timer' \in Nat \cup {Never}
    BY <1>19, NextTimersType DEF RoundEnds
  <2>2. QED BY <1>19, <2>1 DEF RoundEnds, RunsTypeOK, ExecutorsTypeOK, CallsTypeOK
<1>20. CASE Tick
  <2>1. RunsTypeOK'
    BY <1>20, OlderRunType DEF Tick, RunsTypeOK, Known
  <2>2. ExecutorsTypeOK'
    BY <1>20, AgeCapAssumption DEF Tick, ExecutorsTypeOK, OlderExecutor, Executor, Older, Age, Never
  <2>3. timer' \in Nat \cup {Never}
    BY <1>20 DEF Tick, Never
  <2>4. QED BY <1>20, <2>1, <2>2, <2>3 DEF Tick, CallsTypeOK
<1>21. CASE UNCHANGED vars
  BY <1>21 DEF vars, RunsTypeOK, ExecutorsTypeOK, CallsTypeOK
<1>22. QED
  BY <1>1, <1>2, <1>3, <1>4, <1>5, <1>6, <1>7, <1>8, <1>9, <1>10, <1>11, <1>12, <1>13, <1>14,
     <1>15, <1>16, <1>17, <1>18, <1>19, <1>20, <1>21
  DEF Next, ClientStep, CallReturns, InternalStep, Round, RemoveJob, StopJob

\* Every variable keeps its type, whatever clients ask and calls answer.
THEOREM TypeCorrect == Spec => []TypeOK
<1>1. QED BY TypeOKInit, TypeOKStep, PTL DEF Spec

-----------------------------------------------------------------------------
(* The flags and times of a run *)

\* Whatever is written to a consistent run leaves it consistent.  A run is only
\* started when it is not being stopped.
LEMMA ConsistentWrites ==
    ASSUME NEW r \in Run, RunConsistent(r)
    PROVE  /\ \A remove \in BOOLEAN : RunConsistent(StoppedRun(r, remove))
           /\ \A e \in Executors, n \in Nat : ~r.stopping => RunConsistent(StartedRun(r, e, n))
           /\ RunConsistent(SucceededRun(r)) /\ RunConsistent(FailedRun(r))
           /\ RunConsistent(EndedRun(r)) /\ RunConsistent(OlderRun(r))
           /\ RunConsistent([r EXCEPT !.ranAt = 0])
           /\ RunConsistent([r EXCEPT !.milestoneAt = 0])
           /\ RunConsistent([r EXCEPT !.errorAt = 0])
           /\ \A cfg \in JobConfigs : RunConsistent([r EXCEPT !.job = cfg])
<1>1. ASSUME NEW remove \in BOOLEAN PROVE RunConsistent(StoppedRun(r, remove))
  BY DEF RunConsistent, StoppedRun, IsAlreadyStopping, Run, Never
<1>2. ASSUME NEW e \in Executors, NEW n \in Nat, ~r.stopping
      PROVE  RunConsistent(StartedRun(r, e, n))
  BY <1>2, IDsAssumption DEF RunConsistent, StartedRun, Run, Never
<1>3. RunConsistent(SucceededRun(r)) /\ RunConsistent(FailedRun(r)) /\ RunConsistent(EndedRun(r))
  BY DEF RunConsistent, SucceededRun, FailedRun, EndedRun, Run, Never
<1>4. RunConsistent(OlderRun(r))
  <2>1. /\ OlderRun(r).startedAt = Never <=> r.startedAt = Never
        /\ OlderRun(r).stoppedAt = r.stoppedAt /\ OlderRun(r).executor = r.executor
        /\ OlderRun(r).stopping = r.stopping /\ OlderRun(r).starting = r.starting
        /\ OlderRun(r).removing = r.removing
    BY OlderRunType DEF OlderRun, Run
  <2>2. QED BY <2>1 DEF RunConsistent
<1>5. /\ RunConsistent([r EXCEPT !.ranAt = 0])
      /\ RunConsistent([r EXCEPT !.milestoneAt = 0])
      /\ RunConsistent([r EXCEPT !.errorAt = 0])
      /\ \A cfg \in JobConfigs : RunConsistent([r EXCEPT !.job = cfg])
  BY DEF RunConsistent, Run
<1>6. QED BY <1>1, <1>2, <1>3, <1>4, <1>5

\* Ranking keeps runs consistent.
LEMMA ConsistentRanked ==
    ASSUME NEW rs, DOMAIN rs \subseteq Jobs,
           \A j \in DOMAIN rs : rs[j] \in Run /\ RunConsistent(rs[j])
    PROVE  \A j \in DOMAIN rs : RunConsistent(Ranked(rs)[j])
<1>1. ASSUME NEW r \in Run, RunConsistent(r), NEW n \in Nat
      PROVE  RunConsistent([r EXCEPT !.triedToRunIndex = n])
  BY <1>1 DEF RunConsistent, Run
<1>2. ASSUME NEW j \in DOMAIN rs PROVE RunConsistent(Ranked(rs)[j])
  <2>1. PICK n \in Nat : Ranked(rs)[j] = [rs[j] EXCEPT !.triedToRunIndex = n]
    BY RankedRuns
  <2>2. QED BY <1>1, <2>1
<1>3. QED BY <1>2

LEMMA RunsConsistentInit == Init => RunsConsistent
<1> SUFFICES ASSUME Init PROVE RunsConsistent
  OBVIOUS
<1>1. ASSUME NEW cfg, NEW n PROVE RunConsistent([NewRun(cfg) EXCEPT !.triedToRunIndex = n])
  BY DEF RunConsistent, NewRun, Never
<1>2. PICK f \in InitialJobs :
         \E rank \in Bijection(DOMAIN f, 1..Cardinality(DOMAIN f)) :
           runs = [j \in DOMAIN f |-> [NewRun(f[j]) EXCEPT !.triedToRunIndex = rank[j]]]
  BY DEF Init
<1>3. QED BY <1>1, <1>2, SMTT(30) DEF RunsConsistent, Known

LEMMA RunsConsistentStep == TypeOK /\ RunsConsistent /\ [Next]_vars => RunsConsistent'
<1> SUFFICES ASSUME TypeOK, RunsConsistent, [Next]_vars PROVE RunsConsistent'
  OBVIOUS
<1> USE DEF books
<1>1. RunsTypeOK /\ \A j \in Known : runs[j] \in Run /\ RunConsistent(runs[j])
  BY RunWriteTypes DEF TypeOK, RunsConsistent
<1>2. CASE UNCHANGED runs
  BY <1>2 DEF RunsConsistent, Known
<1>3. ASSUME NEW j \in Known, NEW r \in Run, RunConsistent(r), runs' = WithRun(j, r)
      PROVE  RunsConsistent'
  BY <1>1, <1>3 DEF RunsConsistent, WithRun, Known
<1>4. ASSUME NEW js, runs' = WithoutRuns(js) PROVE RunsConsistent'
  <2> DEFINE rest == [j \in Known \ js |-> runs[j]]
  <2>1. DOMAIN rest \subseteq Jobs /\ \A j \in DOMAIN rest : rest[j] \in Run /\ RunConsistent(rest[j])
    BY <1>1 DEF RunsTypeOK, Known
  <2>2. runs' = Ranked(rest)
    BY <1>4 DEF WithoutRuns
  <2> HIDE DEF rest
  <2>3. QED BY <2>1, <2>2, ConsistentRanked, RankedRuns DEF RunsConsistent, Known
<1>5. ASSUME NEW js \in SUBSET Known, NEW remove \in BOOLEAN, StopJobs(js, remove)
      PROVE  RunsConsistent'
  BY <1>1, <1>5, ConsistentWrites DEF StopJobs, RunsConsistent, Known
<1>6. ASSUME NEW j \in Known, NEW r \in Run, RunConsistent(r), runs' = Ranked(WithRun(j, Tried(r)))
      PROVE  RunsConsistent'
  <2>1. Cardinality(Known) + 1 \in Nat
    BY <1>1, IDsAssumption, FS_Subset, FS_CardinalityType DEF RunsTypeOK, Known
  <2>2. Tried(r) \in Run /\ RunConsistent(Tried(r))
    BY <1>6, <2>1 DEF Tried, RunConsistent, Run
  <2>3. /\ DOMAIN WithRun(j, Tried(r)) = Known
        /\ \A k \in Known : /\ WithRun(j, Tried(r))[k] \in Run
                            /\ RunConsistent(WithRun(j, Tried(r))[k])
    BY <1>1, <2>2 DEF WithRun, Known
  <2>4. QED BY <1>1, <1>6, <2>3, ConsistentRanked, RankedRuns DEF RunsTypeOK, RunsConsistent, Known
<1>7. CASE ClientStep
  <2>1. CASE Stop
    <3>1. PICK js \in SUBSET Known : runs' = WithoutRuns(js)
      BY <2>1 DEF Stop
    <3>2. QED BY <3>1, <1>4
  <2>2. ASSUME NEW j \in Jobs, RemoveJob(j) \/ StopJob(j) PROVE RunsConsistent'
    BY <2>2, <1>5 DEF RemoveJob, StopJob, RequestStop
  <2>3. ASSUME NEW j \in Jobs, JobIsRunning(j) \/ SetJobHasMilestoneNow(j) \/ SetJobHasError(j)
        PROVE  RunsConsistent'
    <3>1. PICK r \in Run : j \in Known /\ RunConsistent(r) /\ runs' = WithRun(j, r)
      BY <2>3, <1>1, RunWriteTypes, ConsistentWrites
         DEF JobIsRunning, SetJobHasMilestoneNow, SetJobHasError
    <3>2. QED BY <3>1, <1>3
  <2>4. ASSUME NEW j \in Jobs, NEW cfg \in JobConfigs, ChangeJob(j, cfg) PROVE RunsConsistent'
    <3>1. CASE j \in Known
      BY <2>4, <3>1, <1>1, <1>3, RunWriteTypes, ConsistentWrites DEF ChangeJob
    <3>2. CASE j \notin Known
      <4> DEFINE more == [k \in Known \cup {j} |-> IF k = j THEN NewRun(cfg) ELSE runs[k]]
      <4>1. runs' = Ranked(more)
        BY <2>4, <3>2 DEF ChangeJob
      <4>2. NewRun(cfg) \in Run /\ RunConsistent(NewRun(cfg))
        BY DEF NewRun, Run, Age, RunConsistent, Never
      <4>3. DOMAIN more \subseteq Jobs /\ \A k \in DOMAIN more : more[k] \in Run /\ RunConsistent(more[k])
        BY <4>2, <1>1 DEF RunsTypeOK, Known
      <4> HIDE DEF more
      <4>4. QED BY <4>1, <4>3, ConsistentRanked, RankedRuns DEF RunsConsistent, Known
    <3>3. QED BY <3>1, <3>2
  <2>5. ASSUME NEW e \in Executors, NEW js \in SUBSET Jobs, SetJobsOnExecutor(e, js)
        PROVE  RunsConsistent'
    BY <2>5, <1>5 DEF SetJobsOnExecutor
  <2>6. QED BY <1>7, <1>2, <2>1, <2>2, <2>3, <2>4, <2>5
            DEF ClientStep, Start, RemoveExecutor, FlushExecutorJobs, SetExecutorIsAlive,
                ChangeExecutor, SetTotalMaxJobCount
<1>8. CASE CallReturns
  <2>1. \/ UNCHANGED runs
        \/ \E j \in Known : \E r \in Run : RunConsistent(r) /\ runs' = WithRun(j, r)
    BY <1>8, <1>1, RunWriteTypes, ConsistentWrites
       DEF CallReturns, StartSucceeds, StartFails, StopSucceeds, StopFails
  <2>2. QED BY <2>1, <1>2, <1>3
<1>9. CASE InternalStep
  <2>1. \/ UNCHANGED runs
        \/ \E js : runs' = WithoutRuns(js)
        \/ \E j \in Known : \E r \in Run : RunConsistent(r) /\ runs' = WithRun(j, r)
    BY <1>9, <1>1, RunWriteTypes, ConsistentWrites
       DEF InternalStep, EndRun, RunsAfterEndOf, SetJobRunning, TakeRefresh, TimerFires
  <2>2. QED BY <2>1, <1>2, <1>3, <1>4
<1>10. CASE Round
  <2>1. ASSUME NEW j \in Jobs, RoundStops(j) \/ RoundBalances(j) PROVE RunsConsistent'
    <3>1. j \in Known /\ \E remove \in BOOLEAN : StopJobs({j}, remove)
      BY <2>1 DEF RoundStops, RoundBalances, ToStop, Considered, TypeOK
    <3>2. QED BY <3>1, <1>5
  <2>2. ASSUME NEW j \in Jobs, RoundFindsNoExecutor(j) PROVE RunsConsistent'
    <3>1. j \in Known /\ runs' = Ranked(WithRun(j, Tried(runs[j])))
      BY <2>2 DEF RoundFindsNoExecutor, RoundTries, OldestRuns, Startable, Considered
    <3>2. QED BY <3>1, <1>1, <1>6
  <2>3. ASSUME NEW j \in Jobs, NEW e \in Executors, RoundStarts(j, e) PROVE RunsConsistent'
    <3>1. /\ j \in Known /\ ~runs[j].stopping /\ e \in DOMAIN executors
          /\ runs' = Ranked(WithRun(j, Tried(StartedRun(runs[j], e, executors[e].changedCount))))
      BY <2>3 DEF RoundStarts, RoundTries, OldestRuns, Startable, Considered, SuitableExecutors,
                  RunnableExecutors
    <3>2. executors[e].changedCount \in Nat
      BY <3>1 DEF TypeOK, ExecutorsTypeOK, Executor
    <3>3. /\ StartedRun(runs[j], e, executors[e].changedCount) \in Run
          /\ RunConsistent(StartedRun(runs[j], e, executors[e].changedCount))
      BY <3>1, <3>2, <1>1, RunTypes, ConsistentWrites
    <3>4. QED BY <3>1, <3>3, <1>6
  <2>4. CASE RoundEnds
    BY <2>4, <1>2 DEF RoundEnds
  <2>5. QED BY <1>10, <2>1, <2>2, <2>3, <2>4 DEF Round
<1>11. CASE Tick
  BY <1>11, <1>1, ConsistentWrites DEF Tick, RunsConsistent, Known
<1>12. CASE UNCHANGED vars
  BY <1>12, <1>2 DEF vars
<1>13. QED BY <1>7, <1>8, <1>9, <1>10, <1>11, <1>12 DEF Next

\* The flags and times of a run agree with each other, always.
THEOREM RunsAreConsistent == Spec => []RunsConsistent
<1>1. QED BY TypeCorrect, RunsConsistentInit, RunsConsistentStep, PTL DEF Spec

-----------------------------------------------------------------------------
(* Runs and the calls about them *)

\* Ranking leaves the flags and the executor of a run alone.
LEMMA RankedFlags ==
    ASSUME NEW rs, DOMAIN rs \subseteq Jobs, \A j \in DOMAIN rs : rs[j] \in Run
    PROVE  /\ DOMAIN Ranked(rs) = DOMAIN rs
           /\ \A j \in DOMAIN rs : /\ Ranked(rs)[j].starting = rs[j].starting
                                  /\ Ranked(rs)[j].stopping = rs[j].stopping
                                  /\ Ranked(rs)[j].executor = rs[j].executor
<1>1. ASSUME NEW r \in Run, NEW n \in Nat
      PROVE  /\ [r EXCEPT !.triedToRunIndex = n].starting = r.starting
             /\ [r EXCEPT !.triedToRunIndex = n].stopping = r.stopping
             /\ [r EXCEPT !.triedToRunIndex = n].executor = r.executor
  BY DEF Run
<1>2. ASSUME NEW j \in DOMAIN rs
      PROVE  /\ Ranked(rs)[j].starting = rs[j].starting
             /\ Ranked(rs)[j].stopping = rs[j].stopping
             /\ Ranked(rs)[j].executor = rs[j].executor
  <2>1. PICK n \in Nat : Ranked(rs)[j] = [rs[j] EXCEPT !.triedToRunIndex = n]
    BY RankedRuns
  <2>2. QED BY <1>1, <2>1
<1>3. QED BY <1>2, RankedRuns

\* The runs that are starting, and those being stopped, that a step leaves.
NoNewStarting ==
    \A j \in DOMAIN runs' : runs'[j].starting =>
        j \in Known /\ runs[j].starting /\ runs'[j].executor = runs[j].executor

NoNewStopping ==
    \A j \in DOMAIN runs' : runs'[j].stopping => j \in Known /\ runs[j].stopping

\* A removal makes no run start or stop.
LEMMA FlagsWithoutRuns ==
    ASSUME RunsTypeOK, NEW js, runs' = WithoutRuns(js)
    PROVE  NoNewStarting /\ NoNewStopping
<1> DEFINE rest == [j \in Known \ js |-> runs[j]]
<1>1. DOMAIN rest \subseteq Jobs /\ \A j \in DOMAIN rest : rest[j] \in Run
  BY DEF RunsTypeOK, Known
<1>2. runs' = Ranked(rest)
  BY DEF WithoutRuns
<1>3. DOMAIN rest = Known \ js /\ \A j \in DOMAIN rest : rest[j] = runs[j]
  OBVIOUS
<1> HIDE DEF rest
<1>4. QED BY <1>1, <1>2, <1>3, RankedFlags DEF NoNewStarting, NoNewStopping

\* A removal removes.
LEMMA WithoutRunsDomain ==
    ASSUME RunsTypeOK, NEW js
    PROVE  DOMAIN WithoutRuns(js) = Known \ js
  BY RankedRuns DEF WithoutRuns, RunsTypeOK, Known

\* A job that is added is neither starting nor being stopped.
LEMMA FlagsChangeJob ==
    ASSUME RunsTypeOK, NEW j \in Jobs, NEW cfg \in JobConfigs, ChangeJob(j, cfg)
    PROVE  NoNewStarting /\ NoNewStopping
<1>1. CASE j \in Known
  <2>1. runs[j] \in Run
    BY <1>1, RunWriteTypes
  <2>2. /\ [runs[j] EXCEPT !.job = cfg].starting = runs[j].starting
        /\ [runs[j] EXCEPT !.job = cfg].stopping = runs[j].stopping
        /\ [runs[j] EXCEPT !.job = cfg].executor = runs[j].executor
    BY <2>1 DEF Run
  <2>3. QED BY <1>1, <2>2 DEF ChangeJob, WithRun, Known, NoNewStarting, NoNewStopping
<1>2. CASE j \notin Known
  <2> DEFINE more == [k \in Known \cup {j} |-> IF k = j THEN NewRun(cfg) ELSE runs[k]]
  <2>1. runs' = Ranked(more)
    BY <1>2 DEF ChangeJob
  <2>2. NewRun(cfg) \in Run /\ ~NewRun(cfg).starting /\ ~NewRun(cfg).stopping
    BY DEF NewRun, Run, Age
  <2>3. DOMAIN more \subseteq Jobs /\ \A k \in DOMAIN more : more[k] \in Run
    BY <2>2 DEF RunsTypeOK, Known
  <2>4. /\ DOMAIN more = Known \cup {j} /\ more[j] = NewRun(cfg)
        /\ \A k \in Known : more[k] = runs[k]
    BY <1>2
  <2> HIDE DEF more
  <2>5. QED BY <2>1, <2>2, <2>3, <2>4, RankedFlags DEF NoNewStarting, NoNewStopping
<1>3. QED BY <1>1, <1>2

\* A round that finds no executor changes a rank only; one that starts a run
\* makes that run, which was not being stopped, starting on its executor.
LEMMA FlagsTried ==
    ASSUME RunsTypeOK, NEW j \in Known, NEW r \in Run, runs' = Ranked(WithRun(j, Tried(r)))
    PROVE  /\ DOMAIN runs' = Known
           /\ \A k \in Known : LET was == IF k = j THEN r ELSE runs[k]
                              IN  /\ runs'[k].starting = was.starting
                                  /\ runs'[k].stopping = was.stopping
                                  /\ runs'[k].executor = was.executor
<1>1. Cardinality(Known) + 1 \in Nat
  BY IDsAssumption, FS_Subset, FS_CardinalityType DEF RunsTypeOK, Known
<1>2. /\ Tried(r) \in Run /\ Tried(r).starting = r.starting
      /\ Tried(r).stopping = r.stopping /\ Tried(r).executor = r.executor
  BY <1>1 DEF Tried, Run
<1>3. /\ DOMAIN WithRun(j, Tried(r)) = Known
      /\ \A k \in Known : /\ WithRun(j, Tried(r))[k] \in Run
                          /\ WithRun(j, Tried(r))[k] = IF k = j THEN Tried(r) ELSE runs[k]
  BY <1>2 DEF WithRun, RunsTypeOK, Known
<1>4. QED BY <1>2, <1>3, RankedFlags DEF RunsTypeOK, Known

\* Time changes no flag.
LEMMA FlagsTick ==
    ASSUME RunsTypeOK, Tick
    PROVE  NoNewStarting /\ NoNewStopping
<1>1. ASSUME NEW r \in Run
      PROVE  /\ OlderRun(r).starting = r.starting /\ OlderRun(r).stopping = r.stopping
             /\ OlderRun(r).executor = r.executor
  BY DEF OlderRun, Run
<1>2. QED BY <1>1, RunWriteTypes DEF Tick, NoNewStarting, NoNewStopping, Known

\* A write to one run that sets neither flag and leaves the executor makes no
\* run start or stop.
LEMMA FlagsWithRun ==
    ASSUME RunsTypeOK, NEW j \in Known, NEW r, runs' = WithRun(j, r),
           r.starting => runs[j].starting /\ r.executor = runs[j].executor,
           r.stopping => runs[j].stopping
    PROVE  NoNewStarting /\ NoNewStopping
  BY DEF WithRun, Known, RunsTypeOK, NoNewStarting, NoNewStopping

\* The flags of what the goroutines and handlers write to one run
LEMMA WrittenFlags ==
    ASSUME NEW r \in Run
    PROVE  /\ ~SucceededRun(r).starting /\ SucceededRun(r).stopping = r.stopping
           /\ ~FailedRun(r).starting /\ FailedRun(r).stopping = r.stopping
           /\ ~EndedRun(r).starting /\ ~EndedRun(r).stopping
           /\ \A w \in {[r EXCEPT !.ranAt = 0], [r EXCEPT !.milestoneAt = 0],
                       [r EXCEPT !.errorAt = 0]} :
                 w.starting = r.starting /\ w.stopping = r.stopping /\ w.executor = r.executor
  BY DEF SucceededRun, FailedRun, EndedRun, Run

LEMMA StartingHasCallInit == Init => StartingHasCall
<1> SUFFICES ASSUME Init PROVE StartingHasCall
  OBVIOUS
<1>1. ASSUME NEW cfg, NEW n PROVE ~[NewRun(cfg) EXCEPT !.triedToRunIndex = n].starting
  BY DEF NewRun
<1>2. PICK f \in InitialJobs :
         \E rank \in Bijection(DOMAIN f, 1..Cardinality(DOMAIN f)) :
           runs = [j \in DOMAIN f |-> [NewRun(f[j]) EXCEPT !.triedToRunIndex = rank[j]]]
  BY DEF Init
<1>3. QED BY <1>1, <1>2, ZenonT(40) DEF StartingHasCall, Known

\* A step other than a start, and other than the return of a start call, makes no
\* run start and leaves the start calls alone.
LEMMA StartingHasCallStep ==
    TypeOK /\ RunsConsistent /\ StartingHasCall /\ [Next]_vars => StartingHasCall'
<1> SUFFICES ASSUME TypeOK, RunsConsistent, StartingHasCall, [Next]_vars PROVE StartingHasCall'
  OBVIOUS
<1> USE DEF books, calls
<1>1. RunsTypeOK /\ CallsTypeOK /\ \A j \in Known : runs[j] \in Run /\ RunConsistent(runs[j])
  BY RunWriteTypes DEF TypeOK, RunsConsistent
<1>2. ASSUME NoNewStarting, UNCHANGED startCalls PROVE StartingHasCall'
  BY <1>2 DEF NoNewStarting, StartingHasCall, Known
<1>3. ASSUME UNCHANGED runs PROVE NoNewStarting
  BY <1>3 DEF NoNewStarting, Known
<1>4. ASSUME NEW js, NEW remove \in BOOLEAN, StopJobs(js, remove) PROVE NoNewStarting
  <2>1. ASSUME NEW r \in Run, RunConsistent(r) PROVE ~StoppedRun(r, remove).starting
    BY <2>1 DEF StoppedRun, IsAlreadyStopping, RunConsistent, Run
  <2>2. QED BY <1>1, <1>4, <2>1 DEF StopJobs, NoNewStarting, Known
<1>5. CASE ClientStep
  <2>1. CASE Stop
    <3>1. PICK js \in SUBSET Known : runs' = WithoutRuns(js)
      BY <2>1 DEF Stop
    <3>2. QED BY <3>1, <2>1, <1>1, <1>2, FlagsWithoutRuns DEF Stop
  <2>2. ASSUME NEW j \in Jobs, RemoveJob(j) \/ StopJob(j) PROVE StartingHasCall'
    BY <2>2, <1>2, <1>4 DEF RemoveJob, StopJob, RequestStop
  <2>3. ASSUME NEW j \in Jobs, JobIsRunning(j) \/ SetJobHasMilestoneNow(j) \/ SetJobHasError(j)
        PROVE  StartingHasCall'
    <3>1. PICK r : /\ j \in Known /\ runs' = WithRun(j, r)
                   /\ r.starting = runs[j].starting /\ r.stopping = runs[j].stopping
                   /\ r.executor = runs[j].executor
      BY <2>3, <1>1, WrittenFlags DEF JobIsRunning, SetJobHasMilestoneNow, SetJobHasError
    <3>2. NoNewStarting
      BY <3>1, <1>1, FlagsWithRun
    <3>3. QED BY <2>3, <3>2, <1>2 DEF JobIsRunning, SetJobHasMilestoneNow, SetJobHasError
  <2>4. ASSUME NEW j \in Jobs, NEW cfg \in JobConfigs, ChangeJob(j, cfg) PROVE StartingHasCall'
    BY <2>4, <1>1, <1>2, FlagsChangeJob DEF ChangeJob
  <2>5. ASSUME NEW e \in Executors, NEW js \in SUBSET Jobs, SetJobsOnExecutor(e, js)
        PROVE  StartingHasCall'
    BY <2>5, <1>2, <1>4 DEF SetJobsOnExecutor
  <2>6. QED BY <1>5, <1>2, <1>3, <2>1, <2>2, <2>3, <2>4, <2>5
            DEF ClientStep, Start, RemoveExecutor, FlushExecutorJobs, SetExecutorIsAlive,
                ChangeExecutor, SetTotalMaxJobCount
<1>6. ASSUME NEW j \in Jobs, NEW e \in Executors, StartSucceeds(j, e) \/ StartFails(j, e)
      PROVE  StartingHasCall'
  <2>1. \A k \in Jobs \ {j} : startCalls'[k] = startCalls[k]
    BY <1>1, <1>6 DEF StartSucceeds, StartFails, CallsTypeOK
  <2>2. CASE j \in Known
    <3>1. PICK r : runs' = WithRun(j, r) /\ ~r.starting
      BY <1>1, <1>6, <2>2, WrittenFlags DEF StartSucceeds, StartFails
    <3>2. QED BY <1>1, <2>1, <2>2, <3>1 DEF WithRun, StartingHasCall, Known, RunsTypeOK
  <2>3. CASE j \notin Known
    <3>1. runs' = runs
      BY <1>6, <2>3 DEF StartSucceeds, StartFails
    <3>2. QED BY <1>1, <2>1, <2>3, <3>1 DEF StartingHasCall, Known, RunsTypeOK
  <2>4. QED BY <2>2, <2>3
<1>7. ASSUME NEW j \in Jobs, NEW e \in Executors \cup {NoExecutor},
             StopSucceeds(j, e) \/ StopFails(j, e)
      PROVE  StartingHasCall'
  <2>1. UNCHANGED runs \/ (j \in Known /\ runs' = WithRun(j, [runs[j] EXCEPT !.errorAt = 0]))
    BY <1>7 DEF StopSucceeds, StopFails
  <2>2. NoNewStarting
    <3>1. CASE j \in Known /\ runs' = WithRun(j, [runs[j] EXCEPT !.errorAt = 0])
      <4>1. PICK r : /\ runs' = WithRun(j, r) /\ r.starting = runs[j].starting
                     /\ r.stopping = runs[j].stopping /\ r.executor = runs[j].executor
        BY <3>1, <1>1, WrittenFlags
      <4>2. QED BY <3>1, <4>1, <1>1, FlagsWithRun
    <3>2. QED BY <2>1, <3>1, <1>3
  <2>3. QED BY <1>7, <2>2, <1>2 DEF StopSucceeds, StopFails
<1>8. CASE InternalStep
  <2>1. UNCHANGED startCalls
    BY <1>8 DEF InternalStep, EndRun, SetJobRunning, TakeRefresh, TimerFires
  <2>2. ASSUME NEW j \in Jobs, EndRun(j) PROVE NoNewStarting
    <3>1. CASE j \in Known /\ runs' = WithRun(j, EndedRun(runs[j]))
      BY <3>1, <1>1, WrittenFlags, FlagsWithRun
    <3>2. CASE runs' = WithoutRuns({j})
      BY <3>2, <1>1, FlagsWithoutRuns
    <3>3. QED BY <2>2, <3>1, <3>2, <1>3 DEF EndRun, RunsAfterEndOf
  <2>3. ASSUME NEW j \in Jobs, SetJobRunning(j) PROVE NoNewStarting
    <3>1. CASE j \in Known /\ runs' = WithRun(j, [runs[j] EXCEPT !.ranAt = 0])
      <4>1. PICK r : /\ runs' = WithRun(j, r) /\ r.starting = runs[j].starting
                     /\ r.stopping = runs[j].stopping /\ r.executor = runs[j].executor
        BY <3>1, <1>1, WrittenFlags
      <4>2. QED BY <3>1, <4>1, <1>1, FlagsWithRun
    <3>2. QED BY <2>3, <3>1, <1>3 DEF SetJobRunning
  <2>4. QED BY <1>8, <2>1, <2>2, <2>3, <1>2, <1>3 DEF InternalStep, TakeRefresh, TimerFires
<1>9. CASE Round
  <2>1. ASSUME NEW j \in Jobs, RoundStops(j) \/ RoundBalances(j) PROVE StartingHasCall'
    <3>1. UNCHANGED startCalls /\ \E remove \in BOOLEAN : StopJobs({j}, remove)
      BY <2>1 DEF RoundStops, RoundBalances, TypeOK
    <3>2. QED BY <3>1, <1>2, <1>4
  <2>2. ASSUME NEW j \in Jobs, RoundFindsNoExecutor(j) PROVE StartingHasCall'
    <3>1. j \in Known /\ runs' = Ranked(WithRun(j, Tried(runs[j]))) /\ UNCHANGED startCalls
      BY <2>2 DEF RoundFindsNoExecutor, RoundTries, OldestRuns, Startable, Considered
    <3>2. NoNewStarting
      BY <3>1, <1>1, FlagsTried DEF NoNewStarting
    <3>3. QED BY <3>1, <3>2, <1>2
  <2>3. ASSUME NEW j \in Jobs, NEW e \in Executors, RoundStarts(j, e) PROVE StartingHasCall'
    <3> DEFINE r == StartedRun(runs[j], e, executors[e].changedCount)
    <3>1. j \in Known /\ e \in DOMAIN executors /\ runs' = Ranked(WithRun(j, Tried(r)))
      BY <2>3 DEF RoundStarts, RoundTries, OldestRuns, Startable, Considered, SuitableExecutors,
                  RunnableExecutors
    <3>2. executors[e].changedCount \in Nat
      BY <3>1 DEF TypeOK, ExecutorsTypeOK, Executor
    <3>3. r \in Run /\ r.executor = e
      <4>1. r \in Run
        BY <3>1, <3>2, <1>1, RunTypes
      <4>2. QED BY <3>1, <1>1, <4>1 DEF StartedRun, Run
    <3>4. startCalls'[j][e] > 0 /\ \A k \in Jobs \ {j} : startCalls'[k] = startCalls[k]
      BY <2>3, <1>1 DEF RoundStarts, CallsTypeOK
    <3> HIDE DEF r
    <3>5. /\ DOMAIN runs' = Known /\ runs'[j].executor = e
          /\ \A k \in Known \ {j} : /\ runs'[k].starting = runs[k].starting
                                    /\ runs'[k].executor = runs[k].executor
      BY <3>1, <3>3, <1>1, FlagsTried
    <3>6. QED BY <3>4, <3>5, <1>1 DEF StartingHasCall, Known, RunsTypeOK
  <2>4. CASE RoundEnds
    BY <2>4, <1>2, <1>3 DEF RoundEnds
  <2>5. QED BY <1>9, <2>1, <2>2, <2>3, <2>4 DEF Round
<1>10. CASE Tick
  BY <1>10, <1>1, <1>2, FlagsTick DEF Tick
<1>11. CASE UNCHANGED vars
  BY <1>11, <1>2, <1>3 DEF vars
<1>12. QED BY <1>5, <1>6, <1>7, <1>8, <1>9, <1>10, <1>11 DEF Next, CallReturns

\* A run flagged as starting has its start call in progress, always.
THEOREM StartingRunsHaveCalls == Spec => []StartingHasCall
<1>1. QED BY TypeCorrect, RunsAreConsistent, StartingHasCallInit, StartingHasCallStep, PTL DEF Spec

LEMMA StoppingHasEnderInit == Init => StoppingHasEnder
<1> SUFFICES ASSUME Init PROVE StoppingHasEnder
  OBVIOUS
<1>1. ASSUME NEW cfg, NEW n PROVE ~[NewRun(cfg) EXCEPT !.triedToRunIndex = n].stopping
  BY DEF NewRun
<1>2. PICK f \in InitialJobs :
         \E rank \in Bijection(DOMAIN f, 1..Cardinality(DOMAIN f)) :
           runs = [j \in DOMAIN f |-> [NewRun(f[j]) EXCEPT !.triedToRunIndex = rank[j]]]
  BY DEF Init
<1>3. \A j \in Known : ~runs[j].stopping
  BY <1>1, <1>2, ZenonT(40) DEF Known
<1>4. QED BY <1>3 DEF StoppingHasEnder

\* A stop adds the goroutine that will end the run, unless there is one; that
\* goroutine's call turns into its endRun message; and endRun, which takes the
\* message, resets or removes the run.
LEMMA StoppingHasEnderStep ==
    TypeOK /\ RunsConsistent /\ StoppingHasEnder /\ [Next]_vars => StoppingHasEnder'
<1> SUFFICES ASSUME TypeOK, RunsConsistent, StoppingHasEnder, [Next]_vars PROVE StoppingHasEnder'
  OBVIOUS
<1> USE DEF books, flags, calls, msgs
<1>1. RunsTypeOK /\ CallsTypeOK /\ \A j \in Known : runs[j] \in Run /\ RunConsistent(runs[j])
  BY RunWriteTypes DEF TypeOK, RunsConsistent
<1>2. ASSUME NoNewStopping, UNCHANGED <<stopped, stopCalls, endRuns>> PROVE StoppingHasEnder'
  BY <1>2 DEF NoNewStopping, StoppingHasEnder, HasStopCall, Known
<1>3. ASSUME UNCHANGED runs PROVE NoNewStopping
  BY <1>3 DEF NoNewStopping, Known
<1>4. ASSUME NEW js \in SUBSET Known, NEW remove \in BOOLEAN, StopJobs(js, remove),
             UNCHANGED <<stopped, endRuns>>
      PROVE  StoppingHasEnder'
  <2> SUFFICES ASSUME ~stopped, NEW k \in Known, runs'[k].stopping
               PROVE  endRuns[k] > 0 \/ \E e \in Executors \cup {NoExecutor} : stopCalls'[k][e] > 0
    BY <1>4 DEF StoppingHasEnder, HasStopCall, StopJobs, Known
  <2>1. k \in Jobs /\ stopCalls[k] \in [Executors \cup {NoExecutor} -> Nat]
    BY <1>1 DEF RunsTypeOK, CallsTypeOK, Known
  <2>2. CASE k \in js /\ ~IsAlreadyStopping(runs[k])
    <3>1. runs[k].executor \in Executors \cup {NoExecutor}
      BY <1>1 DEF Run
    <3>2. stopCalls'[k] = [stopCalls[k] EXCEPT ![runs[k].executor] = @ + 1]
      BY <1>4, <2>1, <2>2 DEF StopJobs
    <3>3. stopCalls'[k][runs[k].executor] > 0
      BY <2>1, <3>1, <3>2
    <3>4. QED BY <3>1, <3>3
  <2>3. CASE ~(k \in js /\ ~IsAlreadyStopping(runs[k]))
    <3>1. stopCalls'[k] = stopCalls[k]
      BY <1>4, <2>1, <2>3 DEF StopJobs
    <3>2. runs[k].stopping
      BY <1>4, <2>3 DEF StopJobs, IsAlreadyStopping
    <3>3. QED BY <3>1, <3>2 DEF StoppingHasEnder, HasStopCall
  <2>4. QED BY <2>2, <2>3
<1>5. CASE ClientStep
  <2>1. CASE Stop
    BY <2>1 DEF Stop, StoppingHasEnder
  <2>2. ASSUME NEW j \in Jobs, RemoveJob(j) \/ StopJob(j) PROVE StoppingHasEnder'
    BY <2>2, <1>4 DEF RemoveJob, StopJob, RequestStop
  <2>3. ASSUME NEW j \in Jobs, JobIsRunning(j) \/ SetJobHasMilestoneNow(j) \/ SetJobHasError(j)
        PROVE  StoppingHasEnder'
    <3>1. PICK r : /\ j \in Known /\ runs' = WithRun(j, r)
                   /\ r.starting = runs[j].starting /\ r.stopping = runs[j].stopping
                   /\ r.executor = runs[j].executor
      BY <2>3, <1>1, WrittenFlags DEF JobIsRunning, SetJobHasMilestoneNow, SetJobHasError
    <3>2. NoNewStopping
      BY <3>1, <1>1, FlagsWithRun
    <3>3. QED BY <2>3, <3>2, <1>2 DEF JobIsRunning, SetJobHasMilestoneNow, SetJobHasError
  <2>4. ASSUME NEW j \in Jobs, NEW cfg \in JobConfigs, ChangeJob(j, cfg) PROVE StoppingHasEnder'
    BY <2>4, <1>1, <1>2, FlagsChangeJob DEF ChangeJob
  <2>5. ASSUME NEW e \in Executors, NEW js \in SUBSET Jobs, SetJobsOnExecutor(e, js)
        PROVE  StoppingHasEnder'
    BY <2>5, <1>4 DEF SetJobsOnExecutor
  <2>6. QED BY <1>5, <1>2, <1>3, <2>1, <2>2, <2>3, <2>4, <2>5
            DEF ClientStep, Start, RemoveExecutor, FlushExecutorJobs, SetExecutorIsAlive,
                ChangeExecutor, SetTotalMaxJobCount
<1>6. ASSUME NEW j \in Jobs, NoNewStopping, UNCHANGED <<stopped, stopCalls>>,
             endRuns' = [endRuns EXCEPT ![j] = @ + 1]
      PROVE  StoppingHasEnder'
  <2>1. \A k \in Jobs : endRuns[k] > 0 => endRuns'[k] > 0
    BY <1>6 DEF TypeOK
  <2>2. QED BY <1>1, <1>6, <2>1
            DEF NoNewStopping, StoppingHasEnder, HasStopCall, Known, RunsTypeOK
<1>7. ASSUME NEW j \in Jobs, NEW e \in Executors, StartSucceeds(j, e) \/ StartFails(j, e)
      PROVE  StoppingHasEnder'
  <2>1. NoNewStopping
    <3>1. CASE UNCHANGED runs
      BY <3>1, <1>3
    <3>2. CASE j \in Known /\ runs' \in {WithRun(j, SucceededRun(runs[j])), WithRun(j, FailedRun(runs[j]))}
      BY <3>2, <1>1, WrittenFlags, FlagsWithRun
    <3>3. QED BY <1>7, <3>1, <3>2 DEF StartSucceeds, StartFails
  <2>2. UNCHANGED <<stopped, stopCalls>>
        /\ (UNCHANGED endRuns \/ endRuns' = [endRuns EXCEPT ![j] = @ + 1])
    BY <1>7 DEF StartSucceeds, StartFails
  <2>3. QED BY <2>1, <2>2, <1>2, <1>6
<1>8. ASSUME NEW j \in Jobs, NEW e \in Executors \cup {NoExecutor},
             StopSucceeds(j, e) \/ StopFails(j, e)
      PROVE  StoppingHasEnder'
  <2>1. NoNewStopping
    <3>1. CASE j \in Known /\ runs' = WithRun(j, [runs[j] EXCEPT !.errorAt = 0])
      <4>1. PICK r : /\ runs' = WithRun(j, r) /\ r.starting = runs[j].starting
                     /\ r.stopping = runs[j].stopping /\ r.executor = runs[j].executor
        BY <3>1, <1>1, WrittenFlags
      <4>2. QED BY <3>1, <4>1, <1>1, FlagsWithRun
    <3>2. QED BY <1>8, <3>1, <1>3 DEF StopSucceeds, StopFails
  <2>2. /\ endRuns'[j] > 0 /\ UNCHANGED stopped
        /\ \A k \in Jobs \ {j} : endRuns'[k] = endRuns[k] /\ stopCalls'[k] = stopCalls[k]
    BY <1>1, <1>8 DEF StopSucceeds, StopFails, TypeOK, CallsTypeOK
  <2>3. QED BY <2>1, <2>2, <1>1
            DEF NoNewStopping, StoppingHasEnder, HasStopCall, Known, RunsTypeOK
<1>9. ASSUME NEW j \in Jobs, EndRun(j) PROVE StoppingHasEnder'
  <2>1. /\ UNCHANGED <<stopped, stopCalls>>
        /\ \A k \in Jobs \ {j} : endRuns'[k] = endRuns[k]
    BY <1>9 DEF EndRun, TypeOK
  <2>2. CASE stopped
    BY <2>1, <2>2 DEF StoppingHasEnder
  <2>3. CASE ~stopped
    <3>1. NoNewStopping /\ (j \in DOMAIN runs' => ~runs'[j].stopping)
      <4>1. CASE j \notin Known
        BY <1>9, <4>1, <1>3 DEF EndRun, RunsAfterEndOf, Known
      <4>2. CASE j \in Known /\ runs[j].removing
        <5>1. runs' = WithoutRuns({j})
          BY <1>9, <4>2 DEF EndRun, RunsAfterEndOf
        <5>2. j \notin DOMAIN runs'
          <6>1. DOMAIN WithoutRuns({j}) = Known \ {j}
            BY <1>1, WithoutRunsDomain
          <6>2. QED BY <5>1, <6>1
        <5>3. QED BY <5>1, <5>2, <1>1, FlagsWithoutRuns
      <4>3. CASE j \in Known /\ ~runs[j].removing
        <5>1. runs' = WithRun(j, EndedRun(runs[j]))
          BY <1>9, <2>3, <4>3 DEF EndRun, RunsAfterEndOf
        <5>2. runs'[j] = EndedRun(runs[j])
          BY <4>3, <5>1, <1>1 DEF WithRun, Known, RunsTypeOK
        <5>3. QED BY <4>3, <5>1, <5>2, <1>1, WrittenFlags, FlagsWithRun
      <4>4. QED BY <4>1, <4>2, <4>3
    <3>2. QED BY <2>1, <2>3, <3>1, <1>1
              DEF NoNewStopping, StoppingHasEnder, HasStopCall, Known, RunsTypeOK
  <2>4. QED BY <2>2, <2>3
<1>10. ASSUME NEW j \in Jobs, SetJobRunning(j) PROVE StoppingHasEnder'
  <2>1. CASE j \in Known /\ runs' = WithRun(j, [runs[j] EXCEPT !.ranAt = 0])
    <3>1. PICK r : /\ runs' = WithRun(j, r) /\ r.starting = runs[j].starting
                   /\ r.stopping = runs[j].stopping /\ r.executor = runs[j].executor
      BY <2>1, <1>1, WrittenFlags
    <3>2. NoNewStopping
      BY <2>1, <3>1, <1>1, FlagsWithRun
    <3>3. QED BY <1>10, <3>2, <1>2 DEF SetJobRunning
  <2>2. QED BY <1>10, <2>1, <1>2, <1>3 DEF SetJobRunning
<1>11. CASE TakeRefresh \/ TimerFires
  BY <1>11, <1>2, <1>3 DEF TakeRefresh, TimerFires
<1>12. CASE Round
  <2>1. ASSUME NEW j \in Jobs, RoundStops(j) \/ RoundBalances(j) PROVE StoppingHasEnder'
    <3>1. /\ j \in Known /\ UNCHANGED <<stopped, endRuns>>
          /\ \E remove \in BOOLEAN : StopJobs({j}, remove)
      BY <2>1 DEF RoundStops, RoundBalances, ToStop, Considered, TypeOK
    <3>2. QED BY <3>1, <1>4
  <2>2. ASSUME NEW j \in Jobs, RoundTries(j),
               \E r \in Run : /\ r.stopping = runs[j].stopping
                              /\ runs' = Ranked(WithRun(j, Tried(r)))
        PROVE  StoppingHasEnder'
    <3>1. j \in Known
      BY <2>2 DEF RoundTries, OldestRuns, Startable, Considered
    <3>2. NoNewStopping
      BY <3>1, <2>2, <1>1, FlagsTried DEF NoNewStopping
    <3>3. QED BY <2>2, <3>2, <1>2 DEF RoundTries
  <2>3. ASSUME NEW j \in Jobs, RoundFindsNoExecutor(j) PROVE StoppingHasEnder'
    BY <2>3, <2>2, <1>1 DEF RoundFindsNoExecutor, RoundTries, OldestRuns, Startable, Considered
  <2>4. ASSUME NEW j \in Jobs, NEW e \in Executors, RoundStarts(j, e) PROVE StoppingHasEnder'
    <3> DEFINE r == StartedRun(runs[j], e, executors[e].changedCount)
    <3>1. /\ j \in Known /\ e \in DOMAIN executors /\ RoundTries(j)
          /\ runs' = Ranked(WithRun(j, Tried(r)))
      BY <2>4 DEF RoundStarts, RoundTries, OldestRuns, Startable, Considered, SuitableExecutors,
                  RunnableExecutors
    <3>2. executors[e].changedCount \in Nat
      BY <3>1 DEF TypeOK, ExecutorsTypeOK, Executor
    <3>3. r \in Run
      BY <3>1, <3>2, <1>1, RunTypes
    <3>4. r.stopping = runs[j].stopping
      BY <3>1, <1>1 DEF StartedRun, Run
    <3>5. QED BY <3>1, <3>3, <3>4, <2>2
  <2>5. CASE RoundEnds
    BY <2>5, <1>2, <1>3 DEF RoundEnds
  <2>6. QED BY <1>12, <2>1, <2>3, <2>4, <2>5 DEF Round
<1>13. CASE Tick
  BY <1>13, <1>1, <1>2, FlagsTick DEF Tick
<1>14. CASE UNCHANGED vars
  BY <1>14, <1>2, <1>3 DEF vars
<1>15. QED BY <1>5, <1>7, <1>8, <1>9, <1>10, <1>11, <1>12, <1>13, <1>14
           DEF Next, CallReturns, InternalStep

\* Until Stop, a run that is being stopped has a goroutine that will end it, always.
THEOREM StoppingRunsHaveEnders == Spec => []StoppingHasEnder
<1>1. QED BY TypeCorrect, RunsAreConsistent, StoppingHasEnderInit, StoppingHasEnderStep, PTL DEF Spec

-----------------------------------------------------------------------------
(* What is assumed of clients, and what holds then *)

\* A client stops or removes a job that is on no executor once.  stopJob
\* returns early only for a run on an executor, so the second time it spawns a
\* second goroutine, whose endRun may come when the job runs again.
StopsOnce(j) ==
    RemoveJob(j) \/ StopJob(j) => ~(runs[j].stopping /\ runs[j].executor = NoExecutor)

ClientsStopOnce == [][\A j \in Jobs : StopsOnce(j)]_vars

Quiet(j) ==
    /\ \A e \in Executors : startCalls[j][e] = 0 /\ <<j, e>> \notin live
    /\ \A e \in Executors \cup {NoExecutor} : stopCalls[j][e] = 0
    /\ endRuns[j] = 0

\* The calls about a known job concern the executor of its run.  A run that is
\* not being stopped has no stop in progress; one that is being stopped has one
\* stop call or one endRun message, and with the message the executor is done.
CallsMatch(j, r) ==
    /\ \A e \in Executors : e # r.executor => startCalls[j][e] = 0 /\ <<j, e>> \notin live
    /\ \A e \in Executors \cup {NoExecutor} : e # r.executor => stopCalls[j][e] = 0
    /\ ~r.stopping => stopCalls[j][r.executor] = 0 /\ endRuns[j] = 0
    /\ r.stopping => \/ stopCalls[j][r.executor] = 1 /\ endRuns[j] = 0
                     \/ /\ stopCalls[j][r.executor] = 0 /\ endRuns[j] = 1
                        /\ \A e \in Executors : startCalls[j][e] = 0 /\ <<j, e>> \notin live
    /\ \A e \in Executors : \/ startCalls[j][e] = 0
                            \/ startCalls[j][e] = 1 /\ <<j, e>> \notin live

JobCallsMatch(j) == IF j \in Known THEN CallsMatch(j, runs[j]) ELSE Quiet(j)

OneCallPerRun == ~stopped => \A j \in Jobs : JobCallsMatch(j)

-----------------------------------------------------------------------------
(* What a step leaves alone *)

\* The scheduler knows a job before and after the step or neither, and its run
\* keeps its executor and whether it is being stopped.
KeptRun(k) ==
    /\ k \in DOMAIN runs' <=> k \in Known
    /\ k \in Known => /\ runs'[k].executor = runs[k].executor
                      /\ runs'[k].stopping = runs[k].stopping

KeptCalls(k) ==
    /\ startCalls'[k] = startCalls[k] /\ stopCalls'[k] = stopCalls[k]
    /\ endRuns'[k] = endRuns[k]
    /\ \A e \in Executors : <<k, e>> \in live' <=> <<k, e>> \in live

\* A step that leaves a run and its calls alone leaves them matching.
LEMMA KeptMatches ==
    ASSUME NEW k \in Jobs, KeptRun(k), KeptCalls(k), JobCallsMatch(k)
    PROVE  JobCallsMatch(k)'
  BY DEF KeptRun, KeptCalls, JobCallsMatch, CallsMatch, Quiet, Known

\* A write to one run keeps the other runs.
LEMMA KeptWithRun ==
    ASSUME RunsTypeOK, NEW j \in Known, NEW r, runs' = WithRun(j, r)
    PROVE  /\ runs'[j] = r /\ DOMAIN runs' = Known
           /\ \A k \in Jobs \ {j} : KeptRun(k)
  BY DEF WithRun, KeptRun, RunsTypeOK, Known

\* Runs that are removed leave the others.
LEMMA KeptWithoutRuns ==
    ASSUME RunsTypeOK, NEW js, runs' = WithoutRuns(js)
    PROVE  /\ DOMAIN runs' = Known \ js
           /\ \A k \in Jobs \ js : KeptRun(k)
<1> DEFINE rest == [j \in Known \ js |-> runs[j]]
<1>1. DOMAIN rest \subseteq Jobs /\ \A j \in DOMAIN rest : rest[j] \in Run
  BY DEF RunsTypeOK, Known
<1>2. runs' = Ranked(rest)
  BY DEF WithoutRuns
<1>3. DOMAIN rest = Known \ js /\ \A j \in DOMAIN rest : rest[j] = runs[j]
  OBVIOUS
<1> HIDE DEF rest
<1>4. QED BY <1>1, <1>2, <1>3, RankedFlags DEF KeptRun

\* stopJob, for one run or several: a run that is being stopped on an executor
\* stays as it is, another gets a stop call.
LEMMA KeptStopJobs ==
    ASSUME RunsTypeOK, CallsTypeOK, NEW js \in SUBSET Known, NEW remove \in BOOLEAN, StopJobs(js, remove)
    PROVE  /\ DOMAIN runs' = Known
           /\ \A k \in Jobs : k \notin js \/ IsAlreadyStopping(runs[k]) =>
                 KeptRun(k) /\ stopCalls'[k] = stopCalls[k]
           /\ \A k \in js : ~IsAlreadyStopping(runs[k]) =>
                 /\ runs'[k].executor = runs[k].executor /\ runs'[k].stopping
                 /\ stopCalls'[k] = [stopCalls[k] EXCEPT ![runs[k].executor] = @ + 1]
<1>1. ASSUME NEW r \in Run
      PROVE  /\ StoppedRun(r, remove).executor = r.executor
             /\ StoppedRun(r, remove).stopping
  BY DEF StoppedRun, IsAlreadyStopping, Run
<1>2. \A k \in Known : k \in Jobs /\ runs[k] \in Run
  BY DEF RunsTypeOK, Known
<1>3. DOMAIN runs' = Known
      /\ \A k \in Known : runs'[k] = IF k \in js THEN StoppedRun(runs[k], remove) ELSE runs[k]
  BY DEF StopJobs
<1>4. \A k \in Jobs : k \notin js \/ IsAlreadyStopping(runs[k]) => KeptRun(k)
  BY <1>1, <1>2, <1>3 DEF KeptRun, IsAlreadyStopping
<1>5. QED BY <1>1, <1>2, <1>3, <1>4 DEF StopJobs

\* Time keeps the executor and the flags of a run.
LEMMA KeptTick == ASSUME RunsTypeOK, Tick PROVE \A k \in Jobs : KeptRun(k)
<1>1. ASSUME NEW r \in Run
      PROVE  OlderRun(r).stopping = r.stopping /\ OlderRun(r).executor = r.executor
  BY DEF OlderRun, Run
<1>2. QED BY <1>1, RunWriteTypes DEF Tick, KeptRun, Known

\* So does the ranking of what was tried, but for the run that is given it.
LEMMA KeptTried ==
    ASSUME RunsTypeOK, NEW j \in Known, NEW r \in Run, runs' = Ranked(WithRun(j, Tried(r)))
    PROVE  /\ DOMAIN runs' = Known /\ \A k \in Jobs \ {j} : KeptRun(k)
           /\ runs'[j].executor = r.executor /\ runs'[j].stopping = r.stopping
  BY FlagsTried DEF KeptRun

\* A job that is added is on no executor.
LEMMA KeptChangeJob ==
    ASSUME RunsTypeOK, NEW j \in Jobs, NEW cfg \in JobConfigs, ChangeJob(j, cfg)
    PROVE  \A k \in Jobs :
              \/ KeptRun(k)
              \/ /\ k \notin Known /\ k \in DOMAIN runs'
                 /\ runs'[k].executor = NoExecutor /\ ~runs'[k].stopping
<1>1. CASE j \in Known
  <2>1. /\ [runs[j] EXCEPT !.job = cfg].stopping = runs[j].stopping
        /\ [runs[j] EXCEPT !.job = cfg].executor = runs[j].executor
    BY <1>1, RunWriteTypes DEF Run
  <2>2. runs' = WithRun(j, [runs[j] EXCEPT !.job = cfg])
    BY <1>1 DEF ChangeJob
  <2>3. QED BY <1>1, <2>1, <2>2, KeptWithRun DEF KeptRun
<1>2. CASE j \notin Known
  <2> DEFINE more == [k \in Known \cup {j} |-> IF k = j THEN NewRun(cfg) ELSE runs[k]]
  <2>1. runs' = Ranked(more)
    BY <1>2 DEF ChangeJob
  <2>2. NewRun(cfg) \in Run /\ NewRun(cfg).executor = NoExecutor /\ ~NewRun(cfg).stopping
    BY DEF NewRun, Run, Age
  <2>3. DOMAIN more \subseteq Jobs /\ \A k \in DOMAIN more : more[k] \in Run
    BY <2>2 DEF RunsTypeOK, Known
  <2>4. /\ DOMAIN more = Known \cup {j} /\ more[j] = NewRun(cfg)
        /\ \A k \in Known : more[k] = runs[k]
    BY <1>2
  <2> HIDE DEF more
  <2>5. QED BY <1>2, <2>1, <2>2, <2>3, <2>4, RankedFlags DEF KeptRun
<1>3. QED BY <1>1, <1>2

-----------------------------------------------------------------------------
(* One call per run *)

LEMMA OneCallPerRunInit == Init => OneCallPerRun
<1> SUFFICES ASSUME Init, NEW j \in Jobs PROVE JobCallsMatch(j)
  BY DEF OneCallPerRun
<1>1. Quiet(j)
  BY DEF Init, Quiet
<1>2. ASSUME NEW cfg, NEW n
      PROVE  /\ ~[NewRun(cfg) EXCEPT !.triedToRunIndex = n].stopping
             /\ [NewRun(cfg) EXCEPT !.triedToRunIndex = n].executor = NoExecutor
  BY DEF NewRun
<1>3. PICK f \in InitialJobs :
         \E rank \in Bijection(DOMAIN f, 1..Cardinality(DOMAIN f)) :
           runs = [k \in DOMAIN f |-> [NewRun(f[k]) EXCEPT !.triedToRunIndex = rank[k]]]
  BY DEF Init
<1>4. PICK rank \in Bijection(DOMAIN f, 1..Cardinality(DOMAIN f)) :
         runs = [k \in DOMAIN f |-> [NewRun(f[k]) EXCEPT !.triedToRunIndex = rank[k]]]
  BY <1>3
<1>5. j \in Known => runs[j] = [NewRun(f[j]) EXCEPT !.triedToRunIndex = rank[j]]
  BY <1>4 DEF Known
<1>6. j \in Known => ~runs[j].stopping /\ runs[j].executor = NoExecutor
  BY <1>2, <1>5
<1>7. QED BY <1>1, <1>6 DEF JobCallsMatch, CallsMatch, Quiet

\* A stop, of runs that are not being stopped or are on an executor, adds the
\* one stop call that ends the run.
LEMMA StopJobsMatch ==
    ASSUME TypeOK, NEW k \in Jobs, JobCallsMatch(k),
           NEW js \in SUBSET Known, NEW remove \in BOOLEAN, StopJobs(js, remove),
           k \in js => ~(runs[k].stopping /\ runs[k].executor = NoExecutor),
           UNCHANGED <<startCalls, endRuns, live>>
    PROVE  JobCallsMatch(k)'
<1>1. RunsTypeOK /\ CallsTypeOK
  BY DEF TypeOK
<1>2. CASE k \notin js \/ IsAlreadyStopping(runs[k])
  BY <1>1, <1>2, KeptStopJobs, KeptMatches DEF KeptCalls
<1>3. CASE k \in js /\ ~IsAlreadyStopping(runs[k])
  <2>1. k \in Known /\ ~runs[k].stopping /\ runs[k].executor \in Executors \cup {NoExecutor}
    BY <1>1, <1>3 DEF IsAlreadyStopping, RunsTypeOK, Run, Known
  <2>2. /\ DOMAIN runs' = Known
        /\ runs'[k].executor = runs[k].executor /\ runs'[k].stopping
        /\ stopCalls'[k] = [stopCalls[k] EXCEPT ![runs[k].executor] = @ + 1]
    BY <1>1, <1>3, KeptStopJobs
  <2>3. stopCalls[k] \in [Executors \cup {NoExecutor} -> Nat]
    BY <1>1 DEF CallsTypeOK
  <2>4. /\ stopCalls'[k][runs[k].executor] = stopCalls[k][runs[k].executor] + 1
        /\ \A e \in Executors \cup {NoExecutor} :
              e # runs[k].executor => stopCalls'[k][e] = stopCalls[k][e]
    BY <2>1, <2>2, <2>3
  <2>5. QED BY <2>1, <2>2, <2>4 DEF JobCallsMatch, CallsMatch, Known
<1>4. QED BY <1>2, <1>3

\* startAndStopRuns moves only a run that is not being stopped.
LEMMA RoundBalancesMoved ==
    ASSUME NEW j \in Jobs, RoundBalances(j)
    PROVE  j \in Known /\ ~runs[j].stopping
<1>1. j \in Known /\ {j} \in BalanceOutcomes
  BY DEF RoundBalances, Considered
<1>2. HasUnrunJobs => BalanceOutcomes = {{}}
  BY DEF BalanceOutcomes
<1>3. ~HasUnrunJobs
  BY <1>1, <1>2
<1>4. QED BY <1>1, <1>3 DEF HasUnrunJobs

\* Each step of a scheduler whose calls do not fail leaves a run one call of a kind.
LEMMA OneCallPerRunStep ==
    ASSUME FailingCalls = {}, TypeOK, RunsConsistent, OneCallPerRun, [Next]_vars,
           [\A j \in Jobs : StopsOnce(j)]_vars
    PROVE  OneCallPerRun'
<1> USE DEF books, flags, calls, msgs, world
<1>1. RunsTypeOK /\ CallsTypeOK /\ \A j \in Known : j \in Jobs /\ runs[j] \in Run /\ RunConsistent(runs[j])
  BY RunWriteTypes DEF TypeOK, RunsTypeOK, Known, RunsConsistent
<1> SUFFICES ASSUME ~stopped, ~stopped', NEW k \in Jobs, JobCallsMatch(k)
             PROVE  JobCallsMatch(k)'
  <2>1. stopped => stopped'
    BY DEF Next, vars, ClientStep, CallReturns, InternalStep, Round, Start, Stop, RemoveJob, StopJob,
           RequestStop, JobIsRunning, SetJobHasMilestoneNow, SetJobHasError, ChangeJob, RemoveExecutor,
           FlushExecutorJobs, SetExecutorIsAlive, ChangeExecutor, SetJobsOnExecutor, SetTotalMaxJobCount,
           StartSucceeds, StartFails, StopSucceeds, StopFails, EndRun, SetJobRunning, TakeRefresh,
           TimerFires, RoundStops, RoundTries, RoundFindsNoExecutor, RoundBalances, RoundStarts,
           RoundEnds, Tick
  <2>2. QED BY <2>1 DEF OneCallPerRun
<1>2. ASSUME UNCHANGED <<startCalls, stopCalls, endRuns, live>>, KeptRun(k) PROVE JobCallsMatch(k)'
  BY <1>2, KeptMatches DEF KeptCalls
<1>3. ASSUME UNCHANGED runs PROVE KeptRun(k)
  BY <1>3 DEF KeptRun, Known
<1>4. ASSUME NEW j \in Jobs, JobIsRunning(j) \/ SetJobHasMilestoneNow(j) \/ SetJobHasError(j)
                              \/ SetJobRunning(j)
      PROVE  JobCallsMatch(k)'
  <2>1. UNCHANGED <<startCalls, stopCalls, endRuns, live>>
    BY <1>4 DEF JobIsRunning, SetJobHasMilestoneNow, SetJobHasError, SetJobRunning
  <2>2. CASE UNCHANGED runs
    BY <1>2, <1>3, <2>1, <2>2
  <2>3. CASE ~UNCHANGED runs
    <3>1. PICK r : /\ j \in Known /\ runs' = WithRun(j, r)
                   /\ r.starting = runs[j].starting /\ r.stopping = runs[j].stopping
                   /\ r.executor = runs[j].executor
      BY <1>4, <1>1, <2>3, WrittenFlags
         DEF JobIsRunning, SetJobHasMilestoneNow, SetJobHasError, SetJobRunning
    <3>2. KeptRun(k)
      BY <3>1, <1>1, KeptWithRun DEF KeptRun
    <3>3. QED BY <1>2, <2>1, <3>2
  <2>4. QED BY <2>2, <2>3
<1>5. CASE ClientStep
  <2>1. ASSUME NEW j \in Jobs, RemoveJob(j) \/ StopJob(j) PROVE JobCallsMatch(k)'
    <3>1. /\ j \in Known /\ UNCHANGED <<startCalls, endRuns, live>>
          /\ \E remove \in BOOLEAN : StopJobs({j}, remove)
      BY <2>1 DEF RemoveJob, StopJob, RequestStop
    <3>2. runs' # runs \/ stopCalls' # stopCalls => ~(runs[j].stopping /\ runs[j].executor = NoExecutor)
      BY <2>1 DEF StopsOnce, vars
    <3>3. CASE UNCHANGED <<runs, stopCalls>>
      BY <1>2, <1>3, <3>1, <3>3
    <3>4. QED BY <3>1, <3>2, <3>3, StopJobsMatch
  <2>2. ASSUME NEW j \in Jobs, NEW cfg \in JobConfigs, ChangeJob(j, cfg) PROVE JobCallsMatch(k)'
    <3>1. UNCHANGED <<startCalls, stopCalls, endRuns, live>>
      BY <2>2 DEF ChangeJob
    <3>2. CASE KeptRun(k)
      BY <1>2, <3>1, <3>2
    <3>3. CASE /\ k \notin Known /\ k \in DOMAIN runs'
               /\ runs'[k].executor = NoExecutor /\ ~runs'[k].stopping
      BY <3>1, <3>3 DEF JobCallsMatch, CallsMatch, Quiet, Known
    <3>4. QED BY <1>1, <2>2, <3>2, <3>3, KeptChangeJob
  <2>3. ASSUME NEW e \in Executors, NEW js \in SUBSET Jobs, SetJobsOnExecutor(e, js)
        PROVE  JobCallsMatch(k)'
    <3> DEFINE gone == { j \in Known \ js :
                           /\ runs[j].executor = e
                           /\ ~(runs[j].startedAt # Never /\ runs[j].starting)
                           /\ ~(/\ runs[j].startedAt # Never
                                /\ runs[j].startedAt < GracePeriodForJobsOnExecutorCh) }
    <3>1. StopJobs(gone, FALSE) /\ UNCHANGED <<startCalls, endRuns, live>>
      BY <2>3 DEF SetJobsOnExecutor
    <3>2. gone \in SUBSET Known /\ \A j \in gone : runs[j].executor # NoExecutor
      BY IDsAssumption
    <3> HIDE DEF gone
    <3>3. QED BY <3>1, <3>2, StopJobsMatch
  <2>4. QED BY <1>5, <1>2, <1>3, <1>4, <2>1, <2>2, <2>3
            DEF ClientStep, Start, Stop, RemoveExecutor, FlushExecutorJobs, SetExecutorIsAlive,
                ChangeExecutor, SetTotalMaxJobCount
<1>6. ASSUME NEW j \in Jobs, NEW e \in Executors, StartSucceeds(j, e) PROVE JobCallsMatch(k)'
  <2>1. /\ startCalls[j] \in [Executors -> Nat] /\ startCalls[j][e] > 0
        /\ startCalls' = [startCalls EXCEPT ![j][e] = @ - 1] /\ startCalls \in [Jobs -> [Executors -> Nat]]
        /\ live' = live \cup {<<j, e>>} /\ UNCHANGED <<stopCalls, endRuns>>
    BY <1>1, <1>6 DEF StartSucceeds, CallsTypeOK
  <2>2. KeptRun(k)
    <3>1. CASE j \in Known
      <4>1. runs' = WithRun(j, SucceededRun(runs[j]))
        BY <1>6, <3>1 DEF StartSucceeds
      <4>2. /\ SucceededRun(runs[j]).executor = runs[j].executor
            /\ SucceededRun(runs[j]).stopping = runs[j].stopping
        BY <1>1, <3>1 DEF SucceededRun, Run
      <4>3. QED BY <1>1, <3>1, <4>1, <4>2, KeptWithRun DEF KeptRun
    <3>2. QED BY <1>3, <1>6, <3>1 DEF StartSucceeds
  <2>3. CASE k # j
    <3>1. KeptCalls(k)
      BY <2>1, <2>3 DEF KeptCalls
    <3>2. QED BY <2>2, <3>1, KeptMatches
  <2>4. CASE k = j
    <3>1. k \in Known /\ runs[k].executor = e /\ startCalls[k][e] = 1 /\ <<k, e>> \notin live
      BY <2>1, <2>4 DEF JobCallsMatch, CallsMatch, Quiet
    <3>2. /\ startCalls'[k][e] = 0
          /\ \A f \in Executors \ {e} : startCalls'[k][f] = startCalls[k][f]
          /\ \A f \in Executors \ {e} : <<k, f>> \in live' <=> <<k, f>> \in live
      BY <2>1, <2>4, <3>1
    <3>3. QED BY <2>1, <2>2, <3>1, <3>2 DEF KeptRun, JobCallsMatch, CallsMatch, Known
  <2>5. QED BY <2>3, <2>4
<1>7. ASSUME NEW j \in Jobs, NEW e \in Executors \cup {NoExecutor}, StopSucceeds(j, e)
      PROVE  JobCallsMatch(k)'
  <2>1. /\ stopCalls[j][e] > 0 /\ (e \in Executors => startCalls[j][e] = 0)
        /\ stopCalls' = [stopCalls EXCEPT ![j][e] = @ - 1]
        /\ stopCalls \in [Jobs -> [Executors \cup {NoExecutor} -> Nat]]
        /\ stopCalls[j][e] \in Nat
        /\ endRuns' = [endRuns EXCEPT ![j] = @ + 1] /\ endRuns \in [Jobs -> Nat]
        /\ live' = live \ {<<j, e>>} /\ UNCHANGED <<runs, startCalls>>
    BY <1>1, <1>7 DEF StopSucceeds, TypeOK, CallsTypeOK
  <2>2. CASE k # j
    <3>1. KeptCalls(k)
      BY <2>1, <2>2 DEF KeptCalls
    <3>2. QED BY <1>3, <2>1, <3>1, KeptMatches
  <2>3. CASE k = j
    <3>1. /\ k \in Known /\ runs[k].executor = e /\ runs[k].stopping
          /\ stopCalls[k][e] = 1 /\ endRuns[k] = 0
      <4>1. stopCalls[k][e] # 0
        BY <2>1, <2>3
      <4>2. k \in Known
        BY <4>1 DEF JobCallsMatch, Quiet
      <4>3. CallsMatch(k, runs[k])
        BY <4>2 DEF JobCallsMatch
      <4>4. runs[k].executor = e
        BY <4>1, <4>3 DEF CallsMatch
      <4>5. QED BY <4>1, <4>2, <4>3, <4>4 DEF CallsMatch
    <3>2. /\ stopCalls'[k][e] = 0 /\ endRuns'[k] = 1
          /\ \A f \in (Executors \cup {NoExecutor}) \ {e} : stopCalls'[k][f] = stopCalls[k][f]
          /\ \A f \in Executors : <<k, f>> \in live' <=> <<k, f>> \in live /\ f # e
      BY <2>1, <2>3, <3>1
    <3>3. QED BY <2>1, <3>1, <3>2 DEF JobCallsMatch, CallsMatch, Known
  <2>4. QED BY <2>2, <2>3
<1>8. ASSUME NEW j \in Jobs, EndRun(j) PROVE JobCallsMatch(k)'
  <2>1. /\ endRuns[j] > 0 /\ endRuns' = [endRuns EXCEPT ![j] = @ - 1]
        /\ endRuns \in [Jobs -> Nat] /\ UNCHANGED <<startCalls, stopCalls, live>>
        /\ runs' = RunsAfterEndOf(j)
    BY <1>8 DEF EndRun, TypeOK
  <2>2. CASE k # j
    <3>1. KeptRun(k)
      BY <1>1, <1>3, <2>1, <2>2, KeptWithRun, KeptWithoutRuns DEF RunsAfterEndOf
    <3>2. KeptCalls(k)
      BY <2>1, <2>2 DEF KeptCalls
    <3>3. QED BY <3>1, <3>2, KeptMatches
  <2>3. CASE k = j
    <3>1. /\ k \in Known /\ endRuns[k] = 1 /\ stopCalls[k][runs[k].executor] = 0
          /\ \A e \in Executors : startCalls[k][e] = 0 /\ <<k, e>> \notin live
      BY <2>1, <2>3 DEF JobCallsMatch, CallsMatch, Quiet
    <3>2. Quiet(k)'
      BY <2>1, <2>3, <3>1 DEF JobCallsMatch, CallsMatch, Quiet
    <3>3. k \in DOMAIN runs' => runs'[k].executor = NoExecutor /\ ~runs'[k].stopping
      <4>1. CASE runs[k].removing
        BY <1>1, <2>1, <2>3, <3>1, <4>1, KeptWithoutRuns DEF RunsAfterEndOf
      <4>2. CASE ~runs[k].removing
        <5>1. runs' = WithRun(k, EndedRun(runs[k]))
          BY <2>1, <2>3, <3>1, <4>2 DEF RunsAfterEndOf
        <5>2. EndedRun(runs[k]).executor = NoExecutor /\ ~EndedRun(runs[k]).stopping
          BY <1>1, <3>1 DEF EndedRun, Run
        <5>3. QED BY <1>1, <3>1, <5>1, <5>2, KeptWithRun
      <4>3. QED BY <4>1, <4>2
    <3>4. QED BY <3>2, <3>3 DEF JobCallsMatch, CallsMatch, Quiet, Known
  <2>4. QED BY <2>2, <2>3
<1>9. CASE TakeRefresh \/ TimerFires \/ RoundEnds
  BY <1>9, <1>2, <1>3 DEF TakeRefresh, TimerFires, RoundEnds
<1>10. ASSUME NEW j \in Jobs, RoundStops(j) \/ RoundBalances(j) PROVE JobCallsMatch(k)'
  <2>1. /\ j \in Known /\ UNCHANGED <<startCalls, endRuns, live>>
        /\ \E remove \in BOOLEAN : StopJobs({j}, remove)
    BY <1>10 DEF RoundStops, RoundBalances, ToStop, Considered, TypeOK
  <2>2. ~runs[j].stopping
    <3>1. CASE RoundStops(j)
      BY <3>1 DEF RoundStops, ToStop
    <3>2. CASE RoundBalances(j)
      BY <3>2, RoundBalancesMoved
    <3>3. QED BY <1>10, <3>1, <3>2
  <2>3. QED BY <2>1, <2>2, StopJobsMatch
<1>11. ASSUME NEW j \in Jobs, RoundFindsNoExecutor(j) PROVE JobCallsMatch(k)'
  <2>1. /\ j \in Known /\ runs' = Ranked(WithRun(j, Tried(runs[j])))
        /\ UNCHANGED <<startCalls, stopCalls, endRuns, live>>
    BY <1>11 DEF RoundFindsNoExecutor, RoundTries, OldestRuns, Startable, Considered
  <2>2. KeptRun(k)
    BY <1>1, <2>1, KeptTried DEF KeptRun
  <2>3. QED BY <1>2, <2>1, <2>2
<1>12. ASSUME NEW j \in Jobs, NEW e \in Executors, RoundStarts(j, e) PROVE JobCallsMatch(k)'
  <2> DEFINE r == StartedRun(runs[j], e, executors[e].changedCount)
  <2>1. /\ j \in Known /\ ~runs[j].stopping /\ runs[j].executor = NoExecutor
        /\ e \in DOMAIN executors
        /\ runs' = Ranked(WithRun(j, Tried(r)))
        /\ startCalls' = [startCalls EXCEPT ![j][e] = @ + 1] /\ UNCHANGED <<stopCalls, endRuns, live>>
    BY <1>12 DEF RoundStarts, RoundTries, OldestRuns, Startable, Considered, SuitableExecutors,
                 RunnableExecutors
  <2>2. executors[e].changedCount \in Nat
    BY <2>1 DEF TypeOK, ExecutorsTypeOK, Executor
  <2>3. r \in Run
    BY <1>1, <2>1, <2>2, RunTypes
  <2>4. r.executor = e /\ ~r.stopping
    BY <1>1, <2>1, <2>3 DEF StartedRun, Run
  <2> HIDE DEF r
  <2>5. CASE k # j
    <3>1. KeptRun(k)
      BY <1>1, <2>1, <2>3, <2>5, KeptTried
    <3>2. KeptCalls(k)
      BY <1>1, <2>1, <2>5 DEF KeptCalls, CallsTypeOK
    <3>3. QED BY <3>1, <3>2, KeptMatches
  <2>6. CASE k = j
    <3>1. /\ k \in DOMAIN runs' /\ runs'[k].executor = e /\ ~runs'[k].stopping
      BY <1>1, <2>1, <2>3, <2>4, <2>6, KeptTried
    <3>2. Quiet(k)
      BY <2>1, <2>6, IDsAssumption DEF JobCallsMatch, CallsMatch, Quiet
    <3>3. /\ startCalls'[k][e] = 1
          /\ \A f \in Executors \ {e} : startCalls'[k][f] = 0
      <4>1. startCalls[k] \in [Executors -> Nat] /\ \A f \in Executors : startCalls[k][f] = 0
        BY <1>1, <3>2 DEF Quiet, CallsTypeOK
      <4>2. startCalls'[k] = [startCalls[k] EXCEPT ![e] = @ + 1]
        BY <1>1, <2>1, <2>6 DEF CallsTypeOK
      <4>3. QED BY <4>1, <4>2
    <3>4. QED BY <2>1, <3>1, <3>2, <3>3 DEF JobCallsMatch, CallsMatch, Quiet, Known
  <2>7. QED BY <2>5, <2>6
<1>13. CASE Tick
  BY <1>13, <1>1, <1>2, KeptTick DEF Tick
<1>14. CASE UNCHANGED vars
  BY <1>14, <1>2, <1>3 DEF vars
<1>15. ASSUME NEW j \in Jobs, NEW e, StartFails(j, e) \/ StopFails(j, e) PROVE FALSE
  BY <1>15 DEF StartFails, StopFails
<1>16. QED BY <1>4, <1>5, <1>6, <1>7, <1>8, <1>9, <1>10, <1>11, <1>12, <1>13, <1>14, <1>15
           DEF Next, CallReturns, InternalStep, Round

\* With executors that do not fail and clients that stop once, a job has one
\* start call and one stop call at most, about the executor of its run.
THEOREM CallsMatchRuns ==
    ASSUME FailingCalls = {}
    PROVE  Spec /\ ClientsStopOnce => []OneCallPerRun
<1>1. TypeOK /\ RunsConsistent /\ OneCallPerRun /\ [Next]_vars /\ [\A j \in Jobs : StopsOnce(j)]_vars
        => OneCallPerRun'
  BY OneCallPerRunStep
<1>2. QED BY <1>1, TypeCorrect, RunsAreConsistent, OneCallPerRunInit, PTL DEF Spec, ClientsStopOnce

-----------------------------------------------------------------------------
(* What that means for where jobs run *)

\* A scheduler that nobody stops goes on.
LEMMA NeverStopped ==
    ASSUME "Stop" \notin Requests
    PROVE  Spec => []~stopped
<1>1. Init => ~stopped
  BY DEF Init
<1>2. ~stopped /\ [Next]_vars => ~stopped'
    BY DEF Next, vars, flags, books, ClientStep, CallReturns, InternalStep, Round, Start, Stop,
           RemoveJob, StopJob,
           RequestStop, JobIsRunning, SetJobHasMilestoneNow, SetJobHasError, ChangeJob, RemoveExecutor,
           FlushExecutorJobs, SetExecutorIsAlive, ChangeExecutor, SetJobsOnExecutor, SetTotalMaxJobCount,
           StartSucceeds, StartFails, StopSucceeds, StopFails, EndRun, SetJobRunning, TakeRefresh,
           TimerFires, RoundStops, RoundTries, RoundFindsNoExecutor, RoundBalances, RoundStarts,
           RoundEnds, Tick
<1>3. QED BY <1>1, <1>2, PTL DEF Spec

\* The executor a job is placed on
PlaceOf(j) == IF j \in Known THEN runs[j].executor ELSE NoExecutor

KeepsPlaces(js) == \A k \in js : PlaceOf(k)' = PlaceOf(k)

\* A run that is kept is where it was.
LEMMA KeptRunPlace ==
    ASSUME NEW k, KeptRun(k)
    PROVE  PlaceOf(k)' = PlaceOf(k)
  BY DEF KeptRun, PlaceOf, Known

\* Only startJob places a job and only endRun frees its place; a job runs or
\* ends where a call says so.
PlaceStep ==
    \/ KeepsPlaces(Jobs) /\ UNCHANGED live
    \/ \E j \in Jobs : EndRun(j) /\ KeepsPlaces(Jobs \ {j})
    \/ \E j \in Jobs, e \in Executors :
          /\ RoundStarts(j, e) /\ KeepsPlaces(Jobs \ {j})
          /\ PlaceOf(j) = NoExecutor /\ PlaceOf(j)' = e
    \/ \E j \in Jobs, e \in Executors : StartSucceeds(j, e) /\ KeepsPlaces(Jobs)
    \/ \E j \in Jobs, e \in Executors \cup {NoExecutor} : StopSucceeds(j, e) /\ KeepsPlaces(Jobs)

\* Each step starts, stops or frees one job at most.
LEMMA StepsOfPlaces ==
    ASSUME FailingCalls = {}, TypeOK, [Next]_vars, ~stopped'
    PROVE  PlaceStep
<1> USE DEF books, flags, calls, msgs, world
<1>1. RunsTypeOK /\ CallsTypeOK /\ \A j \in Known : j \in Jobs /\ runs[j] \in Run
  BY RunWriteTypes DEF TypeOK, RunsTypeOK, Known
<1>2. ASSUME UNCHANGED live, \A k \in Jobs : KeptRun(k) PROVE PlaceStep
  BY <1>2, KeptRunPlace DEF PlaceStep, KeepsPlaces
<1>3. ASSUME UNCHANGED runs PROVE \A k \in Jobs : KeptRun(k)
  BY <1>3 DEF KeptRun, Known
<1>4. ASSUME NEW js \in SUBSET Known, NEW remove \in BOOLEAN, StopJobs(js, remove), UNCHANGED live
      PROVE  PlaceStep
  <2>1. \A k \in Jobs : PlaceOf(k)' = PlaceOf(k)
    BY <1>1, <1>4, KeptStopJobs, KeptRunPlace DEF PlaceOf, Known
  <2>2. QED BY <1>4, <2>1 DEF PlaceStep, KeepsPlaces
<1>5. ASSUME NEW j \in Jobs, JobIsRunning(j) \/ SetJobHasMilestoneNow(j) \/ SetJobHasError(j)
                              \/ SetJobRunning(j)
      PROVE  PlaceStep
  <2>1. UNCHANGED live
    BY <1>5 DEF JobIsRunning, SetJobHasMilestoneNow, SetJobHasError, SetJobRunning
  <2>2. CASE ~UNCHANGED runs
    <3>1. PICK r : /\ j \in Known /\ runs' = WithRun(j, r)
                   /\ r.starting = runs[j].starting /\ r.stopping = runs[j].stopping
                   /\ r.executor = runs[j].executor
      BY <1>5, <1>1, <2>2, WrittenFlags
         DEF JobIsRunning, SetJobHasMilestoneNow, SetJobHasError, SetJobRunning
    <3>2. \A k \in Jobs : KeptRun(k)
      BY <3>1, <1>1, KeptWithRun DEF KeptRun
    <3>3. QED BY <1>2, <2>1, <3>2
  <2>3. QED BY <1>2, <1>3, <2>1, <2>2
<1>6. CASE ClientStep
  <2>1. ASSUME NEW j \in Jobs, RemoveJob(j) \/ StopJob(j) PROVE PlaceStep
    BY <2>1, <1>4 DEF RemoveJob, StopJob, RequestStop
  <2>2. ASSUME NEW j \in Jobs, NEW cfg \in JobConfigs, ChangeJob(j, cfg) PROVE PlaceStep
    <3>1. UNCHANGED live
      BY <2>2 DEF ChangeJob
    <3>2. \A k \in Jobs : PlaceOf(k)' = PlaceOf(k)
      BY <1>1, <2>2, KeptChangeJob, KeptRunPlace DEF PlaceOf, Known
    <3>3. QED BY <3>1, <3>2 DEF PlaceStep, KeepsPlaces
  <2>3. ASSUME NEW e \in Executors, NEW js \in SUBSET Jobs, SetJobsOnExecutor(e, js)
        PROVE  PlaceStep
    BY <2>3, <1>4 DEF SetJobsOnExecutor
  <2>4. ~Stop
    BY DEF Stop
  <2>5. QED BY <1>6, <1>2, <1>3, <1>5, <2>1, <2>2, <2>3, <2>4
            DEF ClientStep, Start, RemoveExecutor, FlushExecutorJobs, SetExecutorIsAlive,
                ChangeExecutor, SetTotalMaxJobCount
<1>7. ASSUME NEW j \in Jobs, NEW e \in Executors, StartSucceeds(j, e) PROVE PlaceStep
  <2>1. CASE j \in Known
    <3>1. runs' = WithRun(j, SucceededRun(runs[j]))
      BY <1>7, <2>1 DEF StartSucceeds
    <3>2. /\ SucceededRun(runs[j]).executor = runs[j].executor
          /\ SucceededRun(runs[j]).stopping = runs[j].stopping
      BY <1>1, <2>1 DEF SucceededRun, Run
    <3>3. \A k \in Jobs : KeptRun(k)
      BY <1>1, <2>1, <3>1, <3>2, KeptWithRun DEF KeptRun
    <3>4. QED BY <1>7, <3>3, KeptRunPlace DEF PlaceStep, KeepsPlaces
  <2>2. CASE j \notin Known
    <3>1. \A k \in Jobs : KeptRun(k)
      BY <1>3, <1>7, <2>2 DEF StartSucceeds
    <3>2. QED BY <1>7, <3>1, KeptRunPlace DEF PlaceStep, KeepsPlaces
  <2>3. QED BY <2>1, <2>2
<1>8. ASSUME NEW j \in Jobs, NEW e \in Executors \cup {NoExecutor}, StopSucceeds(j, e)
      PROVE  PlaceStep
  <2>1. \A k \in Jobs : KeptRun(k)
    BY <1>3, <1>8 DEF StopSucceeds
  <2>2. QED BY <1>8, <2>1, KeptRunPlace DEF PlaceStep, KeepsPlaces
<1>9. ASSUME NEW j \in Jobs, EndRun(j) PROVE PlaceStep
  <2>1. \A k \in Jobs \ {j} : KeptRun(k)
    BY <1>1, <1>3, <1>9, KeptWithRun, KeptWithoutRuns DEF EndRun, RunsAfterEndOf
  <2>2. QED BY <1>9, <2>1, KeptRunPlace DEF PlaceStep, KeepsPlaces
<1>10. CASE TakeRefresh \/ TimerFires \/ RoundEnds
  BY <1>10, <1>2, <1>3 DEF TakeRefresh, TimerFires, RoundEnds
<1>11. ASSUME NEW j \in Jobs, RoundStops(j) \/ RoundBalances(j) PROVE PlaceStep
  <2>1. /\ j \in Known /\ UNCHANGED live
        /\ \E remove \in BOOLEAN : StopJobs({j}, remove)
    BY <1>11 DEF RoundStops, RoundBalances, ToStop, Considered, TypeOK
  <2>2. QED BY <2>1, <1>4
<1>12. ASSUME NEW j \in Jobs, RoundFindsNoExecutor(j) PROVE PlaceStep
  <2>1. /\ j \in Known /\ runs' = Ranked(WithRun(j, Tried(runs[j]))) /\ UNCHANGED live
    BY <1>12 DEF RoundFindsNoExecutor, RoundTries, OldestRuns, Startable, Considered
  <2>2. \A k \in Jobs : KeptRun(k)
    BY <1>1, <2>1, KeptTried DEF KeptRun
  <2>3. QED BY <1>2, <2>1, <2>2
<1>13. ASSUME NEW j \in Jobs, NEW e \in Executors, RoundStarts(j, e) PROVE PlaceStep
  <2> DEFINE r == StartedRun(runs[j], e, executors[e].changedCount)
  <2>1. /\ j \in Known /\ runs[j].executor = NoExecutor /\ e \in DOMAIN executors
        /\ runs' = Ranked(WithRun(j, Tried(r)))
    BY <1>13 DEF RoundStarts, RoundTries, OldestRuns, Startable, Considered, SuitableExecutors,
                 RunnableExecutors
  <2>2. executors[e].changedCount \in Nat
    BY <2>1 DEF TypeOK, ExecutorsTypeOK, Executor
  <2>3. r \in Run
    BY <1>1, <2>1, <2>2, RunTypes
  <2>4. r.executor = e
    BY <1>1, <2>1, <2>3 DEF StartedRun, Run
  <2> HIDE DEF r
  <2>5. \A k \in Jobs \ {j} : KeptRun(k)
    BY <1>1, <2>1, <2>3, KeptTried
  <2>6. PlaceOf(j) = NoExecutor /\ PlaceOf(j)' = e
    BY <1>1, <2>1, <2>3, <2>4, KeptTried DEF PlaceOf, Known
  <2>7. QED BY <1>13, <2>5, <2>6, KeptRunPlace DEF PlaceStep, KeepsPlaces
<1>14. CASE Tick
  BY <1>14, <1>1, <1>2, KeptTick DEF Tick
<1>15. CASE UNCHANGED vars
  BY <1>15, <1>2, <1>3 DEF vars
<1>16. ASSUME NEW j \in Jobs, NEW e, StartFails(j, e) \/ StopFails(j, e) PROVE FALSE
  BY <1>16 DEF StartFails, StopFails
<1>17. QED BY <1>5, <1>6, <1>7, <1>8, <1>9, <1>10, <1>11, <1>12, <1>13, <1>14, <1>15, <1>16
           DEF Next, CallReturns, InternalStep, Round

\* endRun finds the job no longer running anywhere.
LEMMA EndedJobIsQuiet ==
    ASSUME OneCallPerRun, ~stopped, NEW j \in Jobs, EndRun(j), TypeOK
    PROVE  j \in Known /\ \A e \in Executors : <<j, e>> \notin live
<1>1. endRuns[j] > 0
  BY DEF EndRun
<1>2. JobCallsMatch(j) /\ endRuns[j] # 0
  BY <1>1 DEF OneCallPerRun
<1>3. QED BY <1>2 DEF JobCallsMatch, Quiet, CallsMatch

\* A run loses its executor in EndRun only, and by then its job does not run.
LEMMA EndRunIsAfterStopStep ==
    ASSUME FailingCalls = {}, TypeOK, OneCallPerRun, ~stopped, ~stopped', [Next]_vars
    PROVE  [\A j \in Known : runs[j].executor # NoExecutor
                             /\ (j \in DOMAIN runs' => runs'[j].executor = NoExecutor)
                => <<j, runs[j].executor>> \notin live]_vars
<1> SUFFICES ASSUME NEW j \in Known, runs[j].executor # NoExecutor,
                    j \in DOMAIN runs' => runs'[j].executor = NoExecutor
             PROVE  <<j, runs[j].executor>> \notin live
  OBVIOUS
<1>1. j \in Jobs /\ runs[j].executor \in Executors
  BY DEF TypeOK, RunsTypeOK, Known, Run
<1>2. PlaceOf(j) # NoExecutor /\ PlaceOf(j)' = NoExecutor
  BY DEF PlaceOf, Known
<1>3. EndRun(j)
  BY <1>1, <1>2, StepsOfPlaces DEF PlaceStep, KeepsPlaces
<1>4. QED BY <1>1, <1>3, EndedJobIsQuiet

\* A job loses its place only when it no longer runs there: endRun comes after
\* the stop it is about.
THEOREM RunsEndAfterStops ==
    ASSUME FailingCalls = {}, "Stop" \notin Requests
    PROVE  Spec /\ ClientsStopOnce => EndRunIsAfterStop
<1>1. TypeOK /\ OneCallPerRun /\ ~stopped /\ ~stopped' /\ [Next]_vars
        => [\A j \in Known : runs[j].executor # NoExecutor
                             /\ (j \in DOMAIN runs' => runs'[j].executor = NoExecutor)
                => <<j, runs[j].executor>> \notin live]_vars
  BY EndRunIsAfterStopStep
<1>2. QED BY <1>1, TypeCorrect, CallsMatchRuns, NeverStopped, PTL DEF Spec, EndRunIsAfterStop

-----------------------------------------------------------------------------
(* The scheduler implements JobPlacement *)

\* At first no job is placed, and none runs.
LEMMA PlacementInit == Init => Placement!Init
<1> SUFFICES ASSUME Init PROVE Placement!Init
  OBVIOUS
<1>1. PICK f \in InitialJobs :
         \E rank \in Bijection(DOMAIN f, 1..Cardinality(DOMAIN f)) :
           runs = [j \in DOMAIN f |-> [NewRun(f[j]) EXCEPT !.triedToRunIndex = rank[j]]]
  BY DEF Init
<1>2. ASSUME NEW cfg, NEW n PROVE [NewRun(cfg) EXCEPT !.triedToRunIndex = n].executor = NoExecutor
  BY DEF NewRun
<1>3. PICK rank \in Bijection(DOMAIN f, 1..Cardinality(DOMAIN f)) :
         runs = [j \in DOMAIN f |-> [NewRun(f[j]) EXCEPT !.triedToRunIndex = rank[j]]]
  BY <1>1
<1>4. ASSUME NEW j \in Known PROVE runs[j].executor = NoExecutor
  <2>1. runs[j] = [NewRun(f[j]) EXCEPT !.triedToRunIndex = rank[j]]
    BY <1>3 DEF Known
  <2>2. QED BY <1>2, <2>1
<1>5. QED BY <1>4 DEF Init, Placement!Init

\* startJob places a job, the calls it makes let it begin and end, and endRun
\* frees its place.
LEMMA PlacementStep ==
    ASSUME FailingCalls = {}, TypeOK, OneCallPerRun, ~stopped, ~stopped', [Next]_vars
    PROVE  [Placement!Next]_<<[j \in Jobs |-> PlaceOf(j)], live>>
<1> DEFINE place == [j \in Jobs |-> PlaceOf(j)]
<1>1. PlaceStep
  BY StepsOfPlaces
<1>2. CASE KeepsPlaces(Jobs) /\ UNCHANGED live
  BY <1>2 DEF KeepsPlaces
<1>3. ASSUME NEW j \in Jobs, EndRun(j), KeepsPlaces(Jobs \ {j}) PROVE Placement!Release(j)
  <2>1. j \in Known /\ \A e \in Executors : <<j, e>> \notin live
    BY <1>3, EndedJobIsQuiet
  <2>2. PlaceOf(j)' = NoExecutor
    <3>1. RunsTypeOK /\ runs[j] \in Run
      BY <2>1, RunWriteTypes DEF TypeOK
    <3>2. CASE runs[j].removing
      BY <1>3, <2>1, <3>1, <3>2, KeptWithoutRuns DEF EndRun, RunsAfterEndOf, PlaceOf, Known
    <3>3. CASE ~runs[j].removing
      <4>1. runs' = WithRun(j, EndedRun(runs[j]))
        BY <1>3, <2>1, <3>3 DEF EndRun, RunsAfterEndOf
      <4>2. EndedRun(runs[j]).executor = NoExecutor
        BY <3>1 DEF EndedRun, Run
      <4>3. QED BY <2>1, <3>1, <4>1, <4>2, KeptWithRun DEF PlaceOf, Known
    <3>4. QED BY <3>2, <3>3
  <2>3. place' = [place EXCEPT ![j] = NoExecutor]
    BY <1>3, <2>2 DEF KeepsPlaces
  <2>4. UNCHANGED live
    BY <1>3 DEF EndRun, world
  <2>5. QED BY <2>1, <2>3, <2>4 DEF Placement!Release, PlaceOf
<1>4. ASSUME NEW j \in Jobs, NEW e \in Executors, RoundStarts(j, e), KeepsPlaces(Jobs \ {j}),
             PlaceOf(j) = NoExecutor, PlaceOf(j)' = e
      PROVE  Placement!Place(j, e)
  <2>1. place' = [place EXCEPT ![j] = e]
    BY <1>4 DEF KeepsPlaces
  <2>2. UNCHANGED live
    BY <1>4 DEF RoundStarts, RoundTries, world
  <2>3. QED BY <1>4, <2>1, <2>2 DEF Placement!Place, PlaceOf
<1>5. ASSUME NEW j \in Jobs, NEW e \in Executors, StartSucceeds(j, e), KeepsPlaces(Jobs)
      PROVE  Placement!Begin(j)
  <2>1. startCalls[j][e] # 0 /\ live' = live \cup {<<j, e>>}
    BY <1>5 DEF StartSucceeds
  <2>2. PlaceOf(j) = e /\ e # NoExecutor
    BY <2>1, IDsAssumption DEF OneCallPerRun, JobCallsMatch, CallsMatch, Quiet, PlaceOf
  <2>3. UNCHANGED place
    BY <1>5 DEF KeepsPlaces
  <2>4. QED BY <2>1, <2>2, <2>3 DEF Placement!Begin, PlaceOf
<1>6. ASSUME NEW j \in Jobs, NEW e \in Executors \cup {NoExecutor}, StopSucceeds(j, e), KeepsPlaces(Jobs)
      PROVE  Placement!End(j)
  <2>1. stopCalls[j][e] # 0 /\ live' = live \ {<<j, e>>}
    BY <1>6 DEF StopSucceeds
  <2>2. PlaceOf(j) = e
    BY <2>1 DEF OneCallPerRun, JobCallsMatch, CallsMatch, Quiet, PlaceOf
  <2>3. UNCHANGED place
    BY <1>6 DEF KeepsPlaces
  <2>4. QED BY <2>1, <2>2, <2>3 DEF Placement!End, PlaceOf
<1>7. QED BY <1>1, <1>2, <1>3, <1>4, <1>5, <1>6 DEF PlaceStep, Placement!Next

\* With executors that do not fail, clients that stop a waiting run once, and
\* until Stop, the scheduler implements JobPlacement; so (JobsRunWherePlaced)
\* a job runs on one executor at most, the one its run names.
THEOREM SchedulerImplementsPlacement ==
    ASSUME FailingCalls = {}, "Stop" \notin Requests
    PROVE  Spec /\ ClientsStopOnce => ImplementsPlacement
<1>1. TypeOK /\ OneCallPerRun /\ ~stopped /\ ~stopped' /\ [Next]_vars
        => [Placement!Next]_<<[j \in Jobs |-> PlaceOf(j)], live>>
  BY PlacementStep
<1>2. QED BY <1>1, TypeCorrect, CallsMatchRuns, NeverStopped, PlacementInit, PTL
          DEF Spec, ImplementsPlacement, Placement!Spec, PlaceOf

-----------------------------------------------------------------------------
(* What is written to a run that is not a start *)

\* s is started only if r was, on the same executor.
KeepsStart(r, s) ==
    s.startedAt # Never => /\ r.startedAt # Never /\ s.executor = r.executor
                           /\ s.starting => r.starting

\* A run that is starting, or waits for an executor, is not running.
Fresh(r) == r.executor = NoExecutor \/ r.starting => r.ranAt = Never

Keeps(r, s) == KeepsStart(r, s) /\ s.job = r.job /\ (Fresh(r) => Fresh(s))

\* The writes to a run that are not a start.
LEMMA WritesKeep ==
    ASSUME NEW r \in Run
    PROVE  /\ \A remove \in BOOLEAN : Keeps(r, StoppedRun(r, remove))
           /\ Keeps(r, SucceededRun(r)) /\ Keeps(r, FailedRun(r)) /\ Keeps(r, EndedRun(r))
           /\ Keeps(r, OlderRun(r))
           /\ \A n \in Nat : Keeps(r, [r EXCEPT !.triedToRunIndex = n])
           /\ Keeps(r, [r EXCEPT !.milestoneAt = 0]) /\ Keeps(r, [r EXCEPT !.errorAt = 0])
           /\ KeepsStart(r, [r EXCEPT !.ranAt = 0]) /\ [r EXCEPT !.ranAt = 0].job = r.job
           /\ \A cfg : LET s == [r EXCEPT !.job = cfg]
                       IN  KeepsStart(r, s) /\ (Fresh(r) => Fresh(s))
<1> USE DEF Keeps, KeepsStart, Fresh
<1>1. ASSUME NEW remove \in BOOLEAN PROVE Keeps(r, StoppedRun(r, remove))
  BY DEF StoppedRun, IsAlreadyStopping, Run
<1>2. Keeps(r, SucceededRun(r)) /\ Keeps(r, FailedRun(r)) /\ Keeps(r, EndedRun(r))
  BY DEF SucceededRun, FailedRun, EndedRun, Run
<1>3. Keeps(r, OlderRun(r))
  BY OlderRunType, ZenonT(40) DEF OlderRun, Older, Run
<1>4. \A n \in Nat : Keeps(r, [r EXCEPT !.triedToRunIndex = n])
  BY DEF Run
<1>5. Keeps(r, [r EXCEPT !.milestoneAt = 0]) /\ Keeps(r, [r EXCEPT !.errorAt = 0])
  BY DEF Run
<1>6. KeepsStart(r, [r EXCEPT !.ranAt = 0]) /\ [r EXCEPT !.ranAt = 0].job = r.job
  BY DEF Run
<1>7. ASSUME NEW cfg
      PROVE  /\ KeepsStart(r, [r EXCEPT !.job = cfg])
             /\ Fresh(r) => Fresh([r EXCEPT !.job = cfg])
  BY DEF Run
<1> HIDE DEF Keeps, KeepsStart, Fresh
<1>8. QED BY <1>1, <1>2, <1>3, <1>4, <1>5, <1>6, <1>7

\* Ranking changes nothing else.
LEMMA RankedKeeps ==
    ASSUME NEW rs, DOMAIN rs \subseteq Jobs, \A j \in DOMAIN rs : rs[j] \in Run
    PROVE  /\ DOMAIN Ranked(rs) = DOMAIN rs
           /\ \A j \in DOMAIN rs : Keeps(rs[j], Ranked(rs)[j])
<1>1. ASSUME NEW j \in DOMAIN rs PROVE Keeps(rs[j], Ranked(rs)[j])
  <2>1. PICK n \in Nat : Ranked(rs)[j] = [rs[j] EXCEPT !.triedToRunIndex = n]
    BY RankedRuns
  <2>2. QED BY <2>1, WritesKeep, ZenonT(40)
<1>2. QED BY <1>1, RankedRuns

\* One write after the other.
LEMMA KeepsCompose ==
    ASSUME NEW r, NEW s, NEW t, Keeps(r, s), Keeps(s, t)
    PROVE  Keeps(r, t)
  BY DEF Keeps, KeepsStart

-----------------------------------------------------------------------------
(* The steps, by what they do to the runs that are started *)

NoNewStart == \A j \in DOMAIN runs' : runs'[j].startedAt # Never =>
                 j \in Known /\ KeepsStart(runs[j], runs'[j])

NoNewRan == \A j \in DOMAIN runs' : Fresh(runs'[j]) \/ (j \in Known /\ ~Fresh(runs[j]))

JobsKept == \A j \in DOMAIN runs' : runs'[j].startedAt # Never =>
                 j \in Known /\ runs'[j].job = runs[j].job

AllKept == \A j \in DOMAIN runs' : j \in Known /\ Keeps(runs[j], runs'[j])

ConfigsKept ==
    /\ DOMAIN executors' = DOMAIN executors
    /\ \A e \in DOMAIN executors : executors'[e].config = executors[e].config

\* What is kept when no run starts.
LEMMA AllKeptMeans == AllKept => NoNewStart /\ NoNewRan /\ JobsKept
  BY DEF AllKept, NoNewStart, NoNewRan, JobsKept, Keeps

\* A step that leaves the runs alone starts none.
LEMMA AllKeptSame == ASSUME UNCHANGED runs PROVE AllKept
  BY DEF AllKept, Keeps, KeepsStart, Known

\* Nor does one that writes to a run and keeps it,
LEMMA AllKeptWithRun ==
    ASSUME RunsTypeOK, NEW j \in Known, NEW r, runs' = WithRun(j, r), Keeps(runs[j], r)
    PROVE  AllKept
  BY DEF AllKept, Keeps, KeepsStart, WithRun, RunsTypeOK, Known

\* one that stops runs,
LEMMA AllKeptStopJobs ==
    ASSUME RunsTypeOK, NEW js, NEW remove \in BOOLEAN, StopJobs(js, remove)
    PROVE  AllKept
<1>1. \A k \in Known : runs[k] \in Run
  BY DEF RunsTypeOK, Known
<1>2. ASSUME NEW k \in Known PROVE Keeps(runs[k], runs'[k])
  <2>1. runs'[k] = IF k \in js THEN StoppedRun(runs[k], remove) ELSE runs[k]
    BY DEF StopJobs
  <2>2. Keeps(runs[k], runs[k])
    BY DEF Keeps, KeepsStart
  <2>3. QED BY <1>1, <2>1, <2>2, WritesKeep
<1>3. QED BY <1>2 DEF AllKept, StopJobs

\* or one that removes runs.
LEMMA AllKeptWithoutRuns ==
    ASSUME RunsTypeOK, NEW js, runs' = WithoutRuns(js)
    PROVE  AllKept /\ DOMAIN runs' = Known \ js
<1> DEFINE rest == [j \in Known \ js |-> runs[j]]
<1>1. DOMAIN rest \subseteq Jobs /\ \A j \in DOMAIN rest : rest[j] \in Run
  BY DEF RunsTypeOK, Known
<1>2. runs' = Ranked(rest)
  BY DEF WithoutRuns
<1>3. DOMAIN rest = Known \ js /\ \A j \in DOMAIN rest : rest[j] = runs[j]
  OBVIOUS
<1> HIDE DEF rest
<1>4. QED BY <1>1, <1>2, <1>3, RankedKeeps DEF AllKept

\* Ranking the runs that were tried keeps each of them.
LEMMA KeptWhenTried ==
    ASSUME RunsTypeOK, NEW j \in Known, NEW r \in Run, runs' = Ranked(WithRun(j, Tried(r)))
    PROVE  /\ DOMAIN runs' = Known /\ Keeps(r, runs'[j])
           /\ \A k \in Known \ {j} : Keeps(runs[k], runs'[k])
<1>1. Cardinality(Known) + 1 \in Nat
  BY IDsAssumption, FS_Subset, FS_CardinalityType DEF RunsTypeOK, Known
<1>2. Tried(r) \in Run /\ Keeps(r, Tried(r))
  BY <1>1, RunTypes, WritesKeep DEF Tried
<1>3. /\ DOMAIN WithRun(j, Tried(r)) = Known /\ WithRun(j, Tried(r))[j] = Tried(r)
      /\ \A k \in Known \ {j} : WithRun(j, Tried(r))[k] = runs[k]
      /\ WithRun(j, Tried(r)) \in [Known -> Run]
  BY <1>2, WithRunType DEF WithRun, Known
<1>4. /\ DOMAIN runs' = Known
      /\ \A k \in Known : Keeps(WithRun(j, Tried(r))[k], runs'[k])
  BY <1>3, RankedKeeps DEF RunsTypeOK, Known
<1>5. QED BY <1>2, <1>3, <1>4, KeepsCompose

\* Time starts no run, and changes no job or executor.
LEMMA AllKeptTick == ASSUME RunsTypeOK, Tick PROVE AllKept /\ ConfigsKept
<1>1. \A k \in Known : runs[k] \in Run
  BY DEF RunsTypeOK, Known
<1>2. \A e : OlderExecutor(executors[e]).config = executors[e].config
  BY DEF OlderExecutor
<1>3. QED BY <1>1, <1>2, WritesKeep DEF Tick, AllKept, ConfigsKept

\* What a step can do to the runs that are started, and when
StartStep ==
    \/ \E j \in Jobs, e \in Executors : RoundStarts(j, e)
    \/ /\ NoNewStart
       /\ \/ NoNewRan
          \/ \E j \in Known : /\ runs' = WithRun(j, [runs[j] EXCEPT !.ranAt = 0])
                              /\ JobIsRunning(j) \/ SetJobRunning(j)
       /\ \/ looping' = started /\ UNCHANGED started
          \/ JobsKept /\ ConfigsKept /\ UNCHANGED looping /\ (started => started')
          \/ JobsKept /\ ConfigsKept /\ looping /\ ToStop = {} /\ ~looping' /\ UNCHANGED started
          \/ Stop

\* Only RoundStarts starts a run; of the others, a loop begins, goes on, or ends when
\* there is nothing to stop.
LEMMA StepsOfStarts ==
    ASSUME TypeOK, [Next]_vars
    PROVE  StartStep
<1> USE DEF books, flags, StartAndStopRuns
<1>1. RunsTypeOK /\ \A j \in Known : j \in Jobs /\ runs[j] \in Run
  BY RunWriteTypes DEF TypeOK, RunsTypeOK, Known
<1>2. ASSUME AllKept, UNCHANGED executors,
             \/ UNCHANGED looping /\ (started => started')
             \/ looping' = started /\ UNCHANGED started
      PROVE  StartStep
  BY <1>2, AllKeptMeans DEF StartStep, ConfigsKept
<1>3. ASSUME UNCHANGED runs, looping' = started, UNCHANGED started
      PROVE  StartStep
  BY <1>3, AllKeptSame, AllKeptMeans DEF StartStep
<1>4. ASSUME NEW j \in Jobs, JobIsRunning(j) \/ SetJobRunning(j) PROVE StartStep
  <2>1. CASE j \in Known
    <3>1. /\ runs' = WithRun(j, [runs[j] EXCEPT !.ranAt = 0])
          /\ looping' = started /\ UNCHANGED started
      BY <1>4, <2>1 DEF JobIsRunning, SetJobRunning
    <3>2. NoNewStart
      BY <1>1, <2>1, <3>1, WritesKeep DEF NoNewStart, WithRun, RunsTypeOK, Known, KeepsStart
    <3>3. QED BY <1>4, <2>1, <3>1, <3>2 DEF StartStep
  <2>2. CASE j \notin Known
    BY <1>2, <1>4, <2>2, AllKeptSame DEF JobIsRunning, SetJobRunning
  <2>3. QED BY <2>1, <2>2
<1>5. ASSUME NEW j \in Jobs, SetJobHasMilestoneNow(j) \/ SetJobHasError(j) PROVE StartStep
  <2>1. AllKept
    BY <1>1, <1>5, AllKeptWithRun, WritesKeep DEF SetJobHasMilestoneNow, SetJobHasError
  <2>2. QED BY <1>2, <1>5, <2>1 DEF SetJobHasMilestoneNow, SetJobHasError
<1>6. ASSUME NEW j \in Jobs, NEW cfg \in JobConfigs, ChangeJob(j, cfg) PROVE StartStep
  <2>1. looping' = started /\ UNCHANGED started
    BY <1>6 DEF ChangeJob
  <2>2. NoNewStart /\ NoNewRan
    <3>1. CASE j \in Known
      <4>1. runs' = WithRun(j, [runs[j] EXCEPT !.job = cfg])
        BY <1>6, <3>1 DEF ChangeJob
      <4>2. /\ KeepsStart(runs[j], [runs[j] EXCEPT !.job = cfg])
            /\ Fresh(runs[j]) => Fresh([runs[j] EXCEPT !.job = cfg])
        BY <1>1, <3>1, WritesKeep
      <4>3. QED BY <1>1, <3>1, <4>1, <4>2
                DEF NoNewStart, NoNewRan, WithRun, RunsTypeOK, Known, KeepsStart
    <3>2. CASE j \notin Known
      <4> DEFINE more == [k \in Known \cup {j} |-> IF k = j THEN NewRun(cfg) ELSE runs[k]]
      <4>1. runs' = Ranked(more)
        BY <1>6, <3>2 DEF ChangeJob
      <4>2. NewRun(cfg) \in Run /\ Fresh(NewRun(cfg)) /\ NewRun(cfg).startedAt = Never
        BY DEF NewRun, Run, Age, Fresh
      <4>3. DOMAIN more \subseteq Jobs /\ \A k \in DOMAIN more : more[k] \in Run
        BY <1>1, <4>2
      <4>4. /\ DOMAIN more = Known \cup {j} /\ more[j] = NewRun(cfg)
            /\ \A k \in Known : more[k] = runs[k]
        BY <3>2
      <4> HIDE DEF more
      <4>5. DOMAIN runs' = Known \cup {j} /\ \A k \in DOMAIN runs' : Keeps(more[k], runs'[k])
        BY <4>1, <4>3, <4>4, RankedKeeps
      <4>6. QED BY <4>2, <4>4, <4>5 DEF NoNewStart, NoNewRan, Keeps, KeepsStart
    <3>3. QED BY <3>1, <3>2
  <2>3. QED BY <2>1, <2>2 DEF StartStep
<1>7. ASSUME NEW j \in Jobs, RemoveJob(j) \/ StopJob(j) PROVE StartStep
  BY <1>1, <1>2, <1>7, AllKeptStopJobs DEF RemoveJob, StopJob, RequestStop
<1>8. ASSUME NEW e \in Executors, NEW js \in SUBSET Jobs, SetJobsOnExecutor(e, js)
      PROVE  StartStep
  BY <1>1, <1>2, <1>8, AllKeptStopJobs DEF SetJobsOnExecutor
<1>9. CASE Stop
  <2>1. PICK js \in SUBSET Known : runs' = WithoutRuns(js)
    BY <1>9 DEF Stop
  <2>2. QED BY <1>1, <1>9, <2>1, AllKeptWithoutRuns, AllKeptMeans DEF StartStep
<1>10. CASE Start
  BY <1>2, <1>10, AllKeptSame DEF Start
<1>11. CASE \/ \E e \in Executors : RemoveExecutor(e) \/ FlushExecutorJobs(e) \/ SetExecutorIsAlive(e)
            \/ \E e \in Executors, cfg \in ExecutorConfigs, kept \in KeptAliveInputs :
                  ChangeExecutor(e, cfg, kept)
            \/ \E max \in TotalMaxJobCounts : SetTotalMaxJobCount(max)
            \/ TakeRefresh \/ TimerFires
  BY <1>3, <1>11 DEF RemoveExecutor, FlushExecutorJobs, SetExecutorIsAlive, ChangeExecutor,
                     SetTotalMaxJobCount, TakeRefresh, TimerFires
<1>12. ASSUME NEW j \in Jobs, NEW e, StartSucceeds(j, e) \/ StartFails(j, e) PROVE StartStep
  <2>1. AllKept
    BY <1>1, <1>12, AllKeptSame, AllKeptWithRun, WritesKeep DEF StartSucceeds, StartFails
  <2>2. QED BY <1>2, <1>12, <2>1 DEF StartSucceeds, StartFails
<1>13. ASSUME NEW j \in Jobs, NEW e, StopSucceeds(j, e) \/ StopFails(j, e) PROVE StartStep
  <2>1. AllKept
    BY <1>1, <1>13, AllKeptSame, AllKeptWithRun, WritesKeep, ZenonT(40) DEF StopSucceeds, StopFails
  <2>2. QED BY <1>2, <1>13, <2>1 DEF StopSucceeds, StopFails
<1>14. ASSUME NEW j \in Jobs, EndRun(j) PROVE StartStep
  <2>1. AllKept
    BY <1>1, <1>14, AllKeptSame, AllKeptWithRun, AllKeptWithoutRuns, WritesKeep
       DEF EndRun, RunsAfterEndOf
  <2>2. QED BY <1>2, <1>14, <2>1 DEF EndRun
<1>15. ASSUME NEW j \in Jobs, RoundStops(j) \/ RoundBalances(j) PROVE StartStep
  BY <1>1, <1>2, <1>15, AllKeptStopJobs DEF RoundStops, RoundBalances, TypeOK
<1>16. ASSUME NEW j \in Jobs, RoundFindsNoExecutor(j) PROVE StartStep
  <2>1. /\ j \in Known /\ runs' = Ranked(WithRun(j, Tried(runs[j])))
        /\ looping /\ ToStop = {} /\ ~looping' /\ UNCHANGED <<started, executors>>
    BY <1>16 DEF RoundFindsNoExecutor, RoundTries, OldestRuns, Startable, Considered
  <2>2. AllKept
    BY <1>1, <2>1, KeptWhenTried DEF AllKept
  <2>3. QED BY <2>1, <2>2, AllKeptMeans DEF StartStep, ConfigsKept
<1>17. CASE RoundEnds
  <2>1. looping /\ ToStop = {} /\ ~looping' /\ UNCHANGED <<started, executors, runs>>
    BY <1>17 DEF RoundEnds
  <2>2. QED BY <2>1, AllKeptSame, AllKeptMeans DEF StartStep, ConfigsKept
<1>18. CASE Tick
  <2>1. UNCHANGED <<looping, started>>
    BY <1>18 DEF Tick
  <2>2. QED BY <1>1, <1>18, <2>1, AllKeptTick, AllKeptMeans DEF StartStep
<1>19. CASE UNCHANGED vars
  BY <1>2, <1>19, AllKeptSame DEF vars
<1>20. ASSUME NEW j \in Jobs, NEW e \in Executors, RoundStarts(j, e) PROVE StartStep
  BY <1>20 DEF StartStep
<1>21. QED BY <1>4, <1>5, <1>6, <1>7, <1>8, <1>9, <1>10, <1>11, <1>12, <1>13, <1>14, <1>15, <1>16,
             <1>17, <1>18, <1>19, <1>20
          DEF Next, ClientStep, CallReturns, InternalStep, Round

-----------------------------------------------------------------------------
(* The round that starts a run *)

\* No run is passed over because of a recent error, as one is when the setup has
\* a MinimumTimeBeforeRestartingErroredJob.  A run that is passed over is not
\* counted as active, nor stopped when its records no longer allow it.
NoRunSkipped == \A j \in Known : ~Skipped(j)

\* A setup without that time never passes over a run.
LEMMA NoneSkippedByDefault ==
    ASSUME MinimumTimeBeforeRestartingErroredJob = 0
    PROVE  Spec => []NoRunSkipped
<1>1. TypeOK => NoRunSkipped
  BY DEF TypeOK, RunsTypeOK, Known, Run, Age, Never, NoRunSkipped, Skipped
<1>2. QED BY <1>1, TypeCorrect, PTL

AllowedRun(k) ==
    /\ runs[k].job.isAble
    /\ runs[k].executor \in DOMAIN executors
    /\ Executing(k).config.isAble
    /\ KeepJobsBeyondAtEndUntilEnoughSlack = 0 => ~Executing(k).config.paused
    /\ JobMatchesExecutorAttributes(runs[k].job, Executing(k).config)

\* When a round finds no run to stop, every started run may go on.
LEMMA NothingToStop ==
    ASSUME TypeOK, RunsConsistent, NoRunSkipped, ToStop = {}, NEW k \in Known,
           runs[k].startedAt # Never
    PROVE  ~runs[k].stopping /\ AllowedRun(k)
<1>1. ~runs[k].stopping /\ runs[k].executor # NoExecutor
  BY DEF RunsConsistent, RunConsistent
<1>2. ~ShouldStopJob(k)
  BY <1>1 DEF ToStop, NoRunSkipped
<1>3. QED BY <1>1, <1>2 DEF ShouldStopJob, AllowedRun, PausedExecutorStops

\* startJob starts a run that was on no executor on one that is fit for it.
LEMMA WhatRoundStarts ==
    ASSUME TypeOK, NEW j \in Jobs, NEW e \in Executors, RoundStarts(j, e)
    PROVE  /\ ToStop = {} /\ looping /\ ~looping' /\ ~MaximumReached
           /\ UNCHANGED <<executors, totalMax, started, stopped>>
           /\ j \in Considered /\ j \in Startable /\ e \in SuitableExecutors(j)
           /\ DOMAIN runs' = Known
           /\ runs'[j].executor = e /\ runs'[j].job = runs[j].job
           /\ Fresh(runs[j]) => Fresh(runs'[j])
           /\ \A k \in Known \ {j} : Keeps(runs[k], runs'[k])
<1> DEFINE r == StartedRun(runs[j], e, executors[e].changedCount)
<1>1. /\ ToStop = {} /\ looping /\ ~looping' /\ ~MaximumReached
      /\ UNCHANGED <<executors, totalMax, started, stopped>>
      /\ j \in Considered /\ j \in Startable /\ e \in SuitableExecutors(j)
      /\ runs' = Ranked(WithRun(j, Tried(r)))
  BY DEF RoundStarts, RoundTries, OldestRuns, Startable, flags
<1>2. /\ j \in Known /\ runs[j].executor = NoExecutor /\ e \in DOMAIN executors
  BY <1>1 DEF Startable, Considered, SuitableExecutors, RunnableExecutors
<1>3. RunsTypeOK /\ runs[j] \in Run /\ executors[e].changedCount \in Nat
  BY <1>2, RunWriteTypes DEF TypeOK, ExecutorsTypeOK, Executor
<1>4. r \in Run /\ r.executor = e /\ r.job = runs[j].job /\ r.ranAt = runs[j].ranAt
      /\ r.startedAt # Never
  <2>1. r \in Run
    BY <1>3, RunTypes
  <2>2. QED BY <1>3, <2>1 DEF StartedRun, Run, Never
<1>5. Fresh(runs[j]) => Fresh(r)
  BY <1>2, <1>4 DEF Fresh
<1> HIDE DEF r
<1>6. /\ DOMAIN runs' = Known /\ Keeps(r, runs'[j])
      /\ \A k \in Known \ {j} : Keeps(runs[k], runs'[k])
  BY <1>1, <1>2, <1>3, <1>4, KeptWhenTried
<1>7. runs'[j].executor = e
  BY <1>1, <1>2, <1>3, <1>4, FlagsTried
<1>8. QED BY <1>1, <1>4, <1>5, <1>6, <1>7 DEF Keeps

-----------------------------------------------------------------------------
(* TotalMaxJobCount *)

StartedJobs == { j \in Known : runs[j].startedAt # Never }

\* The round that starts a run has counted all that are started.
LEMMA StartedWithinMaxStep ==
    ASSUME TypeOK, TypeOK', RunsConsistent, NoRunSkipped, [Next]_vars
    PROVE  [totalMax' # NoLimit /\ StartedCount' > StartedCount => StartedCount' <= totalMax']_vars
<1>1. /\ IsFiniteSet(StartedJobs) /\ StartedCount = Cardinality(StartedJobs) /\ StartedCount \in Nat
      /\ IsFiniteSet(Known)
  BY IDsAssumption, FS_Subset, FS_CardinalityType
     DEF StartedJobs, StartedCount, TypeOK, RunsTypeOK, Known
<1>2. /\ IsFiniteSet(StartedJobs') /\ StartedCount' = Cardinality(StartedJobs') /\ StartedCount' \in Nat
  BY IDsAssumption, FS_Subset, FS_CardinalityType
     DEF StartedJobs, StartedCount, TypeOK, RunsTypeOK, Known
<1>3. CASE NoNewStart
  <2>1. StartedJobs' \subseteq StartedJobs
    BY <1>3 DEF NoNewStart, KeepsStart, StartedJobs, Known
  <2>2. StartedCount' <= StartedCount
    BY <1>1, <1>2, <2>1, FS_Subset
  <2>3. QED BY <1>1, <1>2, <2>2
<1>4. ASSUME NEW j \in Jobs, NEW e \in Executors, RoundStarts(j, e), totalMax' # NoLimit
      PROVE  StartedCount' <= totalMax'
  <2>1. /\ ToStop = {} /\ ~MaximumReached /\ UNCHANGED totalMax /\ j \in Considered
        /\ DOMAIN runs' = Known /\ \A k \in Known \ {j} : Keeps(runs[k], runs'[k])
    BY <1>4, WhatRoundStarts
  <2>2. StartedJobs' \subseteq StartedJobs \cup {j}
    BY <2>1 DEF Keeps, KeepsStart, StartedJobs, Known
  <2>3. StartedCount' <= StartedCount + 1
    <3>1. /\ IsFiniteSet(StartedJobs \cup {j})
          /\ Cardinality(StartedJobs \cup {j}) \in Nat
          /\ Cardinality(StartedJobs \cup {j}) <= StartedCount + 1
      <4>1. /\ IsFiniteSet(StartedJobs \cup {j})
            /\ Cardinality(StartedJobs \cup {j}) =
                 IF j \in StartedJobs THEN Cardinality(StartedJobs) ELSE Cardinality(StartedJobs) + 1
        BY <1>1, FS_AddElement
      <4>2. QED BY <1>1, <4>1
    <3>2. Cardinality(StartedJobs') <= Cardinality(StartedJobs \cup {j})
      BY <2>2, <3>1, FS_Subset
    <3>3. QED BY <1>1, <1>2, <3>1, <3>2
  <2>4. StartedCount <= ActiveCount /\ ActiveCount \in Nat
    <3> DEFINE active == { k \in Considered : runs[k].startedAt # Never \/ runs[k].ranAt # Never }
    <3>1. StartedJobs \subseteq active
      BY <2>1, NothingToStop DEF StartedJobs, Considered, NoRunSkipped, AllowedRun
    <3>2. IsFiniteSet(active)
      BY <1>1, FS_Subset DEF Considered
    <3>3. QED BY <1>1, <3>1, <3>2, FS_Subset, FS_CardinalityType DEF ActiveCount
  <2>5. totalMax \in Nat /\ ActiveCount < totalMax
    BY <1>4, <2>1, <2>4 DEF MaximumReached, TypeOK
  <2>6. QED BY <1>1, <1>2, <2>1, <2>3, <2>4, <2>5
<1>5. QED BY <1>3, <1>4, StepsOfStarts DEF StartStep

\* The number of started runs does not grow beyond TotalMaxJobCount.
THEOREM StartsWithinTotalMax == Spec /\ []NoRunSkipped => StartedWithinMax
<1>1. TypeOK /\ TypeOK' /\ RunsConsistent /\ NoRunSkipped /\ [Next]_vars
        => [totalMax' # NoLimit /\ StartedCount' > StartedCount => StartedCount' <= totalMax']_vars
  BY StartedWithinMaxStep
<1>2. QED BY <1>1, TypeCorrect, RunsAreConsistent, PTL DEF Spec, StartedWithinMax

-----------------------------------------------------------------------------
(* What the records of jobs and executors allow *)

\* Nothing is started before Start, and no loop runs.
NothingBeforeStart ==
    ~started => ~looping /\ \A j \in Known : runs[j].startedAt = Never

AllowedInv == NothingBeforeStart /\ StartedRunsAreAllowed

LEMMA AllowedInvInit == Init => AllowedInv
<1> SUFFICES ASSUME Init PROVE AllowedInv
  OBVIOUS
<1>1. PICK f \in InitialJobs :
         \E rank \in Bijection(DOMAIN f, 1..Cardinality(DOMAIN f)) :
           runs = [k \in DOMAIN f |-> [NewRun(f[k]) EXCEPT !.triedToRunIndex = rank[k]]]
  BY DEF Init
<1>2. PICK rank \in Bijection(DOMAIN f, 1..Cardinality(DOMAIN f)) :
         runs = [k \in DOMAIN f |-> [NewRun(f[k]) EXCEPT !.triedToRunIndex = rank[k]]]
  BY <1>1
<1>3. ASSUME NEW cfg, NEW n
      PROVE  [NewRun(cfg) EXCEPT !.triedToRunIndex = n].startedAt = Never
  BY DEF NewRun
<1>4. ASSUME NEW j \in Known PROVE runs[j].startedAt = Never
  <2>1. runs[j] = [NewRun(f[j]) EXCEPT !.triedToRunIndex = rank[j]]
    BY <1>2 DEF Known
  <2>2. QED BY <1>3, <2>1
<1>5. QED BY <1>4 DEF Init, AllowedInv, NothingBeforeStart, StartedRunsAreAllowed

\* A handler that changes what is allowed calls startAndStopRuns, if the
\* scheduler is started; and that loop ends when no run is to be stopped.
LEMMA AllowedInvStep ==
    ASSUME KeepJobsBeyondAtEndUntilEnoughSlack = 0, "Stop" \notin Requests,
           TypeOK, RunsConsistent, NoRunSkipped, AllowedInv, [Next]_vars
    PROVE  AllowedInv'
<1>1. started \in BOOLEAN /\ looping \in BOOLEAN
  BY DEF TypeOK
<1>2. ASSUME NoNewStart, looping' = started, UNCHANGED started PROVE AllowedInv'
  <2>1. ~started => \A j \in DOMAIN runs' : runs'[j].startedAt = Never
    BY <1>2 DEF AllowedInv, NothingBeforeStart, NoNewStart, KeepsStart
  <2>2. QED BY <1>2, <2>1 DEF AllowedInv, NothingBeforeStart, StartedRunsAreAllowed, Known
<1>3. ASSUME NoNewStart, JobsKept, ConfigsKept, started => started',
             \A k \in Known : ~looping' /\ runs[k].startedAt # Never => AllowedRun(k),
             ~started' => ~looping'
      PROVE  AllowedInv'
  <2>1. NothingBeforeStart'
    BY <1>3 DEF AllowedInv, NothingBeforeStart, NoNewStart, KeepsStart, Known
  <2>2. ASSUME ~looping', NEW j \in DOMAIN runs', runs'[j].startedAt # Never
        PROVE  /\ runs'[j].job.isAble
               /\ runs'[j].executor \in DOMAIN executors'
               /\ executors'[runs'[j].executor].config.isAble
               /\ ~executors'[runs'[j].executor].config.paused
               /\ JobMatchesExecutorAttributes(runs'[j].job, executors'[runs'[j].executor].config)
    <3>1. /\ j \in Known /\ runs[j].startedAt # Never
          /\ runs'[j].executor = runs[j].executor /\ runs'[j].job = runs[j].job
      BY <1>3, <2>2 DEF NoNewStart, JobsKept, KeepsStart
    <3>2. AllowedRun(j)
      BY <1>3, <2>2, <3>1
    <3>3. /\ runs'[j].executor \in DOMAIN executors'
          /\ executors'[runs'[j].executor].config = Executing(j).config
      BY <1>3, <3>1, <3>2 DEF ConfigsKept, AllowedRun, Executing
    <3>4. QED BY <3>1, <3>2, <3>3 DEF AllowedRun
  <2>3. QED BY <2>1, <2>2 DEF AllowedInv, StartedRunsAreAllowed, Executing, Known
<1>4. ASSUME NoNewStart, JobsKept, ConfigsKept, UNCHANGED looping, started => started'
      PROVE  AllowedInv'
  <2>1. \A k \in Known : ~looping' /\ runs[k].startedAt # Never => AllowedRun(k)
    BY <1>4 DEF AllowedInv, StartedRunsAreAllowed, AllowedRun
  <2>2. ~started' => ~looping'
    BY <1>4 DEF AllowedInv, NothingBeforeStart
  <2>3. QED BY <1>3, <1>4, <2>1, <2>2
<1>5. ASSUME NoNewStart, JobsKept, ConfigsKept, ToStop = {}, ~looping', UNCHANGED started
      PROVE  AllowedInv'
  BY <1>3, <1>5, NothingToStop
<1>6. ASSUME NEW j \in Jobs, NEW e \in Executors, RoundStarts(j, e) PROVE AllowedInv'
  <2>1. /\ ToStop = {} /\ looping /\ ~looping' /\ UNCHANGED <<executors, started>>
        /\ j \in Considered /\ e \in SuitableExecutors(j) /\ DOMAIN runs' = Known
        /\ runs'[j].executor = e /\ runs'[j].job = runs[j].job
        /\ \A k \in Known \ {j} : Keeps(runs[k], runs'[k])
    BY <1>6, WhatRoundStarts
  <2>2. started'
    BY <2>1 DEF AllowedInv, NothingBeforeStart
  <2>3. ASSUME NEW k \in Known, runs'[k].startedAt # Never
        PROVE  /\ runs'[k].job.isAble
               /\ runs'[k].executor \in DOMAIN executors
               /\ executors[runs'[k].executor].config.isAble
               /\ ~executors[runs'[k].executor].config.paused
               /\ JobMatchesExecutorAttributes(runs'[k].job, executors[runs'[k].executor].config)
    <3>1. CASE k = j
      BY <2>1, <3>1 DEF Considered, SuitableExecutors, RunnableExecutors
    <3>2. CASE k # j
      <4>1. /\ runs[k].startedAt # Never /\ runs'[k].executor = runs[k].executor
            /\ runs'[k].job = runs[k].job
        BY <2>1, <2>3, <3>2 DEF Keeps, KeepsStart
      <4>2. AllowedRun(k)
        BY <2>1, <4>1, NothingToStop
      <4>3. QED BY <4>1, <4>2 DEF AllowedRun, Executing
    <3>3. QED BY <3>1, <3>2
  <2>4. QED BY <2>1, <2>2, <2>3
            DEF AllowedInv, NothingBeforeStart, StartedRunsAreAllowed, Executing, Known
<1>7. ~Stop
  BY DEF Stop
<1>8. QED BY <1>2, <1>4, <1>5, <1>6, <1>7, StepsOfStarts DEF StartStep

\* Between two messages every started run is able, on an executor that is able
\* and not paused, and matches its attributes: until Stop, and unless the setup
\* lets a run go on for a while on a paused executor.
THEOREM RunsAreAllowed ==
    ASSUME KeepJobsBeyondAtEndUntilEnoughSlack = 0, "Stop" \notin Requests
    PROVE  Spec /\ []NoRunSkipped => []StartedRunsAreAllowed
<1>1. TypeOK /\ RunsConsistent /\ NoRunSkipped /\ AllowedInv /\ [Next]_vars => AllowedInv'
  BY AllowedInvStep
<1>2. AllowedInv => StartedRunsAreAllowed
  BY DEF AllowedInv
<1>3. QED BY <1>1, <1>2, TypeCorrect, RunsAreConsistent, AllowedInvInit, PTL DEF Spec

-----------------------------------------------------------------------------
(* The capacity of an executor *)

\* Clients do not change the cost of a job, nor the capacity of an executor,
\* also when they remove it and add it again.
CostsAre(cost, capacity) ==
    /\ \A j \in Known : runs[j].job.cost = cost[j]
    /\ \A e \in DOMAIN executors : executors[e].config.capacity = capacity[e]

\* The runs that are on an executor, whether their jobs are able or not
Booked(e) == { j \in Known : runs[j].executor = e /\ runs[j].startedAt # Never }

BookedInv(cost, capacity) ==
    \A e \in Executors : SumFunctionOnSet(cost, Booked(e)) <= capacity[e]

\* The runs on an executor are finitely many.
LEMMA BookedSets ==
    ASSUME TypeOK, NEW e
    PROVE  IsFiniteSet(Booked(e)) /\ Booked(e) \subseteq Jobs /\ Loading(e) \subseteq Booked(e)
  BY IDsAssumption, FS_Subset DEF TypeOK, RunsTypeOK, Booked, Loading, Known

\* With these costs, the load of an executor is the sum of them.
LEMMA LoadIsSum ==
    ASSUME TypeOK, NEW cost \in [Jobs -> Nat], NEW capacity, CostsAre(cost, capacity), NEW e
    PROVE  Load(e) = SumFunctionOnSet(cost, Loading(e))
<1> DEFINE own == [j \in Known |-> runs[j].job.cost]
<1>1. \A j \in Loading(e) : own[j] = cost[j] /\ j \in Jobs
  BY DEF CostsAre, Loading, TypeOK, RunsTypeOK, Known
<1>2. IsFiniteSet(Loading(e))
  BY BookedSets, FS_Subset
<1>3. Natural(own, Loading(e))
  BY <1>1 DEF Natural
<1>4. Load(e) = SumFunctionOnSet(own, Loading(e))
  BY DEF Load, CostOf
<1> HIDE DEF own
<1>5. QED BY <1>1, <1>2, <1>3, <1>4, SumAgrees

\* A run is put on an executor only if the sum of the costs there leaves room.
LEMMA BookedInvStep ==
    ASSUME NEW cost \in [Jobs -> Nat], NEW capacity \in [Executors -> Nat],
           TypeOK, TypeOK', RunsConsistent, NoRunSkipped, CostsAre(cost, capacity),
           BookedInv(cost, capacity), [Next]_vars
    PROVE  BookedInv(cost, capacity)'
<1> SUFFICES ASSUME NEW e \in Executors
             PROVE  SumFunctionOnSet(cost, Booked(e)') <= capacity[e]
  BY DEF BookedInv
<1>1. IsFiniteSet(Booked(e)) /\ Booked(e) \subseteq Jobs /\ Natural(cost, Booked(e))
  BY BookedSets DEF Natural
<1>2. IsFiniteSet(Booked(e)') /\ Booked(e)' \subseteq Jobs /\ Natural(cost, Booked(e)')
  BY IDsAssumption, FS_Subset DEF Booked, TypeOK, RunsTypeOK, Known, Natural
<1>3. /\ SumFunctionOnSet(cost, Booked(e)) \in Nat /\ SumFunctionOnSet(cost, Booked(e)') \in Nat
      /\ SumFunctionOnSet(cost, Booked(e)) <= capacity[e] /\ capacity[e] \in Nat
  BY <1>1, <1>2, SumType DEF BookedInv
<1>4. ASSUME Booked(e)' \subseteq Booked(e)
      PROVE  SumFunctionOnSet(cost, Booked(e)') <= capacity[e]
  <2>1. SumFunctionOnSet(cost, Booked(e)') <= SumFunctionOnSet(cost, Booked(e))
    BY <1>1, <1>4, SumOfPart
  <2>2. QED BY <1>3, <2>1
<1>5. CASE NoNewStart
  BY <1>4, <1>5 DEF NoNewStart, KeepsStart, Booked, Known
<1>6. ASSUME NEW j \in Jobs, NEW f \in Executors, RoundStarts(j, f)
      PROVE  SumFunctionOnSet(cost, Booked(e)') <= capacity[e]
  <2>1. /\ ToStop = {} /\ UNCHANGED executors
        /\ j \in Startable /\ f \in SuitableExecutors(j) /\ DOMAIN runs' = Known
        /\ runs'[j].executor = f
        /\ \A k \in Known \ {j} : Keeps(runs[k], runs'[k])
    BY <1>6, WhatRoundStarts
  <2>2. CASE f # e
    <3>1. Booked(e)' \subseteq Booked(e)
      BY <2>1, <2>2 DEF Keeps, KeepsStart, Booked, Known
    <3>2. QED BY <1>4, <3>1
  <2>3. CASE f = e
    <3>1. j \in Known /\ j \notin Booked(e)
      BY <2>1 DEF Startable, Considered, Booked
    <3>2. Booked(e)' \subseteq Booked(e) \cup {j}
      BY <2>1 DEF Keeps, KeepsStart, Booked, Known
    <3>3. Loading(e) = Booked(e)
      BY <2>1, NothingToStop DEF Loading, Booked, AllowedRun
    <3>4. SumFunctionOnSet(cost, Booked(e)) + cost[j] <= capacity[e]
      <4>1. /\ executors[e].config.capacity = capacity[e] /\ runs[j].job.cost = cost[j]
            /\ Spare(e) >= runs[j].job.cost
        BY <2>1, <2>3, <3>1 DEF CostsAre, SuitableExecutors, RunnableExecutors, HasRoom
      <4>2. Spare(e) = capacity[e] - SumFunctionOnSet(cost, Booked(e))
        BY <3>3, <4>1, LoadIsSum DEF Spare
      <4>3. QED BY <1>3, <4>1, <4>2
    <3>5. SumFunctionOnSet(cost, Booked(e) \cup {j}) = cost[j] + SumFunctionOnSet(cost, Booked(e))
      <4> DEFINE all == Booked(e) \cup {j}
      <4>1. IsFiniteSet(all) /\ Natural(cost, all) /\ j \in all /\ all \ {j} = Booked(e)
        BY <1>1, <3>1, FS_AddElement DEF Natural
      <4> HIDE DEF all
      <4>2. SumFunctionOnSet(cost, all) = cost[j] + SumFunctionOnSet(cost, Booked(e))
        BY <4>1, SumWithout
      <4>3. QED BY <4>2 DEF all
    <3>6. SumFunctionOnSet(cost, Booked(e)') <= SumFunctionOnSet(cost, Booked(e) \cup {j})
      <4>1. IsFiniteSet(Booked(e) \cup {j}) /\ Natural(cost, Booked(e) \cup {j})
        BY <1>1, FS_AddElement DEF Natural
      <4>2. QED BY <3>2, <4>1, SumOfPart
    <3>7. QED BY <1>3, <3>4, <3>5, <3>6
  <2>4. QED BY <2>2, <2>3
<1>7. QED BY <1>5, <1>6, StepsOfStarts DEF StartStep

LEMMA BookedInvInit ==
    ASSUME NEW cost \in [Jobs -> Nat], NEW capacity \in [Executors -> Nat]
    PROVE  Init => BookedInv(cost, capacity)
<1> SUFFICES ASSUME Init, NEW e \in Executors
             PROVE  SumFunctionOnSet(cost, Booked(e)) <= capacity[e]
  BY DEF BookedInv
<1>1. ~started
  BY DEF Init
<1>2. Booked(e) = {}
  BY <1>1, AllowedInvInit DEF AllowedInv, NothingBeforeStart, Booked
<1>3. SumFunctionOnSet(cost, {}) = 0
  BY SumTaken, FS_EmptySet
<1>4. QED BY <1>2, <1>3

\* The runs that count are some of those on the executor.
LEMMA BookedInvMeans ==
    ASSUME TypeOK, NEW cost \in [Jobs -> Nat], NEW capacity \in [Executors -> Nat],
           CostsAre(cost, capacity), BookedInv(cost, capacity)
    PROVE  BookedWithinCapacity
<1> SUFFICES ASSUME NEW e \in DOMAIN executors
             PROVE  Load(e) <= executors[e].config.capacity
  BY DEF BookedWithinCapacity
<1>1. e \in Executors /\ executors[e].config.capacity = capacity[e]
  BY DEF TypeOK, ExecutorsTypeOK, CostsAre
<1>2. /\ IsFiniteSet(Booked(e)) /\ Natural(cost, Booked(e)) /\ Loading(e) \in SUBSET Booked(e)
      /\ IsFiniteSet(Loading(e)) /\ Natural(cost, Loading(e))
  BY BookedSets, FS_Subset DEF Natural
<1>3. /\ SumFunctionOnSet(cost, Loading(e)) <= SumFunctionOnSet(cost, Booked(e))
      /\ SumFunctionOnSet(cost, Loading(e)) \in Nat /\ SumFunctionOnSet(cost, Booked(e)) \in Nat
  BY <1>2, SumOfPart, SumType
<1>4. SumFunctionOnSet(cost, Booked(e)) <= capacity[e] /\ capacity[e] \in Nat
  BY <1>1 DEF BookedInv
<1>5. Load(e) = SumFunctionOnSet(cost, Loading(e))
  BY LoadIsSum
<1>6. QED BY <1>1, <1>3, <1>4, <1>5

\* The cost booked on an executor stays within its capacity, whatever clients
\* ask and calls answer, as long as costs and capacities stay what they are.
THEOREM CapacityIsKept ==
    ASSUME NEW cost \in [Jobs -> Nat], NEW capacity \in [Executors -> Nat]
    PROVE  Spec /\ []NoRunSkipped /\ []CostsAre(cost, capacity) => []BookedWithinCapacity
<1>1. TypeOK /\ TypeOK' /\ RunsConsistent /\ NoRunSkipped /\ CostsAre(cost, capacity)
        /\ BookedInv(cost, capacity) /\ [Next]_vars => BookedInv(cost, capacity)'
  BY BookedInvStep
<1>2. TypeOK /\ CostsAre(cost, capacity) /\ BookedInv(cost, capacity) => BookedWithinCapacity
  BY BookedInvMeans
<1>3. Init => BookedInv(cost, capacity)
  BY BookedInvInit
<1>4. QED BY <1>1, <1>2, <1>3, TypeCorrect, RunsAreConsistent, PTL DEF Spec

-----------------------------------------------------------------------------
(* SimultaneousStarts *)

StartsOn(e) == { j \in Known : runs[j].executor = e /\ runs[j].starting }

\* After Stop nothing is starting; before, a run that is starting or waits for
\* an executor is not running.
StartsInv ==
    /\ ~stopped => \A j \in Known : Fresh(runs[j])
    /\ stopped => \A j \in Known : ~runs[j].starting
    /\ SimultaneousStarts # 0 => \A e \in Executors : Cardinality(StartsOn(e)) <= SimultaneousStarts

LEMMA StartsInvInit == Init => StartsInv
<1> SUFFICES ASSUME Init PROVE StartsInv
  OBVIOUS
<1>1. PICK f \in InitialJobs :
         \E rank \in Bijection(DOMAIN f, 1..Cardinality(DOMAIN f)) :
           runs = [k \in DOMAIN f |-> [NewRun(f[k]) EXCEPT !.triedToRunIndex = rank[k]]]
  BY DEF Init
<1>2. PICK rank \in Bijection(DOMAIN f, 1..Cardinality(DOMAIN f)) :
         runs = [k \in DOMAIN f |-> [NewRun(f[k]) EXCEPT !.triedToRunIndex = rank[k]]]
  BY <1>1
<1>3. ASSUME NEW cfg, NEW n
      PROVE  /\ [NewRun(cfg) EXCEPT !.triedToRunIndex = n].ranAt = Never
             /\ ~[NewRun(cfg) EXCEPT !.triedToRunIndex = n].starting
  BY DEF NewRun
<1>4. ASSUME NEW j \in Known PROVE runs[j].ranAt = Never /\ ~runs[j].starting
  <2>1. runs[j] = [NewRun(f[j]) EXCEPT !.triedToRunIndex = rank[j]]
    BY <1>2 DEF Known
  <2>2. QED BY <1>3, <2>1
<1>5. \A e : StartsOn(e) = {}
  BY <1>4 DEF StartsOn
<1>6. \A e : Cardinality(StartsOn(e)) <= SimultaneousStarts
  BY <1>5, FS_EmptySet, SetupAssumption
<1>7. ~stopped
  BY DEF Init
<1>8. QED BY <1>4, <1>6, <1>7 DEF StartsInv, Fresh

\* Whether a start succeeds is not enough for a job to count as running: then no
\* JobIsRunningCh message of the goroutines of startJob is ever on its way.
NoRunningMsgs == \A j \in Jobs : runningMsgs[j] = 0

\* Without JobIsRunningOnSuccessfulStart nothing writes to JobIsRunningCh.
LEMMA NoRunningMsgsWithout ==
    ASSUME ~JobIsRunningOnSuccessfulStart
    PROVE  Spec => []NoRunningMsgs
<1>1. Init => NoRunningMsgs
  BY DEF Init, NoRunningMsgs
<1>2. ASSUME NoRunningMsgs, [Next]_vars PROVE NoRunningMsgs'
  <2>1. \A j \in Jobs : ~SetJobRunning(j)
    BY <1>2 DEF NoRunningMsgs, SetJobRunning
  <2>2. UNCHANGED runningMsgs
    BY <1>2, <2>1
       DEF Next, vars, flags, msgs, ClientStep, CallReturns, InternalStep, Round,
           Start, Stop, RemoveJob, StopJob,
           RequestStop, JobIsRunning, SetJobHasMilestoneNow, SetJobHasError, ChangeJob, RemoveExecutor,
           FlushExecutorJobs, SetExecutorIsAlive, ChangeExecutor, SetJobsOnExecutor, SetTotalMaxJobCount,
           StartSucceeds, StartFails, StopSucceeds, StopFails, EndRun, TakeRefresh,
           TimerFires, RoundStops, RoundTries, RoundFindsNoExecutor, RoundBalances, RoundStarts,
           RoundEnds, Tick
  <2>3. QED BY <1>2, <2>2 DEF NoRunningMsgs
<1>3. QED BY <1>1, <1>2, PTL DEF Spec

\* An executor says that a job runs only when its start call has returned.
LEMMA RunningIsNotFresh ==
    ASSUME TypeOK, OneCallPerRun, StartingHasCall, ~stopped, NEW j \in Known, JobIsRunning(j)
    PROVE  runs[j].executor # NoExecutor /\ ~runs[j].starting
<1>1. j \in Jobs /\ runs[j].executor \in Executors \cup {NoExecutor}
  BY DEF TypeOK, RunsTypeOK, Known, Run
<1>2. PICK e \in Executors : <<j, e>> \in live
  BY DEF JobIsRunning
<1>3. CallsMatch(j, runs[j])
  BY <1>1 DEF OneCallPerRun, JobCallsMatch
<1>4. runs[j].executor = e
  BY <1>2, <1>3 DEF CallsMatch
<1>5. startCalls[j][e] = 0
  BY <1>2, <1>3 DEF CallsMatch
<1>6. e # NoExecutor
  BY IDsAssumption
<1>7. QED BY <1>4, <1>5, <1>6 DEF StartingHasCall

\* Only Stop stops the scheduler.
LEMMA OnlyStopStops == [Next]_vars => Stop \/ UNCHANGED stopped
  BY DEF Next, vars, flags, books, ClientStep, CallReturns, InternalStep, Round,
         Start, RemoveJob, StopJob,
         RequestStop, JobIsRunning, SetJobHasMilestoneNow, SetJobHasError, ChangeJob, RemoveExecutor,
         FlushExecutorJobs, SetExecutorIsAlive, ChangeExecutor, SetJobsOnExecutor, SetTotalMaxJobCount,
         StartSucceeds, StartFails, StopSucceeds, StopFails, EndRun, SetJobRunning, TakeRefresh,
         TimerFires, RoundStops, RoundTries, RoundFindsNoExecutor, RoundBalances, RoundStarts,
         RoundEnds, Tick

\* startJob counts the runs of an executor that are not running yet, and those
\* that are starting are among them.
LEMMA StartsOnWithinLimit ==
    ASSUME TypeOK, TypeOK', RunsConsistent, RunsConsistent', NoRunSkipped, StartsInv, [Next]_vars,
           SimultaneousStarts # 0, NEW e \in Executors
    PROVE  Cardinality(StartsOn(e)') <= SimultaneousStarts
<1>1. /\ IsFiniteSet(StartsOn(e)) /\ Cardinality(StartsOn(e)) \in Nat /\ IsFiniteSet(Known)
      /\ Cardinality(StartsOn(e)) <= SimultaneousStarts /\ SimultaneousStarts \in Nat
  BY IDsAssumption, SetupAssumption, FS_Subset, FS_CardinalityType
     DEF StartsOn, TypeOK, RunsTypeOK, Known, StartsInv
<1>2. IsFiniteSet(StartsOn(e)') /\ Cardinality(StartsOn(e)') \in Nat
  BY IDsAssumption, FS_Subset, FS_CardinalityType DEF StartsOn, TypeOK, RunsTypeOK, Known
<1>3. \A j \in DOMAIN runs' : runs'[j].starting => runs'[j].startedAt # Never
  BY DEF RunsConsistent, RunConsistent, Known
<1>4. ASSUME StartsOn(e)' \subseteq StartsOn(e)
      PROVE  Cardinality(StartsOn(e)') <= SimultaneousStarts
  BY <1>1, <1>2, <1>4, FS_Subset
<1>5. CASE NoNewStart
  BY <1>3, <1>4, <1>5 DEF NoNewStart, KeepsStart, StartsOn, Known
<1>6. ASSUME NEW j \in Jobs, NEW f \in Executors, RoundStarts(j, f)
      PROVE  Cardinality(StartsOn(e)') <= SimultaneousStarts
  <2>1. /\ ToStop = {} /\ j \in Considered /\ f \in SuitableExecutors(j)
        /\ DOMAIN runs' = Known /\ runs'[j].executor = f
        /\ \A k \in Known \ {j} : Keeps(runs[k], runs'[k])
    BY <1>6, WhatRoundStarts
  <2>2. CASE f # e
    <3>1. StartsOn(e)' \subseteq StartsOn(e)
      BY <1>3, <2>1, <2>2 DEF Keeps, KeepsStart, StartsOn, Known
    <3>2. QED BY <1>4, <3>1
  <2>3. CASE f = e
    <3> DEFINE counted == { k \in Loading(e) : runs[k].ranAt = Never }
    <3>1. StartsOn(e)' \subseteq StartsOn(e) \cup {j}
      BY <1>3, <2>1 DEF Keeps, KeepsStart, StartsOn, Known
    <3>2. StartsOn(e) \subseteq counted
      <4> SUFFICES ASSUME NEW k \in StartsOn(e) PROVE k \in counted
        OBVIOUS
      <4>1. k \in Known /\ runs[k].executor = e /\ runs[k].starting /\ runs[k].startedAt # Never
        BY DEF StartsOn, RunsConsistent, RunConsistent
      <4>2. ~runs[k].stopping /\ runs[k].job.isAble
        BY <2>1, <4>1, NothingToStop DEF AllowedRun
      <4>3. runs[k].ranAt = Never
        BY <2>1, <4>1 DEF StartsInv, Fresh, Considered
      <4>4. QED BY <4>1, <4>2, <4>3 DEF Loading
    <3>3. IsFiniteSet(counted) /\ Cardinality(counted) \in Nat
      BY <1>1, FS_Subset, FS_CardinalityType DEF Loading
    <3>4. Cardinality(StartsOn(e)) <= Cardinality(counted)
      BY <3>2, <3>3, FS_Subset
    <3>5. ~(Cardinality(counted) >= SimultaneousStarts)
      BY <2>1, <2>3 DEF SuitableExecutors, StartsOthers, StartingCount
    <3>6. /\ IsFiniteSet(StartsOn(e) \cup {j})
          /\ Cardinality(StartsOn(e) \cup {j}) =
               IF j \in StartsOn(e) THEN Cardinality(StartsOn(e)) ELSE Cardinality(StartsOn(e)) + 1
      BY <1>1, FS_AddElement
    <3>7. Cardinality(StartsOn(e)') <= Cardinality(StartsOn(e) \cup {j})
      BY <3>1, <3>6, FS_Subset
    <3> HIDE DEF counted
    <3>8. QED BY <1>1, <1>2, <3>3, <3>4, <3>5, <3>6, <3>7
  <2>4. QED BY <2>2, <2>3
<1>7. QED BY <1>5, <1>6, StepsOfStarts DEF StartStep

\* No step marks a run that starts, or waits, as running.
LEMMA StartsInvStep ==
    ASSUME TypeOK, TypeOK', RunsConsistent, RunsConsistent', NoRunSkipped,
           OneCallPerRun, StartingHasCall, NoRunningMsgs, StartsInv, [Next]_vars
    PROVE  StartsInv'
<1>1. \A j \in DOMAIN runs' : runs'[j].starting => runs'[j].startedAt # Never
  BY DEF RunsConsistent, RunConsistent, Known
<1>2. stopped \in BOOLEAN
  BY DEF TypeOK
<1>3. (SimultaneousStarts # 0 => \A e \in Executors : Cardinality(StartsOn(e)) <= SimultaneousStarts)'
  BY StartsOnWithinLimit
<1>4. ASSUME NoNewStart, UNCHANGED stopped
      PROVE  stopped' => \A j \in DOMAIN runs' : ~runs'[j].starting
  BY <1>1, <1>4 DEF StartsInv, NoNewStart, KeepsStart
<1>5. CASE NoNewStart /\ NoNewRan /\ UNCHANGED stopped
  <2>1. ~stopped' => \A j \in DOMAIN runs' : Fresh(runs'[j])
    BY <1>5 DEF StartsInv, NoNewRan
  <2>2. QED BY <1>3, <1>4, <1>5, <2>1 DEF StartsInv, Known
<1>6. ASSUME NEW j \in Known, NoNewStart, runs' = WithRun(j, [runs[j] EXCEPT !.ranAt = 0]),
             JobIsRunning(j) \/ SetJobRunning(j), UNCHANGED stopped
      PROVE  StartsInv'
  <2>1. j \in Jobs /\ runs[j] \in Run /\ RunsTypeOK
    BY DEF TypeOK, RunsTypeOK, Known
  <2>2. JobIsRunning(j)
    BY <1>6, <2>1 DEF SetJobRunning, NoRunningMsgs
  <2>3. ASSUME ~stopped, NEW k \in DOMAIN runs' PROVE Fresh(runs'[k])
    <3>1. CASE k = j
      <4>1. runs[j].executor # NoExecutor /\ ~runs[j].starting
        BY <2>2, <2>3, RunningIsNotFresh
      <4>2. runs'[j].executor = runs[j].executor /\ runs'[j].starting = runs[j].starting
        BY <1>6, <2>1 DEF WithRun, RunsTypeOK, Run, Known
      <4>3. QED BY <3>1, <4>1, <4>2 DEF Fresh
    <3>2. CASE k # j
      <4>1. k \in Known /\ runs'[k] = runs[k]
        BY <1>6, <2>1, <3>2 DEF WithRun, RunsTypeOK, Known
      <4>2. QED BY <2>3, <4>1 DEF StartsInv
    <3>3. QED BY <3>1, <3>2
  <2>4. QED BY <1>3, <1>4, <1>6, <2>3 DEF StartsInv, Known
<1>7. ASSUME NEW j \in Jobs, NEW e \in Executors, RoundStarts(j, e) PROVE StartsInv'
  <2>1. /\ j \in Considered /\ UNCHANGED stopped /\ DOMAIN runs' = Known
        /\ Fresh(runs[j]) => Fresh(runs'[j])
        /\ \A k \in Known \ {j} : Keeps(runs[k], runs'[k])
    BY <1>7, WhatRoundStarts
  <2>2. ~stopped /\ ~stopped' /\ j \in Known
    BY <2>1 DEF Considered
  <2>3. \A k \in DOMAIN runs' : Fresh(runs'[k])
    BY <2>1, <2>2 DEF StartsInv, Keeps
  <2>4. QED BY <1>3, <2>2, <2>3 DEF StartsInv, Known
<1>8. CASE Stop
  <2> DEFINE gone == { j \in Known : runs[j].ranAt = Never /\ ~runs[j].stopping }
  <2>1. runs' = WithoutRuns(gone) /\ ~stopped /\ stopped' /\ RunsTypeOK
    BY <1>8 DEF Stop, TypeOK
  <2>2. AllKept /\ DOMAIN runs' = Known \ gone
    <3> HIDE DEF gone
    <3>1. QED BY <2>1, AllKeptWithoutRuns
  <2>3. ASSUME NEW j \in DOMAIN runs', runs'[j].starting PROVE FALSE
    <3>1. j \in Known /\ j \notin gone /\ runs[j].starting
      BY <1>1, <2>2, <2>3 DEF AllKept, Keeps, KeepsStart
    <3>2. runs[j].ranAt = Never /\ ~runs[j].stopping
      BY <2>1, <3>1 DEF StartsInv, Fresh, RunsConsistent, RunConsistent
    <3>3. QED BY <3>1, <3>2
  <2>4. QED BY <1>3, <2>1, <2>3 DEF StartsInv, Known
<1>9. QED BY <1>5, <1>6, <1>7, <1>8, StepsOfStarts, OnlyStopStops DEF StartStep

\* No executor is starting more jobs than SimultaneousStarts, and no job is
\* running before its start call has returned: where the executors do not fail
\* and say themselves that a job runs, and clients stop a waiting run once.
THEOREM StartsAreWithinLimit ==
    ASSUME FailingCalls = {}, ~JobIsRunningOnSuccessfulStart
    PROVE  Spec /\ ClientsStopOnce /\ []NoRunSkipped => []StartsWithinLimit
<1>1. TypeOK /\ TypeOK' /\ RunsConsistent /\ RunsConsistent' /\ NoRunSkipped
        /\ OneCallPerRun /\ StartingHasCall /\ NoRunningMsgs /\ StartsInv /\ [Next]_vars => StartsInv'
  BY StartsInvStep
<1>2. TypeOK /\ StartsInv => StartsWithinLimit
  BY DEF StartsInv, StartsWithinLimit, Fresh, StartsOn, TypeOK
<1>3. QED BY <1>1, <1>2, TypeCorrect, RunsAreConsistent, CallsMatchRuns, StartingRunsHaveCalls,
             NoRunningMsgsWithout, StartsInvInit, PTL DEF Spec
=============================================================================
