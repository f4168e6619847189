CONSTANTS
  j1 = j1
  j2 = j2
  j3 = j3
  e1 = e1
  e2 = e2
  Jobs = {j1, j2}
  Executors = {e1}
  NoExecutor = NoExecutor
  Attributes <- Cdn
  JobConfigs <- ForCdn
  ExecutorConfigs <- Accepting2
  SimultaneousStarts = 1
  MinDurationBetweenSimultaneousStarts = 0
  LoadBalanceIfCostDifference = 0
  KeepJobsBeyondAtEndUntilEnoughSlack = 0
  StopJobIfSinceMilestoneLessThan = 0
  MinimumTimeBeforeRestartingErroredJob = 0
  GracePeriodForJobsOnExecutorCh = 0
  ExecutorAliveDuration = 0
  JobIsRunningOnSuccessfulStart = FALSE
  AgeCap <- NoAges
  MaxChanged = 1
  Requests = {"JobIsRunningCh", "SetTotalMaxJobCountCh", "FlushExecutorJobsCh", "ChangeJobCh", "ChangeExecutorCh", "RemoveExecutorCh"}
  TotalMaxJobCounts <- AtMost1Or2
  InitialJobs <- AllAbleJobs
  InitialExecutors <- AllExecutors
  KeptAliveInputs <- NotKeptAlive
  FailingCalls = {}
  MaxErrors = 0
  MaxRefresh = 1
  MaxMessages = 1
SPECIFICATION Spec
INVARIANTS
  
  StartedRunsAreAllowed
PROPERTIES
  StartedWithinMax
