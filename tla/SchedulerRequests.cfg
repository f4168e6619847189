CONSTANTS
  j1 = j1
  j2 = j2
  j3 = j3
  e1 = e1
  e2 = e2
  Jobs = {j1}
  Executors = {e1}
  NoExecutor = NoExecutor
  Attributes <- NoAttributes
  JobConfigs <- UntilStoppedOrUnable
  ExecutorConfigs <- Room1
  SimultaneousStarts = 1
  MinDurationBetweenSimultaneousStarts = 0
  LoadBalanceIfCostDifference = 0
  KeepJobsBeyondAtEndUntilEnoughSlack = 0
  StopJobIfSinceMilestoneLessThan = 0
  MinimumTimeBeforeRestartingErroredJob = 1
  GracePeriodForJobsOnExecutorCh = 0
  ExecutorAliveDuration = 0
  JobIsRunningOnSuccessfulStart = TRUE
  AgeCap <- ErrorTo1
  MaxChanged = 1
  Requests = {"RemoveJobCh", "StopJobCh", "ChangeJobCh", "RemoveExecutorCh", "ChangeExecutorCh", "SetJobsOnExecutorCh", "SetJobHasErrorCh", "Stop"}
  TotalMaxJobCounts <- Unlimited
  InitialJobs <- AllJobs
  InitialExecutors <- AllExecutors
  KeptAliveInputs <- NotKeptAlive
  FailingCalls = {"start", "stop"}
  MaxErrors = 1
  MaxRefresh = 1
  MaxMessages = 2
SPECIFICATION Spec
INVARIANTS
  TypeOK
  RunsConsistent
  StartingHasCall
  StoppingHasEnder
