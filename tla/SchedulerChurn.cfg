CONSTANTS
  j1 = j1
  j2 = j2
  j3 = j3
  e1 = e1
  e2 = e2
  Jobs = {j1, j2}
  Executors = {e1, e2}
  NoExecutor = NoExecutor
  Attributes <- NoAttributes
  JobConfigs <- UntilStopped
  ExecutorConfigs <- Room1
  SimultaneousStarts = 1
  MinDurationBetweenSimultaneousStarts = 0
  LoadBalanceIfCostDifference = 0
  KeepJobsBeyondAtEndUntilEnoughSlack = 0
  StopJobIfSinceMilestoneLessThan = 0
  MinimumTimeBeforeRestartingErroredJob = 0
  GracePeriodForJobsOnExecutorCh = 0
  ExecutorAliveDuration = 0
  JobIsRunningOnSuccessfulStart = TRUE
  AgeCap <- NoAges
  MaxChanged = 1
  Requests = {"RemoveExecutorCh", "ChangeExecutorCh", "SetJobsOnExecutorCh", "FlushExecutorJobsCh"}
  TotalMaxJobCounts <- Unlimited
  InitialJobs <- AllJobs
  InitialExecutors <- AllExecutors
  KeptAliveInputs <- NotKeptAlive
  FailingCalls = {}
  MaxErrors = 0
  MaxRefresh = 1
  MaxMessages = 1
SPECIFICATION Spec
INVARIANTS
  BookedWithinCapacity
PROPERTIES
  ImplementsPlacement
  EndRunIsAfterStop
SYMMETRY Interchangeable
