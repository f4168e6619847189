CONSTANTS
  j1 = j1
  j2 = j2
  j3 = j3
  e1 = e1
  e2 = e2
  Jobs = {j1}
  Executors = {e1}
  NoExecutor = NoExecutor
  Attributes <- NoAttributes
  JobConfigs <- EndingOrNot
  ExecutorConfigs <- Room1OrPaused
  SimultaneousStarts = 1
  MinDurationBetweenSimultaneousStarts = 0
  LoadBalanceIfCostDifference = 0
  KeepJobsBeyondAtEndUntilEnoughSlack = 1
  StopJobIfSinceMilestoneLessThan = 1
  MinimumTimeBeforeRestartingErroredJob = 0
  GracePeriodForJobsOnExecutorCh = 1
  ExecutorAliveDuration = 2
  JobIsRunningOnSuccessfulStart = TRUE
  AgeCap <- TimesAges
  MaxChanged = 1
  Requests = {"SetJobHasMilestoneNowCh", "ChangeExecutorCh", "SetExecutorIsAliveCh", "SetJobsOnExecutorCh"}
  TotalMaxJobCounts <- Unlimited
  InitialJobs <- AllJobs
  InitialExecutors <- AllAble
  KeptAliveInputs <- MaybeKeptAlive
  FailingCalls = {}
  MaxErrors = 0
  MaxRefresh = 1
  MaxMessages = 1
SPECIFICATION FairSpec
PROPERTIES
  UnusableExecutorIsLeft
