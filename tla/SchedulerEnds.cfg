CONSTANTS
  j1 = j1
  j2 = j2
  j3 = j3
  e1 = e1
  e2 = e2
  Jobs = {j1, j2}
  Executors = {e1}
  NoExecutor = NoExecutor
  Attributes <- NoAttributes
  JobConfigs <- ForOneTick
  ExecutorConfigs <- Room2
  SimultaneousStarts = 1
  MinDurationBetweenSimultaneousStarts = 0
  LoadBalanceIfCostDifference = 0
  KeepJobsBeyondAtEndUntilEnoughSlack = 1
  StopJobIfSinceMilestoneLessThan = 1
  MinimumTimeBeforeRestartingErroredJob = 0
  GracePeriodForJobsOnExecutorCh = 0
  ExecutorAliveDuration = 0
  JobIsRunningOnSuccessfulStart = TRUE
  AgeCap <- SlackAges
  MaxChanged = 1
  Requests = {"Stop", "SetJobHasMilestoneNowCh"}
  TotalMaxJobCounts <- Unlimited
  InitialJobs <- AllJobs
  InitialExecutors <- AllExecutors
  KeptAliveInputs <- NotKeptAlive
  FailingCalls = {}
  MaxErrors = 0
  MaxRefresh = 1
  MaxMessages = 1
SPECIFICATION FairSpec
PROPERTIES
  DurationIsHonoured
  JobsKeepRunning
  StopFinishes
