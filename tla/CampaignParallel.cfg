\* Two threads, two configurations that share their name, three solver runs;
\* errors are survived and transactions retried, as fair as the scheduler.
CONSTANTS
  t1 = t1
  t2 = t2
  Thread = {t1, t2}
  NoThread = NoThread
  TaskList <- TwoConfigs
  RetryCount = 2
  MaxLaunches = 1
  LaunchFlags <- SkipOptions
  FixedSeed = FALSE
  ResultDir = TRUE
  Assertions = TRUE
  SoftFail = TRUE
  ReadsGiveUp = TRUE
  LossyCommit = FALSE
SPECIFICATION FairSpec
INVARIANTS TypeOK LinkedToOwnConfig OneRowPerRun FilesOfThisLaunch
PROPERTIES Terminates ImplementsTaskPool
