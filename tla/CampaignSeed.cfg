\* A result directory and a fixed seed for two configurations.
CONSTANTS
  t1 = t1
  t2 = t2
  Thread = {t1, t2}
  NoThread = NoThread
  TaskList <- TwoConfigs
  RetryCount = 1
  MaxLaunches = 1
  LaunchFlags <- Plain
  FixedSeed = TRUE
  ResultDir = TRUE
  Assertions = TRUE
  SoftFail = TRUE
  ReadsGiveUp = FALSE
  LossyCommit = FALSE
SPECIFICATION Spec
INVARIANTS EveryResultHasFile
