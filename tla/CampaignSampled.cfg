\* One thread with memory metrics: an error while the solver is measured.
CONSTANTS
  t1 = t1
  Thread = {t1}
  NoThread = NoThread
  TaskList <- TwoInstances
  RetryCount = 1
  MaxLaunches = 1
  LaunchFlags <- Measured
  FixedSeed = FALSE
  ResultDir = TRUE
  Assertions = TRUE
  SoftFail = TRUE
  ReadsGiveUp = FALSE
  LossyCommit = FALSE
SPECIFICATION Spec
INVARIANTS SoftFailSurvives
