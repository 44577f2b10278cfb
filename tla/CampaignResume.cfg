\* A build that fails on errors: the campaign ends, is aborted or is lost at any
\* point and is launched again on its database, also with other options; commits
\* may take effect and be reported as failed.  The results of both tasks are found
\* by the same columns.
CONSTANTS
  t1 = t1
  t2 = t2
  Thread = {t1, t2}
  NoThread = NoThread
  TaskList <- TwoLimits
  RetryCount = 2
  MaxLaunches = 2
  LaunchFlags <- Resumed
  FixedSeed = FALSE
  ResultDir = FALSE
  Assertions = TRUE
  SoftFail = FALSE
  ReadsGiveUp = FALSE
  LossyCommit = TRUE
SPECIFICATION Spec
SYMMETRY Threads
INVARIANTS Accounted NoDuplicateConfig HardFailStops
PROPERTIES NoRecompute
