CONSTANTS
  JobCount = 2
  Instances <- Tight
  DeletionTrials = 3
  DeletionsBeforeReset = 1
  ForceAfter = 2
SPECIFICATION Spec
PROPERTIES
  CandidateThere
