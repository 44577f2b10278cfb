CONSTANTS
  JobCount = 5
  Instances <- Mixed
  DeletionTrials = 3
  DeletionsBeforeReset = 1
  ForceAfter = 2
SPECIFICATION Spec
INVARIANTS
  TypeOK
  WindowsExact
  GraphSolvable
  BestFeasible
  SkyLineCurrent
  DeletionMakesRoom
PROPERTIES
  NoParallelEdges
  IterationEnds
  ImplementsAnytime
