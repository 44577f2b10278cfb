CONSTANTS
  GraphJobs = 5
  GraphLags <- Lags
  GraphOthers <- Others
  GraphMax = 4
  JobCount = 3
  PathInstances <- AllGraphs
  NoOrder = NoOrder
  Extensions <- AnyExtension
  ResourceFlags = {{"NO_DRAIN"}}
  TraitRequests <- Requests
  ILPCases <- ILPSmall
  ILPHorizon = 4
  NoAnswer = NoAnswer
  GraspCases <- GraspSmall
  graspSelection = 2
  graspSamples = 2
  Selections = 2
  resetCount = 2
  Infinity = Infinity
  SolutionCases <- SolutionsSmall
  NoDeadline = NoDeadline
  ClusterTasks <- ThreeTasks
  NodeCount = 2
  Border <- HalfBorders
  HashValues = {1, 2}
  ChunkSize = 2
  MaxNodeLosses = 1
  MaxMergeLosses = 1
SPECIFICATION PartsSpec
CHECK_DEADLOCK FALSE
INVARIANT EveryTaskOnce
