SPECIFICATION FairSpec
CONSTANTS
  a = a
  b = b
  c = c
  Id <- ThreeIds
  MaxTasks = 3
INVARIANTS
  DependenciesFirst
  NoStrayWorker
  AnswerIsComplete
  VerdictIsExact
PROPERTIES
  LaunchedOnce
  ImplementsTaskGraph
  ExecuteEnds
