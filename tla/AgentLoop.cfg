SPECIFICATION Spec
CONSTANTS
  MaxCalls = 2
  MaxIterations = 2
  MaxTools = 2
  Sizes = {1, 3}
  Budget = 6
  MaxFaults = 1
  MaxCrashes = 1
INVARIANTS
  TypeOK
  ResultsAreSound
  PromptsAreSound
  MemoryEndsHistory
