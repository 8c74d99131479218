SPECIFICATION AllSpec
CONSTANTS
  Name = {"a", "b"}
  Target <- MCTarget
  Models <- MCModels
  Caller = {c1, c2}
  FailLimit = 0
  None = none
  Adapter = {"openai", "anthropic", "gemini", "ollama"}
  Function = {"f", "g"}
  MaxExchange = 3
  Session = {s1, s2}
  MaxQuestions = 2
  MaxRows = 1
  MaxSwitches = 1
  MaxMemory = 3
  Thing = {t1, t2, t3}
  Kind = {k1}
  Writer = {w1, w2}
  Level = {90}
  DecayAfter = 0
  DecayBy = 10
  MaxHops = 2
  MaxFacts = 2
  MaxDay = 1
  Title = {"a", "b"}
  Alike <- MCAlike
  Proposals <- MCProposals
  Faulty = "faulty"
  MaxPerCycle = 1
  MaxGoals = 2
  Learner = {l1}
  MaxRuns = 6
  Gap = {"pdf", "gui"}
  Phrase = {"pdf", "a gui", "gui"}
  KeyOf <- MCKeyOf
  Text <- MCText
  Feasible <- MCFeasible
  ScanLimit = 2
  MinPriority = 100
  MaxMessages = 3
  Tool = {u1, u2}
  Unknown = unknown
  MaxCalls = 2
SYMMETRY CallerSymmetry
INVARIANTS
  AllTypeOK
  CountsAreExact
  GivesUpLast
  ResultsReachTheirCalls
  MemoryIsSaved
  LearningIsSound
  RecordsAreSound
PROPERTIES
  RankingIsRight
CHECK_DEADLOCK FALSE
