SPECIFICATION FairSpec
CONSTANTS
  Name = {t1, t2}
  Source = {s1, s2}
  Broken = {s2}
  Temperature = {1, 2}
  MaxGaps = 2
  MaxCases = 2
  MinPassRate = 80
INVARIANTS
  RegisteredSurvive
  EntriesHaveFiles
PROPERTIES
  WrittenIsChosen
  RunEnds
