SPECIFICATION Spec
CONSTANTS
  a = a
  b = b
  c = c
  Id <- TwoIds
  MaxTasks = 2
INVARIANTS
  NoMapFault
