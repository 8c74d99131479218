SPECIFICATION FairSpec
CONSTANTS
  Sub = {s1}
  Short <- MCShort
  Caller = {c1, c2}
  None = none
INVARIANTS
  InBackground
CHECK_DEADLOCK FALSE
