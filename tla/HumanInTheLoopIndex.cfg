SPECIFICATION FairSpec
CONSTANTS
  Request = {r1, r2}
  Human = {h1, h2}
  None = none
INVARIANTS
  AnswersTheirQuestion
CHECK_DEADLOCK FALSE
