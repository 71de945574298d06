SPECIFICATION FairSpec
CONSTANTS
  N = 5
  Sizes = {0, 2, 3}
INVARIANTS
  TypeOK
  FullAccount
  RunsWhatItMay
PROPERTIES
  Ends
CHECK_DEADLOCK FALSE
