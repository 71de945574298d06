SPECIFICATION FairSpec
CONSTANTS
  Plans     <- AllPlans
  FaultSets <- FaultMixes
INVARIANTS
  TypeOK
  DependenciesDecide
  VerdictsAgree
  PostFollows
  LockCoversStep
PROPERTIES
  CommitSettles
  CheckoutRemoved
CHECK_DEADLOCK FALSE
