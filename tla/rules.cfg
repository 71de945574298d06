SPECIFICATION Spec
CONSTANTS
  StepNames = {1, 2, 3, 4}
  NoName <- Unnamed
  Pipelines <- ThreeSteps
  TriggerCases <- EveryTrigger
  LastKey = 3
  Values = {1, 2}
  MatrixCases <- EveryMatrix
INVARIANTS
  OrderJudged
  TriggersFailClosed
  CombinationsExact
CHECK_DEADLOCK FALSE
