SPECIFICATION FairSpec
CONSTANTS
  Attempts = 2
  Overlap = FALSE
  Sidecars = {TRUE, FALSE}
  Faults = {"giveup", "crash", "api", "watch", "hour"}
INVARIANTS
  TypeOK
  ResultFromOwnPod
PROPERTIES
  PodsGo
  EndedIsAnswered
CHECK_DEADLOCK FALSE
