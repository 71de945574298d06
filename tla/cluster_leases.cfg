SPECIFICATION FairCoreSpec
CONSTANTS
  a = a
  b = b
  c = c
  Callers <- Two
  DesiredSize = 1
  MaxSize = 2
  Budget <- Aging
INVARIANTS
  TypeOK
  PlacesKept
PROPERTIES
  IsLeaseService
  TestsGiveBack
CHECK_DEADLOCK FALSE
