SPECIFICATION Spec
CONSTANTS
  p = p
  q = q
  t = t
  u = u
  Pushes <- TwoPushes
  Triggers <- TwoTriggers
  Ticks = 1
  Modes = {TRUE, FALSE}
  Operators <- AllOperators
INVARIANTS
  TypeOK
  BuiltWhenSerial
  CancelledForAnotherPush
PROPERTIES
  KeepsRegistration
CHECK_DEADLOCK FALSE
