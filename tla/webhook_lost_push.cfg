SPECIFICATION Spec
CONSTANTS
  p = p
  q = q
  t = t
  u = u
  Pushes <- TwoPushes
  Triggers <- NoTrigger
  Ticks = 0
  Modes = {FALSE}
  Operators <- NoOperator
INVARIANTS
  AcceptedIsBuilt
CHECK_DEADLOCK FALSE
