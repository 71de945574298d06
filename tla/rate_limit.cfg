SPECIFICATION LimiterSpec
CONSTANTS
  Absent = Absent
  Horizon = 5
  Peers = {p}
  Forwarded = {f}
  Rate = 2
  Interval = 2
INVARIANT RefusedForCause
CHECK_DEADLOCK FALSE
