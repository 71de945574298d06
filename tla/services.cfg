SPECIFICATION Spec
CONSTANTS
  Absent = Absent
  Horizon = 5
  Peers = {p}
  Forwarded = {f}
  Rate = 2
  Interval = 2
  Browsers = {b1, b2}
  MaxLogins = 3
  MaxCallbacks = 2
  Cap = 2
  StateLife = 1
  Repos = {r1, r2}
  Regs = {v, w}
  Ids = {i}
  Queries <- NamePrefixes
  MaxRuns = 3
  Answers <- Answered
  MaxAnswers = 2
  NoteAttempts = 3
INVARIANTS
  TypeOK
  AtMostRatePerInterval
  AcknowledgedSurvives
  FirstAnswerDecides
  ShownIsEarned
PROPERTIES
  LoginsHonest
CHECK_DEADLOCK FALSE
