SPECIFICATION Spec
CONSTANTS
  s1 = s1
  s2 = s2
  NoSession = NoSession
  Sessions <- OneSession
  RailPrograms <- Desktop
  MaxReconnectAttempts = 2
  MaxFlaps = 2
  MaxTimers = 2
INVARIANT LoginMeansNoSession
CHECK_DEADLOCK FALSE
