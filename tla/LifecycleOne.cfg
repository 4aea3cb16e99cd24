SPECIFICATION FairSpec
CONSTANTS
  s1 = s1
  s2 = s2
  NoSession = NoSession
  Sessions <- OneSession
  RailPrograms <- DesktopOrApp
  MaxReconnectAttempts = 2
  MaxFlaps = 2
  MaxTimers = 2
INVARIANTS
  HostStopIsFinal
  LetGoMeansShutDown
  RetryTimerAlone
PROPERTY
  ReconnectResolves
CHECK_DEADLOCK FALSE
