SPECIFICATION Spec
CONSTANTS
  s1 = s1
  s2 = s2
  NoSession = NoSession
  Sessions <- TwoSessions
  RailPrograms <- DesktopOrApp
  MaxReconnectAttempts = 1
  MaxFlaps = 2
  MaxTimers = 2
INVARIANTS
  TypeOK
  OverlayBacked
  DesktopIsBacked
SYMMETRY SlotSymmetry
