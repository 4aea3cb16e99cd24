SPECIFICATION Spec
CONSTANTS
  Windows <- TwoWindows
  Width = 2
  Places <- WholeAndRight
  Rects <- OneRect
  RailWindowed = FALSE
  EarlyClicks = FALSE
  Reactivates = FALSE
  MaxChanges = 3
  MaxInFlight = 2
  MaxClicks = 1
  MaxQueued = 1
INVARIANTS PageHasWindows CanvasesShowDesktop AppIsMaximized LaunchedOnce
CHECK_DEADLOCK FALSE
