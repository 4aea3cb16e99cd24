SPECIFICATION Spec
CONSTANTS
  Windows <- TwoWindows
  Width = 2
  Places <- WholeAndRight
  Rects <- OneRect
  RailWindowed = FALSE
  EarlyClicks = FALSE
  Reactivates = TRUE
  MaxChanges = 3
  MaxInFlight = 2
  MaxClicks = 1
  MaxQueued = 1
INVARIANT CanvasesShowDesktop
CHECK_DEADLOCK FALSE
