SPECIFICATION ResizeSpec
CONSTANTS
  Widths <- TwoWidths
  Dpr = 1
  Moves <- WhileConnecting
  MaxTimers = 2
  MaxRequests = 2
INVARIANT DesktopFollowsViewport
