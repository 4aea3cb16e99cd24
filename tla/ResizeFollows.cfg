SPECIFICATION ResizeSpec
CONSTANTS
  Widths <- AllWidths
  Dpr = 1
  Moves <- NoMoves
  MaxTimers = 2
  MaxRequests = 2
INVARIANTS
  DesktopFollowsViewport
  NeverDropped
  RequestWatched
