SPECIFICATION ResizeSpec
CONSTANTS
  Widths <- TwoWidths
  Dpr = 1
  Moves <- InFlight
  MaxTimers = 2
  MaxRequests = 2
INVARIANT IgnoredIsNoticed
