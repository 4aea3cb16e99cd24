SPECIFICATION Spec
CONSTANTS
  Black = Black
  Legacy = Legacy
  red = red
  blue = blue
  i1 = i1
  i2 = i2
  Ids = {i1, i2}
  Slots = {1}
  Colours <- OneColour
  Cells = 2
  Codecs <- Both
  Mixed = FALSE
  Closing = TRUE
  MaxCreates = 2
  MaxFrames = 2
  MaxSessions = 2
INVARIANTS SurfaceIsCurrent LegacyIsShown FrameIsForSurface DeltaHasReference
SYMMETRY IdSymmetry
