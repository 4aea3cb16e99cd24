SPECIFICATION Spec
CONSTANTS
  Copies <- OnlyFiles
  Sizes <- NoFiles
  HostSizes <- ThreeThenOne
  CHUNK_SIZE = 2
  EnableText = TRUE
  EnableFile = TRUE
  WritesFail = TRUE
  Overlap = TRUE
  MaxCopies = 1
  MaxReconnects = 0
INVARIANT NeverTraps
