SPECIFICATION Spec
CONSTANTS
  Copies <- TextAndImage
  Sizes <- NoFiles
  HostSizes <- NoFiles
  CHUNK_SIZE = 2
  EnableText = TRUE
  EnableFile = TRUE
  WritesFail = TRUE
  Overlap = TRUE
  MaxCopies = 2
  MaxReconnects = 0
INVARIANT HostCatchesUp
