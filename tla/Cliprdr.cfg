SPECIFICATION FairSpec
CONSTANTS
  Copies <- TextImageFiles
  Sizes <- TwoFiles
  HostSizes <- ThreeThenOne
  CHUNK_SIZE = 2
  EnableText = TRUE
  EnableFile = TRUE
  WritesFail = TRUE
  Overlap = FALSE
  MaxCopies = 2
  MaxReconnects = 1
INVARIANTS HostCatchesUp PulledWhole
PROPERTIES ImplementsFetch TextLands
