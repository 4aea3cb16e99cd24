SPECIFICATION FairSpec
CONSTANTS
  Half = 4
  Shapes <- ThreeForms
  MaxSent = 4
  MaxRead = 3
  MaxQueue = 2
INVARIANT TextFindsReader
PROPERTIES ImplementsStream AllDelivered
CHECK_DEADLOCK FALSE
