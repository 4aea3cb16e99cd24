SPECIFICATION Spec
CONSTANTS
  None = None
  Own = Own
  t1 = t1
  t2 = t2
  f1 = f1
  Texts <- OneText
  Files <- OneFile
  Features <- Reconnects
  MaxKeys = 2
  MaxLists = 2
INVARIANTS SyncWaitsForChannel
