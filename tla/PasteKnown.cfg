SPECIFICATION Spec
CONSTANTS
  None = None
  Own = Own
  t1 = t1
  t2 = t2
  f1 = f1
  Texts <- OneText
  Files <- NoFile
  Features <- Nothing
  MaxKeys = 3
  MaxLists = 2
INVARIANTS KnownPasteIsCurrent
