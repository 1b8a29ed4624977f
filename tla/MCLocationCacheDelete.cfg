CONSTANTS
  t1 = t1  t2 = t2
  Threads <- TwoThreads
  Places <- OnePlace
  TiesUp = {}
  Empty = Empty
  None = None
  FirstDay = 10
  LastDay = 15
SPECIFICATION Spec
PROPERTIES OnlyOldDeleted
SYMMETRY ThreadSymmetry
