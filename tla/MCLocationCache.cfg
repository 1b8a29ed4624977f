CONSTANTS
  t1 = t1  t2 = t2
  Threads <- TwoThreads
  Places <- ThreePlaces
  TiesUp = {}
  Empty = Empty
  None = None
  FirstDay = 10
  LastDay = 11
SPECIFICATION FairSpec
INVARIANTS AnswerNearby
PROPERTIES EmptyAddressLeaves
