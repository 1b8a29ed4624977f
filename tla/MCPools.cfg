CONSTANTS
  t1 = t1  t2 = t2  t3 = t3
  e1 = e1  e2 = e2  e3 = e3
  KeyOps <- BothLoops
  MaxKeyCalls = 2
  MaxKeyAttempts = 2
  Parts <- AllParts
  Kinds <- BothPools
  Threads <- ThreeThreads
  ConnNum = 1
  Null = Null
  DbEngines <- ThreeEngines
  DbThreads <- ThreeThreads
  DbOps = {"read", "write"}
  MaxDbCalls = 5
  DbNull = DbNull
  HbaseThreads <- ThreeThreads
  Num = 1
  KeyThreads <- TwoThreads
  N = 2
  Own = Own
SPECIFICATION MCSpec
INVARIANTS EngineInOnePlace NullsBounded LostOnlyByWrite FrontSafe ClientOwnedOnce SafeBetween KeyAliveAlone Balanced AddressRequests
SYMMETRY ThreadSymmetry
CHECK_DEADLOCK FALSE
