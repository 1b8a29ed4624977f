CONSTANTS
  t1 = t1  t2 = t2  t3 = t3
  e1 = e1  e2 = e2  e3 = e3
  KeyOps <- PlaceOnly
  MaxKeyCalls = 3
  MaxKeyAttempts = 1
  Parts <- KeysOnly
  Kinds <- MysqlPool
  Threads <- ThreeThreads
  ConnNum = 1
  Null = Null
  DbEngines <- ThreeEngines
  DbThreads <- ThreeThreads
  DbOps = {"read", "write"}
  MaxDbCalls = 5
  DbNull = DbNull
  HbaseThreads <- ThreeThreads
  Num = 1
  KeyThreads <- TwoThreads
  N = 2
  Own = Own
SPECIFICATION MCSpec
INVARIANTS KeyAlive
SYMMETRY ThreadSymmetry
CHECK_DEADLOCK FALSE
