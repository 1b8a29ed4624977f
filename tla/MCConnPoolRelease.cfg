CONSTANTS
  t1 = t1  t2 = t2  t3 = t3
  e1 = e1  e2 = e2  e3 = e3
  KeyOps <- BothLoops
  MaxKeyCalls = 2
  MaxKeyAttempts = 2
  Parts <- ConnOnly
  Kinds <- MysqlPool
  Threads <- TwoThreads
  ConnNum = 1
  Null = Null
  DbEngines <- ThreeEngines
  DbThreads <- ThreeThreads
  DbOps = {"read", "write"}
  MaxDbCalls = 5
  DbNull = DbNull
  HbaseThreads <- ThreeThreads
  Num = 1
  KeyThreads <- TwoThreads
  N = 2
  Own = Own
SPECIFICATION MCSpec
PROPERTIES WorkingConnectionKept
SYMMETRY ThreadSymmetry
CHECK_DEADLOCK FALSE
