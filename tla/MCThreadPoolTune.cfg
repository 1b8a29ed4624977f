CONSTANTS
  w1 = w1  w2 = w2  w3 = w3  c1 = c1  c2 = c2
  t1 = t1  t2 = t2  o1 = o1  o2 = o2
  NoTask = NoTask
  NoOne = NoOne
  Workers <- TwoWorkers
  Clients <- TwoClients
  Tasks <- TwoTasks
  Owners <- TwoOwners
  OwnerOf <- TwoOwnerOf
  Timed <- OneTimed
  Sizes <- TwoThreads
  MaxTasks = 0
  Calls <- TuneCalls
  Limits <- FewLimits
  Budget = 2
  FailAlloc = TRUE
SPECIFICATION Spec
INVARIANT IdleCounted
CHECK_DEADLOCK FALSE
