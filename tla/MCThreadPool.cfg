CONSTANTS
  w1 = w1  w2 = w2  w3 = w3  c1 = c1  c2 = c2
  t1 = t1  t2 = t2  o1 = o1  o2 = o2
  NoTask = NoTask
  NoOne = NoOne
  Workers <- ThreeWorkers
  Clients <- TwoClients
  Tasks <- TwoTasks
  Owners <- TwoOwners
  OwnerOf <- TwoOwnerOf
  Timed <- NoneTimed
  Sizes <- SmallSizes
  MaxTasks = 2
  Calls <- DeinitCalls
  Limits <- NoLimits
  Budget = 2
  FailAlloc = FALSE
SPECIFICATION FairSpec
INVARIANTS TaskInOnePlace ThreadsCounted FreedAfterThreadsLeft
PROPERTIES CancelComplete AcceptedTaskRuns CallsReturn
CHECK_DEADLOCK FALSE
