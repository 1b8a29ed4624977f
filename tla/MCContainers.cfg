CONSTANTS
  v1 = v1  v2 = v2
  Byte <- TwoValues
  Junk = Junk
  Sizes = {3}
  MaxTotal = 8
  Lens = {0, 1, 3}
  Elastics = {TRUE, FALSE}
  RingLens = {1, 2}
  Workloads <- MCWorkloads
  Owners <- TwoValues
  Delays = {1, 2}
  MaxTasks = 3
  MaxAdds = 4
  MaxNow = 2
  Null = Null
SPECIFICATION MCSpec
CONSTRAINT Followed
INVARIANTS WriteLoanFits LoansExact ReposRotates IndexSound TasksInOrder SortedByPriority
PROPERTIES IsByteFifo WUnlockDelivers ReadLoanStable FifoWhileSound
SYMMETRY Alike
CHECK_DEADLOCK FALSE
