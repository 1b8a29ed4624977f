CONSTANTS
  N = 6
  MaxRaw = 1
  MaxBusy = 2
  Parts <- BothParts
  HeapCells = 4
SPECIFICATION MCSpec
INVARIANTS TreeIsHeap LostOnlyEarly HeapOwned MergeSafe SetReadsBack EqualsIsSameTree
CHECK_DEADLOCK FALSE
CONSTRAINT Followed
