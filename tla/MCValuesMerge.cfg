CONSTANTS
  N = 6
  MaxRaw = 1
  MaxBusy = 2
  Parts <- ValuesOnly
  HeapCells = 5
SPECIFICATION MCSpec
INVARIANTS MergeCopies
CHECK_DEADLOCK FALSE
