\* Does a record stay, once written?
SPECIFICATION Spec
CONSTANTS
  p1 = p1
  p2 = p2
  Proc <- MCProc
  MaxUuid = 1
  DayLen = 2
  MaxNow = 2
  MaxMsg = 1
INVARIANTS
  RecordsKept
CHECK_DEADLOCK FALSE
