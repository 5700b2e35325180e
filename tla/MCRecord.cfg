\* Two processes over a midnight, each recording three buffers; the counter
\* wraps after two names,
\* so the third buffer of a second takes the name of the first.  Clock and buffers are bounded: the run ends.
SPECIFICATION Spec
CONSTANTS
  p1 = p1
  p2 = p2
  Proc <- MCProc
  MaxUuid = 1
  DayLen = 2
  MaxNow = 2
  MaxMsg = 3
SYMMETRY MCSymmetry
INVARIANTS
  TypeOK
  ReusedAfterRound
  LostOnlyToReuse
  OneDropPerDay
CHECK_DEADLOCK FALSE
