SPECIFICATION Spec
CONSTANTS
  N = 2
  MaxBuf = 6
INVARIANT NoSticking
CHECK_DEADLOCK FALSE
