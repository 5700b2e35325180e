\* Three processes and three connections, two descriptors each: an acceptor
\* can run out of descriptors.  Without processes nothing moves: deadlock is
\* allowed.
SPECIFICATION Spec
CONSTANTS
  p1 = p1
  p2 = p2
  p3 = p3
  c1 = c1
  c2 = c2
  c3 = c3
  None = None
  First = p1
  Proc <- MCProc
  Conn <- MCConn
  MaxFd = 2
INVARIANTS
  TypeOK
  OneReader
  OwnAddress
CHECK_DEADLOCK FALSE
