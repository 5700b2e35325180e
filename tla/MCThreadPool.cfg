\* Up to two workers above one, a queue of two that goes round.  A pool that
\* was freed, or has crashed, does nothing more: deadlock is allowed.
SPECIFICATION FairSpec
CONSTANTS
  MinThr = 1
  MaxThr = 2
  Cap = 2
  Vary = 2
  MinWait = 2
  MaxTask = 3
  Joins = FALSE
  Nobody = Nobody
  Producer = Producer
INVARIANTS
  TypeOK
  LiveCount
  RoomTold
  OneLeftBehind
CHECK_DEADLOCK FALSE
PROPERTIES
  ImplementsQueue
  ArgLifetime
  AttendedKept
  TaskServed
  AddGoesOn
  DestroyReturns
