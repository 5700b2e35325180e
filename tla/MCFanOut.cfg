\* distribute_run, any number of buffers in turn; pthread_create may fail.  The
\* main thread then waits for ever for a mutex that nobody will unlock: the
\* system really stops, so deadlock is allowed (KeepsReceiving says when it
\* may).
SPECIFICATION FairSpec
CONSTANTS
  ClientNum = 3
  Requester <- MCRequester
INVARIANTS
  TypeOK
  OwnClient
  PlaybackSocketOpen
  NoSocketLeak
  WaitsForThread
PROPERTIES
  DestroyUnlocked
  HungForEver
  ImplementsSerial
  KeepsReceiving
CHECK_DEADLOCK FALSE
