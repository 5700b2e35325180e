\* Two processes; one client and a peer that is no client: every interleaving on
\* the shm file of the client, and what must happen: every buffer is dealt with,
\* and a playback ends when it is told to, with a speed of 0, a record freed and
\* overwritten (1), a plain one (2) and an empty one (3).
SPECIFICATION FairSpec
CONSTANTS
  a1 = a1
  a2 = a2
  p1 = p1
  p2 = p2
  NoAddr = NoAddr
  Proc <- MCProc
  Addr <- MCAddr
  ClientNum = 1
  ClientAddr <- MCOneClient
  RecordNum = 3
  Offset <- MCThreeOffsets
  Empty = {3}
  Clobbered = {1}
  Speeds = {0, 1}
  MaxElapse = 2
INVARIANTS
  TypeOK
  OneStaleSend
PROPERTIES
  ChangedByOwnRequest
  ForceEnd
  MessageHandled
