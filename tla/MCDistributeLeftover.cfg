\* Does the shm file go when the playback ends?
SPECIFICATION Spec
CONSTANTS
  a1 = a1
  a2 = a2
  p1 = p1
  p2 = p2
  NoAddr = NoAddr
  Proc <- MCProc
  Addr <- MCAddr
  ClientNum = 1
  ClientAddr <- MCOneClient
  RecordNum = 1
  Offset <- MCOneRecord
  Empty = {}
  Clobbered = {}
  Speeds = {1}
  MaxElapse = 1
PROPERTIES
  FileEndsWithPlayback
