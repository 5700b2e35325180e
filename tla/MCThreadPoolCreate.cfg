\* Does threadpool_create return, as its comment says?
SPECIFICATION FairSpec
CONSTANTS
  MinThr = 1
  MaxThr = 2
  Cap = 2
  Vary = 2
  MinWait = 2
  MaxTask = 3
  Joins = TRUE
  Nobody = Nobody
  Producer = Producer
PROPERTIES
  CreateReturns
