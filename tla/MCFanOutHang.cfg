\* Does distribute_run get over a thread that could not be created?
SPECIFICATION FairSpec
CONSTANTS
  ClientNum = 2
  Requester <- MCRequester
PROPERTIES
  CreateFailureHandled
CHECK_DEADLOCK FALSE
