SPECIFICATION FairSpec
CONSTANTS
  QUEUE_LENGTH = 2
  MaxEvents = 3
  MaxPosts = 1
  MallocFails = TRUE
INVARIANT TypeOK
INVARIANT EveryBlockOwned
PROPERTY NewestLast
PROPERTY LastEventArrives
\* Without events of the devices the tasks wait for messages.
CHECK_DEADLOCK FALSE
