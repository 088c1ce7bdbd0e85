SPECIFICATION FairSpec
CONSTANTS
  QUEUE_LENGTH = 10
  CAMERA_DEV_BUFFER_COUNT = 3
  Devices = {"algo"}
  Events = {"UserStop", "UserRun", "RecStart", "RecStop"}
  MaxEvents = 3
  NoBuf = NoBuf
INVARIANT AlgoFramesPending
INVARIANT StoppedIffBlocked
PROPERTY AlgoRunsAgain
