SPECIFICATION Spec
CONSTANTS
  QUEUE_LENGTH = 10
  CAMERA_DEV_BUFFER_COUNT = 4
  Devices = {"algo"}
  Events = {"UserStop", "UserRun"}
  MaxEvents = 2
  NoBuf = NoBuf
INVARIANT RunsOnStableFrames
