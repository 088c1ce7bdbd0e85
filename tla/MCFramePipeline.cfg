SPECIFICATION FairSpec
CONSTANTS
  QUEUE_LENGTH = 10
  CAMERA_DEV_BUFFER_COUNT = 3
  Devices = {"display", "algo"}
  Events = {"Notify", "SetSource"}
  MaxEvents = 1
  NoBuf = NoBuf
INVARIANT TypeOK
INVARIANT DequeueFindsFrame
INVARIANT CameraBuffersKept
INVARIANT CameraQueueBounded
PROPERTY DisplayStaysPending
PROPERTY DisplayFramesKeepComing
