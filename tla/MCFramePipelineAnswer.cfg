SPECIFICATION Spec
CONSTANTS
  QUEUE_LENGTH = 10
  CAMERA_DEV_BUFFER_COUNT = 4
  Devices = {"display", "algo"}
  Events = {}
  MaxEvents = 0
  NoBuf = NoBuf
INVARIANT AnswersDequeuedFrame
