SPECIFICATION FairSpec
CONSTANTS
  Mode = "SmartLock"
  Events = {"AddUserNamed", "AddUser", "DelUser", "SleepEnable", "SleepDisable", "RecordStart", "RecordStop", "UserStop", "UserRun"}
  MaxEvents = 4
INVARIANT TypeOK
INVARIANT OperationCanEnd
INVARIANT StoppedIffBlocked
PROPERTY BackToRecognition
CHECK_DEADLOCK FALSE
