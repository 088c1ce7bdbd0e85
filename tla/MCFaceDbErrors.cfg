CONSTANTS
  MAX_FACE_DB_SIZE = 3
  Names = {n1, n2}
  Features = {f1}
  AUTOSAVE = TRUE
  Calls <- AllCalls
  Failing = {"mkdir", "read", "save"}
  Legacies = {"old", "larger"}
  NoFile = NoFile
  EmptyFile = EmptyFile
SPECIFICATION Spec
INVARIANTS CountMatchesUsed DeletedStaysDeleted UsedSlotsHoldFaces
