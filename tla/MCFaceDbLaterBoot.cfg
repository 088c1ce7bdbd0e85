CONSTANTS
  MAX_FACE_DB_SIZE = 2
  Names = {n1, n2}
  Features = {f1}
  AUTOSAVE = TRUE
  Calls <- AllCalls
  Failing = {}
  Legacies = {"old", "larger"}
  NoFile = NoFile
  EmptyFile = EmptyFile
SPECIFICATION Spec
INVARIANT LaterBootsRecover
