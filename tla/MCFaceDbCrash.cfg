CONSTANTS
  MAX_FACE_DB_SIZE = 3
  Names = {n1, n2}
  Features = {f1, f2}
  AUTOSAVE = TRUE
  Calls <- CallsButSave
  Failing = {"mkdir", "read"}
  Legacies = {"old", "larger"}
  NoFile = NoFile
  EmptyFile = EmptyFile
SPECIFICATION FairSpec
INVARIANTS TypeOK SavedIsDurable
PROPERTIES StoreRefinement CallsReturn
