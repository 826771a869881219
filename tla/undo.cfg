SPECIFICATION Spec
CONSTANTS
  Strings <- MCStrings
  FileText <- MCFile
  Case <- MCCase
  Markers = {m}
  Advancing = {}
  MaxLen = 2
  MaxEdits = 2
  MaxUndos = 2
  MaxSaves = 1
INVARIANT TextRestored
INVARIANT PlacesRestored
INVARIANT UnmodifiedIsSaved
CHECK_DEADLOCK FALSE
