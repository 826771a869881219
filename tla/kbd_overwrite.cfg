SPECIFICATION Spec
CONSTANTS
  Size = 3
  Frames = {f1, f2}
  NoFrame = nil
  Focus <- MCFocus
  MaxEvents = 6
  MaxQuits = 0
  MaxDiscards = 1
SYMMETRY Symmetry
PROPERTY NothingOverwritten
CHECK_DEADLOCK FALSE
