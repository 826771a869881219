SPECIFICATION Spec
CONSTANTS
  Size = 3
  Frames = {f1, f2}
  NoFrame = nil
  Focus <- MCFocus
  MaxEvents = 6
  MaxQuits = 1
  MaxDiscards = 1
SYMMETRY Symmetry
INVARIANT TypeOK
INVARIANT FlagIsExact
INVARIANT UnreadProtected
INVARIANT WipedOnceDelivered
PROPERTY FifoSpec
CHECK_DEADLOCK FALSE
PROPERTY NeverMisdirected
