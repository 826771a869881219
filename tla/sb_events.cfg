SPECIFICATION Spec
CONSTANTS
  Windows = {w1, w2}
  Frames = {f}
  FrameOf <- OneFrame
  MaxIds = 3
  Values = {1, 2}
  Places = {1}
  MaxBars = 3
  MaxChanges = 3
  MaxEvents = 2
  MaxDrags = 1
  MaxFrameDeletions = 1
SYMMETRY Symmetry
INVARIANT IdsAgree
PROPERTY LiveBarGetsItsEvents
CHECK_DEADLOCK FALSE
