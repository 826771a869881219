SPECIFICATION Spec
CONSTANTS
  Windows = {w1, w2, w3}
  Frames = {f}
  FrameOf <- OneFrame
  MaxIds = 3
  Values = {1}
  Places = {1, 2}
  MaxBars = 4
  MaxChanges = 4
  MaxEvents = 0
  MaxDrags = 0
  MaxFrameDeletions = 0
SYMMETRY Symmetry
INVARIANT TypeOK
INVARIANT ListsSound
INVARIANT NeverAborts
INVARIANT InSync
CHECK_DEADLOCK FALSE
