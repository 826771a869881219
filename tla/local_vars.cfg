SPECIFICATION Spec
CONSTANTS
  Buffers = {b1, b2}
  Frames = {f1, f2}
  Values = {zero, one}
  None = None
  MaxLets = 1
INVARIANT TypeOK
INVARIANT CVariableCurrent
PROPERTY BindingsKept
SYMMETRY Symmetry
CHECK_DEADLOCK FALSE
