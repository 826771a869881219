CONSTANTS
  InhibitQuit = inhibit_quit
  Nil = nil
  TopLevel = top_level
  None = None
  Vars = {inhibit_quit}
  Values = {nil, t}
  Tags = {top_level, a}
  MaxDepth = 4
  MaxPdl = 2
SPECIFICATION Spec
CHECK_DEADLOCK FALSE
PROPERTY UnwindFormsRun
