SPECIFICATION Spec
CONSTANTS
  Chars = {a, b}
  Nul = Nul
  NewGap = 1
  Spare = 1
  Chunk = 1
  MaxSize = 8
  MaxIns = 2
  MaxLen = 3
INVARIANT TypeOK
INVARIANT SuffixShown
INVARIANT PrefixNearlyShown
PROPERTY ImplementsText
SYMMETRY Symmetry
CHECK_DEADLOCK FALSE
