SPECIFICATION FairSpec
CONSTANTS
  DropMax = 3
  MaxItems = 3
  MaxDrops = 6
  MaxColors = 1
  MaxAsks = 4
INVARIANT DropTypeOK
INVARIANT RingOrdered
PROPERTY RightAnswer
PROPERTY StoreCompletes
CHECK_DEADLOCK FALSE
