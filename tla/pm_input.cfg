SPECIFICATION FairSpec
CONSTANTS
  MaxKeys = 2
  MaxOthers = 2
  MaxRpcs = 2
  MaxQuits = 1
INVARIANT NothingLost
INVARIANT PendingCoversQueue
INVARIANT AnswerMatched
PROPERTY RpcReturns
CHECK_DEADLOCK FALSE
