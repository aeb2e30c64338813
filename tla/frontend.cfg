CONSTANTS
  Uids = {0, 1}
  MaxTokens = 2
  Workers = {w1}
  LocalBatch = 2
SPECIFICATION FairSpec
INVARIANTS
  EveryTokenOnItsWay
  StreamIsPrefix
  WakesForReplies
PROPERTIES
  AbortBehindRequest
  FinishedResponseEnds
  CancelledRequestEnds
CHECK_DEADLOCK FALSE
