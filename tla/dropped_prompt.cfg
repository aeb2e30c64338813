CONSTANTS
  Uids = {0, 1}
  MaxTokens = 1
  Workers = {w1}
  LocalBatch = 1
SPECIFICATION ServedSpec
PROPERTIES
  EveryRequestAnswered
CHECK_DEADLOCK FALSE
