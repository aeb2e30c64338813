CONSTANTS
  NumPages = 4
  PageSize = 1
  CacheType = "radix"
  Uids <- TwoUids
  Workload <- SharedPrefixes
  Tokens <- Vocabulary
  Sampled <- OneTokenAndEos
  EOS = 0
  MaxRunning = 2
  MaxSeqLen = 4
  Budget = 2
  Policy = "wait_time"
  Overlap = TRUE
  None = None
SPECIFICATION FairSpec
PROPERTIES
  EveryRequestEnds
  ResourcesReturn
