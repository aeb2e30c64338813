CONSTANTS
  NumPages = 2
  PageSize = 3
  CacheType = "naive"
  Uids <- ThreeUids
  Workload <- ShortAndLong
  Tokens <- Vocabulary
  Sampled <- OneTokenAndEos
  EOS = 0
  MaxRunning = 3
  MaxSeqLen = 6
  Budget = 3
  Policy = "alternating"
  Overlap = FALSE
  None = None
SPECIFICATION Spec
INVARIANTS
  IdleIntegrity
CHECK_DEADLOCK FALSE
