CONSTANTS
  NumPages = 2
  PageSize = 3
  CacheType = "radix"
  Uids <- ThreeUids
  Workload <- ShortPrompts
  Tokens <- Vocabulary
  Sampled <- OneTokenAndEos
  EOS = 0
  MaxRunning = 3
  MaxSeqLen = 6
  Budget = 6
  Policy = "prefill_first"
  Overlap = TRUE
  None = None
SPECIFICATION Spec
INVARIANTS
  EvictionSuffices
