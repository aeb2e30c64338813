CONSTANTS
  NumPages = 5
  PageSize = 2
  CacheType = "radix"
  Uids <- ThreeUids
  Workload <- PagedPrefixes
  Tokens <- Vocabulary
  Sampled <- OneTokenAndEos
  EOS = 0
  MaxRunning = 2
  MaxSeqLen = 7
  Budget = 3
  Policy = "prefill_first"
  Overlap = TRUE
  None = None
SPECIFICATION Spec
INVARIANTS
  PagesPartitioned
  RowsFollowCache
  RefsExact
  TreeExact
  EvictionSuffices
  HostCoversCached
  CacheHoldsItsKeys
  RowsHoldOwnTokens
