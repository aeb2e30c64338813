CONSTANTS
  NumPages = 5
  PageSize = 1
  CacheType = "radix"
  Uids <- ThreeUids
  Workload <- MixedLengths
  Tokens <- Vocabulary
  Sampled <- OneTokenAndEos
  EOS = 0
  MaxRunning = 2
  MaxSeqLen = 4
  Budget = 1
  Policy = "wait_time"
  Overlap = TRUE
  None = None
SPECIFICATION Spec
INVARIANTS
  InflightExact
  TerminalDrains
  SlotsExclusive
  OneChunkFirst
  LengthsInRange
  Placement
PROPERTIES
  AdmissionInOrder
  ImplementsRequestService
