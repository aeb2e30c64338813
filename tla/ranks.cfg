CONSTANTS
  MaxRanks = 2
  MaxTokenizers = 2
  Readings <- MemoryReadings
  PageMemory = 3
  Msgs <- Messages
  Work <- BatchesOf
  Exit = "exit"
SPECIFICATION FairSpec
INVARIANTS
  Lockstep
  ReadyMeansWired
PROPERTIES
  EveryMessageTaken
CHECK_DEADLOCK FALSE
