CONSTANTS
  Clients = {c1, c2}
  Keys <- BranchingKeys
  MaxTime = 7
SPECIFICATION Spec
INVARIANTS
  EvictFindsEnough
PROPERTIES
  ImplementsPrefixCache
  EvictsLeastRecent
