CONSTANTS
  MaxTp = 4
  MaxVocab = 9
  MaxTokens = 4
  MaxText = 4
  MaxPrompts = 3
SPECIFICATION Spec
INVARIANTS
  RanksComputeModel
  EachChoiceOnce
  
  RowsReadTheirOwn
  IncrementsAreText
  
