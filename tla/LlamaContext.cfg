SPECIFICATION Spec
CONSTANTS
  NHeads = 2
  NCells = 3
  NPos = 4
  NUbatch = 2
  NBatch = 3
  Token <- MCToken
  Spoilt = Spoilt
  Batches <- MCBatches
INVARIANTS
  TypeOK
  Bookkeeping
  PositionsWhole
  HiddenOfBatch
PROPERTIES
  FullLeavesNoTrace
  ImplementsPool
