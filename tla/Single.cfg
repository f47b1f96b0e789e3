SPECIFICATION FairSpec
CONSTANTS
  Consumers = {c1}
  NoOne = NoOne
  Reset = "earliest"
  MaxLog = 3
  CloseAfterFailure = TRUE
PROPERTIES
  CloseReturns
  ImplementsContract
INVARIANT
  AloneInv
