SPECIFICATION Spec
CONSTANTS
  Consumers = {c1}
  NoOne = NoOne
  Reset = "earliest"
  MaxLog = 1
  CloseAfterFailure = TRUE
INVARIANT
  CloseHasConsumer
