SPECIFICATION Spec
CONSTANTS
  Consumers = {c1, c2}
  NoOne = NoOne
  Reset = "latest"
  MaxLog = 2
  CloseAfterFailure = TRUE
SYMMETRY Symmetry
INVARIANTS
  TypeOK
  LossOnlyByDeath
  NoGap
  IInv
