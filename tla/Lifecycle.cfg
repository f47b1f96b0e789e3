SPECIFICATION Spec
CONSTANTS
  Callbacks = {k1, k2, k3}
  Default = Default
  NoCallback = NoCallback
  MaxInits = 4
  CloseFirst = TRUE
  FreshCallbacks = TRUE
SYMMETRY Symmetry
CHECK_DEADLOCK FALSE
INVARIANTS
  TypeOK
  NoUseAfterFree
  NothingLeft
  IInv
