SPECIFICATION Spec
CONSTANTS
  Owner = owner
  PollThread = poller
  AppThreads = {a1}
  NoOp = NoOp
  Msgs = {m1, m2, m3}
  Events = {e1}
  MaxMsgs = 2
  MaxOpens = 2
  Quiesce = TRUE
  PollBlocks = FALSE
  ThreadCreateFails = TRUE
  ResendInCallback = TRUE
SYMMETRY Symmetry
INVARIANTS
  TypeOK
  ClosedMeansReported
  OutqCounts
  FailMeansNotWritten
  NoUseAfterDelete
  TakenByOne
  IInv
PROPERTIES
  ImplementsContract
