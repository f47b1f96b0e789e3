SPECIFICATION FairSpec
CONSTANTS
  Owner = owner
  PollThread = poller
  AppThreads = {a1}
  NoOp = NoOp
  Msgs = {m1, m2}
  Events = {e1}
  MaxMsgs = 2
  MaxOpens = 1
  Quiesce = TRUE
  PollBlocks = FALSE
  ThreadCreateFails = FALSE
  ResendInCallback = TRUE
PROPERTIES
  CloseTerminates
  EveryAcceptedReported
