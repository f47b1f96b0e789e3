SPECIFICATION FairSpec
CONSTANTS
  Owner = owner
  PollThread = poller
  AppThreads = {a1}
  NoOp = NoOp
  Msgs = {m1}
  Events = {e1}
  MaxMsgs = 1
  MaxOpens = 1
  Quiesce = TRUE
  PollBlocks = TRUE
  ThreadCreateFails = FALSE
  ResendInCallback = FALSE
CHECK_DEADLOCK FALSE
PROPERTY CloseTerminates
