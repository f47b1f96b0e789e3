SPECIFICATION Spec
CONSTANTS
  Owner = owner
  PollThread = poller
  AppThreads = {a1}
  NoOp = NoOp
  Msgs = {}
  Events = {}
  MaxMsgs = 1
  MaxOpens = 1
  Quiesce = FALSE
  PollBlocks = FALSE
  ThreadCreateFails = FALSE
  ResendInCallback = FALSE
INVARIANT NoUseAfterDelete
