SPECIFICATION FairSpec
CONSTANTS
  app = app
  main = main
  timer = timer
  rep = rep
  opq = opq
  low = low
  high = high
  once = once
  broker = broker
  delay = delay
  Queues = {rep, opq}
  Ops = {high, once}
  Threads = {app, main}
  NoQueue = NoQueue
  NoOp = NoOp
  Prio <- MCPrio
  OwnerOf <- MCOwner
  Yielding = {main}
  Nudgers = {main}
  Sends <- MCRequests
  Forwards <- MCForwards
  Sources = {delay}
  EonceOwner = app
  EonceOps = {once}
PROPERTIES
  OpsEnd
  AllFreed
CHECK_DEADLOCK FALSE
