SPECIFICATION Spec
CONSTANTS
  app = app
  main = main
  timer = timer
  rep = rep
  opq = opq
  low = low
  high = high
  once = once
  broker = broker
  delay = delay
  Queues = {rep, opq}
  Ops = {low, high, once}
  Threads = {app, main, timer}
  NoQueue = NoQueue
  NoOp = NoOp
  Prio <- MCPrio
  OwnerOf <- MCOwner
  Yielding = {main}
  Nudgers = {}
  Sends <- MCSends
  Forwards <- MCForwards
  Sources = {broker, delay}
  EonceOwner = app
  EonceOps = {once}
SYMMETRY MCSourceSymmetry
INVARIANTS
  TypeOK
  RefcntExact
  NoUseAfterFree
  OnePlace
  NoOvertaking
  NothingStranded
  EonceAsserts
CHECK_DEADLOCK FALSE
