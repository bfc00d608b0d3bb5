SPECIFICATION Spec
CONSTANTS
  Direct = Direct
  Compute = Compute
  Copy = Copy
  main = main
  loader = loader
  Threads = {main, loader}
  Queues = {Copy}
  Uses <- Starting
  CommandLists = {l1, l2, l3, l4, l5, l6}
  MaxOps <- TwoAndOne
  NoList = NoList
  NoThread = NoThread
  NoQueue = NoQueue
INVARIANT AssertIsLocked
CHECK_DEADLOCK FALSE
