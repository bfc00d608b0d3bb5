SPECIFICATION Spec
CONSTANTS
  Direct = Direct
  Compute = Compute
  Copy = Copy
  main = main
  loader = loader
  Threads = {main, loader}
  Queues = {Direct, Copy}
  Uses <- Program
  CommandLists = {l1,l2,l3,l4}
  MaxOps <- TwoAndOne
  NoList = NoList
  NoThread = NoThread
  NoQueue = NoQueue
INVARIANTS TypeOK OneHolder NoReuseWhileExecuting
PROPERTIES FenceNeverRegresses
CHECK_DEADLOCK FALSE
