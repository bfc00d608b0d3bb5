SPECIFICATION FairSpec
CONSTANTS
  Direct = Direct
  Compute = Compute
  Copy = Copy
  main = main
  loader = loader
  Threads = {loader}
  Queues = {Copy, Compute}
  Uses <- Loading
  CommandLists = {l1, l2, l3, l4}
  MaxOps <- TwoLoads
  NoList = NoList
  NoThread = NoThread
  NoQueue = NoQueue
INVARIANT MipsAfterCopy
PROPERTIES FlushDrains FlushReturns JoinReturns ListsAreRecycled
CHECK_DEADLOCK FALSE
