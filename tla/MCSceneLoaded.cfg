SPECIFICATION Spec
CONSTANTS
  Direct = Direct
  Compute = Compute
  Copy = Copy
  main = main
  loader = loader
  Threads = {loader}
  Queues = {Copy, Compute}
  Uses <- Loading
  CommandLists = {l1, l2, l3, l4, l5, l6, l7, l8}
  MaxOps <- TwoLoads
  NoList = NoList
  NoThread = NoThread
  NoQueue = NoQueue
PROPERTY SceneLoadedAfterFlush
CHECK_DEADLOCK FALSE
