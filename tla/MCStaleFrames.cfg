SPECIFICATION Spec
CONSTANTS
  BufferCount = 3
  Sizes <- TwoSizes
  MaxFrames = 2
  MaxResizes = 0
INVARIANTS StaleFramesCompleted
CHECK_DEADLOCK FALSE
