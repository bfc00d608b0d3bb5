SPECIFICATION FairSpec
CONSTANTS
  BufferCount = 3
  Sizes <- SizesOfMinimised
  MaxFrames = 5
  MaxResizes = 2
INVARIANTS TypeOK BackBufferIdle FramesInFlight OldBuffersAreGone
PROPERTIES CallsReturn
CHECK_DEADLOCK FALSE
