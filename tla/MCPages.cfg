SPECIFICATION FairSpec
CONSTANTS
  Requests = {1, 2, 3}
  NumDescriptorsPerHeap = 2
  MaxIndex = 3
  MaxPages = 2
INVARIANTS TypeOK NoOverlap NoneLost FreeCount Coalesced
PROPERTIES NoNeedlessPage ImplementsPool StaleAreReleased
