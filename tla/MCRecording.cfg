SPECIFICATION Lists
CONSTANTS
  mesh = mesh
  post = post
  Tables <- RootTables
  Inline <- RootInline
  Dynamic <- RootDynamic
  MaxDescriptorTables = 4
  PerHeap = 2
  MaxHeaps = 2
  NoHeap = NoHeap
  PageSize = 16
  MaxPages = 2
  Nothing = Nothing
  Vertices = 0
  Constant = 4
  Vertex = 3
  Buffers = {3}
  Counts = {1}
  MaxCalls = 7
  NoSignature = NoSignature
  NoTexture = NoTexture
  Uninitialised <- AnyDWORD
  Extents = {1, 2, 3, 4, 5, 6, 7, 8, 9, 12, 15, 16, 17, 24, 31, 32, 33, 48, 64, 80, 96, 100, 128, 513, 1024}
INVARIANTS TypeOK DrawsSeeTheirParameters PassesAreExact
