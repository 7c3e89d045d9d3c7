SPECIFICATION Spec
CONSTANTS
  NodeCount = 4
  RangeEnd = 3
  MeshThreads = 1
  CastThreads = 2
  Vertices <- Wheel
  Known <- NoVertices
  DescentMayFail = FALSE
INVARIANTS
  EdgePassIsExclusive
  EveryVertexIsFound
  EveryUnboundedEdgeIsFound
  ListsFollowStore
  NewVertexCountIsExact
