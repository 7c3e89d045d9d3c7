SPECIFICATION Spec
CONSTANTS
  NodeCount = 3
  RangeEnd = 2
  MeshThreads = 2
  CastThreads = 1
  Vertices <- Triangle
  Known <- NoVertices
  DescentMayFail = FALSE
INVARIANTS
  MeshIsComplete
