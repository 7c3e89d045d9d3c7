SPECIFICATION Spec
CONSTANTS
  NodeCount = 4
  RangeEnd = 3
  MeshThreads = 2
  CastThreads = 1
  Vertices <- Late
  Known <- NoVertices
  DescentMayFail = TRUE
INVARIANTS
  TypeOK
  QueueBelongsToCell
  QuietCellsAreComplete
PROPERTIES
  Terminates
