SPECIFICATION MCSpec
CONSTANTS
  Instance = "cut"
  Capacity <- MCCapacity
  InitialCount = 6
  Inside <- MCInside
  Beyond <- MCBeyond
  Admissible <- MCAdmissible
  MaxBlock = 1
  MaxDoomed = 2
  Asked = {4}
  Removers = {r1}
  Consumers = {k1}
  Algorithm = "polygon"
  Threads = 2
  FacetSize = 2
  Interrupted = {}
  MeasuresHoles = FALSE
INVARIANTS
  BoundedCellsHaveVolumes
CHECK_DEADLOCK FALSE
