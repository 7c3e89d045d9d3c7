SPECIFICATION MCSpec
CONSTANTS
  Instance = "growing"
  Capacity <- MCCapacity
  InitialCount = 5
  Inside <- MCInside
  Beyond <- MCBeyond
  Admissible <- MCAdmissible
  MaxBlock = 1
  MaxDoomed = 1
  Asked = {4}
  Removers = {r1, r2}
  Consumers = {k1, k2}
  Algorithm = "polygon"
  Threads = 2
  FacetSize = 2
  Interrupted = {1, 2, 3, 4}
  MeasuresHoles = FALSE
SYMMETRY Symmetry
INVARIANTS
  NoStaleVertex
  HolesAreRemembered
  CleanListsAreCurrent
  MeasuresAreCurrent
PROPERTIES
  RemovesTheChosenNodes
CHECK_DEADLOCK FALSE
