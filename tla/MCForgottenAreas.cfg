SPECIFICATION MCSpec
CONSTANTS
  Instance = "growing"
  Capacity <- MCCapacity
  InitialCount = 5
  Inside <- MCInside
  Beyond <- MCBeyond
  Admissible <- MCAdmissible
  MaxBlock = 1
  MaxDoomed = 1
  Asked = {4}
  Removers = {r1}
  Consumers = {k1}
  Algorithm = "montecarlo"
  Threads = 2
  FacetSize = 2
  Interrupted = {}
  MeasuresHoles = FALSE
INVARIANTS
  MeasuresAreCurrent
CHECK_DEADLOCK FALSE
