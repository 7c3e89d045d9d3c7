SPECIFICATION Spec
CONSTANTS
  Instance = "torus"
  Dimensions <- MCDimensions
  PeriodicAxes <- MCPeriodicAxes
  InvalidIndex = 100
  InitialPoints <- MCInitialPoints
  MorePoints <- MCMorePoints
  Capacity = 26
  MaxAppended = 4
  MaxErased = 1
  MinVisible = 4
  MaximumRounds = {1, 16}
  MaximumSweeps = {0, 16}
  RoundsNeeded = 3
  MayRetry = FALSE
INVARIANTS
  MeshIsPeriodic
  NoStaleRecord
  ClosureSuffices
CHECK_DEADLOCK FALSE
