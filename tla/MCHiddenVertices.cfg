SPECIFICATION Spec
CONSTANTS
  Instance = "strip"
  Dimensions <- MCDimensions
  PeriodicAxes <- MCPeriodicAxes
  InvalidIndex = 100
  InitialPoints <- MCInitialPoints
  MorePoints <- MCMorePoints
  Capacity = 12
  MaxAppended = 4
  MaxErased = 0
  MinVisible = 3
  MaximumRounds = {16}
  MaximumSweeps = {16}
  RoundsNeeded = 3
  MayRetry = FALSE
INVARIANTS
  MeshIsPeriodic
CHECK_DEADLOCK FALSE
