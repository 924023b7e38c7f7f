SPECIFICATION Spec
CONSTANTS
  Specs <- MCSpecs
  Observations <- MCObservations
  MinFree = 12
  MaxSwapDelta = 4
  GapPercent = 15
  MinimumRepetitions = 2
  MinimumSupport = 2
  CompressorGrowth = 256
  Scale = 60
INVARIANTS
  TypeOK
  OrderIsBalanced
  ReportsComplete
  
  VerdictIgnoresOrder
  UnanimousGapPasses
  PassNeedsHalf
  UnanimousWinIsReported
\* The run is over when its reports are written.
CHECK_DEADLOCK FALSE
