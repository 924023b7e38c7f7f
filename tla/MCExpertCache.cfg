SPECIFICATION FairSpec
CONSTANTS
  Slots <- MCSlots
  NumLayers = 2
  LayerOf <- MCLayerOf
  Experts = {1, 2, 3}
  HotChoices = {0, 1, 2}
  MaxTopK = 2
  MaxPasses = 2
INVARIANTS
  TypeOK
  BoundExact
  ExactnessInvariant
  ReceiptBalances
  FixedBypassesPurgeability
  ColdSlotsOffered
PROPERTIES
  SurvivorsAreHits
  PassEnds
  ImplementsExactStore
\* The runtime may stay idle after the last pass.
CHECK_DEADLOCK FALSE
