\* Every boundary of distance and weight, for every delivery type.
SPECIFICATION CostSpec
CONSTANTS
  Distances <- BoundaryDistances
  Weights <- BoundaryWeights
INVARIANTS
  NeverCheaper
  BegunUnits
  AddsUp
CHECK_DEADLOCK FALSE
