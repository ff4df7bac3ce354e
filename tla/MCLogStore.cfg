CONSTANTS
  g1 = g1
  g2 = g2
  Kinds <- MCKinds
  Filters <- MCFilters
  Limits = {0, 2}
  MaxTime = 5
  PerSecond = 2
  MaxRows = 3
  Retention = 3
  DefaultLimit = 1
  MaxLimit = 2
  DefaultBuckets = 1
  MaxBuckets = 2
  Anything = Anything

SPECIFICATION Spec

INVARIANTS
  WalkMissesNothing
  SeriesCountsEveryRow
  GatewayViewsAgree
