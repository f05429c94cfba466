SPECIFICATION Spec
CONSTANT
  MaxQueries = 4
INVARIANT
  RatiosAddUp
PROPERTY
  DipIsExcused
