SPECIFICATION Spec
CONSTANTS
  Counters = 2
  Watched = 2
  Window = 2
  MaxTotal = 2
INVARIANT
  AlertMeansRecent
