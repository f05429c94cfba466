SPECIFICATION Spec
CONSTANTS
  Counters = 3
  Watched = 2
  Window = 2
  MaxTotal = 2
INVARIANT
  QuietAfterRestart
PROPERTY
  SentUnderItsName
