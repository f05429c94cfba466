SPECIFICATION EventsSpec
CONSTANTS
  Lookback = 2
  Cap = 2
  LastMinute = 5
INVARIANTS
  EventsTypeOK
  NoErrorMissed
PROPERTY
  UncappedIsExact
