SPECIFICATION Spec
CONSTANTS
  Counters = 2
  MaxForwarders = 2
  MaxDomains = 2
  MaxZones = 2
  MaxCalls = 2
INVARIANTS
  CountGapExplained
  RaisedIsSilent
  EveryServiceCheckOnce
  LeaksShow
PROPERTY
  CheckEnds
