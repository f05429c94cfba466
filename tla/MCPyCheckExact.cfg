SPECIFICATION Spec
CONSTANTS
  Counters = 2
  MaxForwarders = 2
  MaxDomains = 2
  MaxZones = 2
  MaxCalls = 1
INVARIANT
  EmittedIsExact
