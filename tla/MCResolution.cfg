SPECIFICATION ResolutionSpec
CONSTANTS
  Deadline = 3
  Warn = 1
  Crit = 2
INVARIANT
  ResolutionTypeOK
PROPERTIES
  UpMeansFreshAnswer
  OutageShows
  SilentLooksSlow
