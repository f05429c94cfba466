SPECIFICATION ResolutionSpec
CONSTANTS
  Deadline = 3
  Warn = 1
  Crit = 2
PROPERTY
  SilentLooksSlowAlways
