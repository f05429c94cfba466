SPECIFICATION SetupSpec
CONSTANTS
  Envs = {"production", "staging"}
  Default = "production"
INVARIANT
  DryRunSendsNothing
