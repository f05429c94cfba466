SPECIFICATION SetupSpec
CONSTANTS
  Envs = {"production", "staging"}
  Default = "production"
INVARIANTS
  SetupTypeOK
  EndedInPlace
  EnvOfMaker
PROPERTY
  EditsSurvive
