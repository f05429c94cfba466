SPECIFICATION Spec
CONSTANTS
  MaxPacketBytes = 6
  Outputs <- MCOutputs
  MonitorLine = 2
  MaxCalls = 2
INVARIANTS
  TypeOK
  OneVerdictPerCall
  OkMeansAllPushed
  CountIsTruthful
PROPERTIES
  CallReturns
  ImplementsContract
