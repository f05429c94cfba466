SPECIFICATION Spec
CONSTANTS
  MaxPacketBytes = 6
  Outputs <- MCOutputs
  MonitorLine = 2
  MaxCalls = 2
PROPERTY
  HangingCollectorShows
