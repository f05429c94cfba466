SPECIFICATION Spec
CONSTANTS
  MaxForwarders = 6
  UdpTimeout = 5
  TcpTimeout = 3
  ResTimeout = 5
  Others = 4
  Timeout = 55
INVARIANT
  FittingCycleEnds
