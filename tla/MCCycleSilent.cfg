SPECIFICATION Spec
CONSTANTS
  MaxForwarders = 7
  UdpTimeout = 5
  TcpTimeout = 3
  ResTimeout = 5
  Others = 0
  Timeout = 55
INVARIANT
  AllDownIsReported
