SPECIFICATION Spec
CONSTANTS
  f1 = f1
  f2 = f2
  Forwarders = {f1, f2}
  List <- MCList
  TxIds = {1, 2, 3}
  Ports = {1}
  Timeout = 1
INVARIANT
  BrokenIsForwarderSide
