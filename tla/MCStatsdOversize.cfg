SPECIFICATION Spec
CONSTANTS
  MaxPacketBytes = 5
  Batches <- MCBatches
INVARIANT
  EveryDatagramFits
