SPECIFICATION Spec
CONSTANTS
  MaxPacketBytes = 5
  Batches <- MCBatches
INVARIANTS
  TypeOK
  SharedPayloadsFit
  NothingLost
  OrderedOnce
  CutOnlyWhenFull
PROPERTY
  ImplementsStream
