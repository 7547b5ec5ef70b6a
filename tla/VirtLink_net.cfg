SPECIFICATION FairSpec
CONSTANTS
  HDR = 2
  MAX = 3
  IDX = 3
  ENTRIES = 2
  CardBuf = 5
  Lens <- NetLens
  FaultSets <- Failures
  MaxPkts = 3
INVARIANTS NoAbort
PROPERTIES TxPipe RxPipe AllDelivered NoSleepOnPacket
CHECK_DEADLOCK FALSE
