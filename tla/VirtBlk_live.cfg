SPECIFICATION FairSpec
CONSTANTS
  fa = fa
  fb = fb
  fempty = fempty
  Files <- MCFiles
  None = None
  Size <- MCSize
  Supported = {"in"}
  Unsupported = {"flush"}
  NoRequest = NoRequest
  Faults = {"open", "add", "init_vr", "malloc", "copy"}
  RingSize = 2
  MaxChanges = 1
  MaxSignals = 2
  MaxDevices = 2
INVARIANTS ServesOpenBackend Released CapacityMapped
PROPERTIES SignalHonoured BlockContract
CHECK_DEADLOCK FALSE
