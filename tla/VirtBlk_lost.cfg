SPECIFICATION FairSpec
CONSTANTS
  fa = fa
  fb = fb
  fempty = fempty
  Files <- MCFiles
  None = None
  Size <- MCSize
  Supported = {"in"}
  Unsupported = {"flush"}
  NoRequest = NoRequest
  Faults = {}
  RingSize = 0
  MaxChanges = 1
  MaxSignals = 1
  MaxDevices = 1
PROPERTIES ConfigFollowed
CHECK_DEADLOCK FALSE
