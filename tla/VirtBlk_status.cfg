SPECIFICATION Spec
CONSTANTS
  fa = fa
  fb = fb
  fempty = fempty
  Files <- MCFiles
  None = None
  Size <- MCSize
  Supported = {"in"}
  Unsupported = {"flush"}
  NoRequest = NoRequest
  Faults = {}
  RingSize = 1
  MaxChanges = 0
  MaxSignals = 0
  MaxDevices = 1
INVARIANTS AnswerTruthful
CHECK_DEADLOCK FALSE
