SPECIFICATION FairSpec
CONSTANTS
  Cards = {m1}
  Pids = {p1, p2}
  NoPid = NoPid
  NoCard = NoCard
  SHUTDOWN_TIMEOUT = 2
  RESET_TIMEOUT = 2
  FaultSets <- NoFailure
  OpSets <- NoReset
  MaxSuspend = 2
PROPERTIES ResumeReboots
