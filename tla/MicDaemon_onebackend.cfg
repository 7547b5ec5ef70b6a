SPECIFICATION Spec
CONSTANTS
  Cards = {m1}
  Pids = {p1, p2, p3}
  NoPid = NoPid
  NoCard = NoCard
  SHUTDOWN_TIMEOUT = 2
  RESET_TIMEOUT = 2
  FaultSets <- IoFailure
  OpSets <- NoReset
  MaxSuspend = 0
INVARIANTS OneBackend
