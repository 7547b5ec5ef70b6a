SPECIFICATION FairSpec
CONSTANTS
  Cards = {m1}
  Pids = {p1, p2}
  NoPid = NoPid
  NoCard = NoCard
  SHUTDOWN_TIMEOUT = 2
  RESET_TIMEOUT = 2
  FaultSets <- Failures
  OpSets <- Users
  MaxSuspend = 2
INVARIANTS BackendReplaced NoBackendDuringReset FreshBackend KillsOwnChild
           NoMissedState
PROPERTIES ShutdownHandled RestartBoots ResumeBoots
