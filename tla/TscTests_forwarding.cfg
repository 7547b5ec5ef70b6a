SPECIFICATION TscSpec
CONSTANTS
  SegvTasks = {s1}
  RdtscTasks = {r1}
  OnOffTasks = {o1}
  Cpus = {c1}
  Idle = idle
  StoreForwarding = TRUE
INVARIANTS NoFalseAlarm
CHECK_DEADLOCK FALSE
