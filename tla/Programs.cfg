SPECIFICATION ProgramsSpec
CONSTANTS
  Users = {u1, u2}
  MaxProbes = 3
  Objects = {o1, o2}
  Names = {n1, n2}
  Readers = {r1, r2}
  Numbers = {0, 5, 11, 17}
  ULONG_MAX = 15
  INT_MAX = 7
  MkdirPhases = {"init", "live"}
  MaxReads = 1
  MaxOpen = 1
  RcvBuf = 2
  MaxCount = 4
  MaxLoads = 2
  MaxSends = 3
  Tasks = {t1, t2}
  Child = child
  GdFaults = {"fork", "log", "socket", "family", "register", "request", "container", "write", "deregister"}
  RcvQueue = 2
  Uint32 = 16777216
  Answers <- MCAnswers
  ParkSeconds = 21
  AlarmSeconds = 2
  MaxTime = 4
  SegvTasks = {segv1}
  RdtscTasks = {rdtsc1}
  OnOffTasks = {onoff1, onoff2}
  Cpus = {c1, c2}
  Idle = idle
  StoreForwarding = FALSE
  NumPkts = 3
  TxFaults = {"connect", "send", "recvmsg"}
  MaxClock = 40
  MaxRx = 2
  Requests <- MCRequests
  SysTimes = {3, 4}
  PhcTimes = {0, 7}
  AdjTime = 2
  Seconds = 5
  NEvents = 2
  NSamples = 2
  MaxTicks = 6
INVARIANTS
  ProbeBalanced ReleasesHeld ItemsExact NoSubsystemLeft TimerInModule NoStaleCallback GapIsLoss WalkAligned ReportTrue
  QuietUnparked ReportClosed NoFalseAlarm PrintedPerPacket
  OffsetWithinDelay
PROPERTIES ChildAwaited StaysParked StampsRead
CHECK_DEADLOCK FALSE
