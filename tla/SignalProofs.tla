----------------------------- MODULE SignalProofs -----------------------------
(***************************************************************************)
(* Proofs about the programs driven by signals and by the scheduler:       *)
(* freefall.c, dslm.c and the PR_SET_TSC stress tests.                     *)
(***************************************************************************)
EXTENDS Freefall, Dslm, TscTests, TLAPS

-----------------------------------------------------------------------------
(* freefall.c.  The alarm that is running or has fired is the one of the   *)
(* last fall, and the handler undoes the park before it returns.           *)
FfInv ==
  /\ FfTypeOK
  /\ NoStaleAlarm
  /\ QuietUnparked
  /\ noled => ~led
  /\ handler # "none" \/ sigalrm => alarm_left = 0
  /\ handler = "ledoff" => park_left = 0
  /\ ff_pc = "eintr" => park_left = 0 /\ ~led

LEMMA FfInit_Inv == FfInit => FfInv
  <1> SUFFICES ASSUME FfInit PROVE FfInv
    OBVIOUS
  <1>1. FfTypeOK
    <2>1. noled \in BOOLEAN /\ led \in BOOLEAN /\ sigalrm \in BOOLEAN
      BY Zenon DEF FfInit
    <2> QED BY <2>1, FreefallConstants DEF FfInit, FfTypeOK
  <1>2. NoStaleAlarm /\ ff_pc # "eintr" /\ handler = "none" /\ ~led /\ ~sigalrm
    BY Zenon DEF FfInit, NoStaleAlarm
  <1> QED
    BY <1>1, <1>2 DEF FfInit, FfInv, QuietUnparked

LEMMA FfNext_Inv == FfInv /\ [FfNext]_ff_vars => FfInv'
  <1> SUFFICES ASSUME FfInv, [FfNext]_ff_vars PROVE FfInv'
    OBVIOUS
  <1> USE FreefallConstants DEF FfInv, FfTypeOK, NoStaleAlarm, QuietUnparked, MainRuns
  <1>1. ASSUME NEW ret \in {"fell", "eintr", "failed"}, CancelAlarm(ret) PROVE FfInv'
    <2>1. CASE ret = "fell"
      BY <1>1, <2>1 DEF CancelAlarm
    <2>2. CASE ret = "eintr"
      BY <1>1, <2>2 DEF CancelAlarm
    <2>3. CASE ret = "failed"
      BY <1>1, <2>3 DEF CancelAlarm
    <2> QED BY <2>1, <2>2, <2>3
  <1>2. CASE Park
    BY <1>2 DEF Park, protect
  <1>3. CASE LedOn
    BY <1>3 DEF LedOn, set_led
  <1>4. CASE SetAlarm
    BY <1>4 DEF SetAlarm
  <1>5. CASE Deliver
    BY <1>5 DEF Deliver
  <1>6. CASE Unpark
    BY <1>6 DEF Unpark, protect
  <1>7. CASE LedOff
    BY <1>7 DEF LedOff, set_led
  <1>8. ASSUME NEW ret \in {"fell", "failed"}, ReadReturns(ret) PROVE FfInv'
    BY <1>8 DEF ReadReturns
  <1>9. CASE WriteFails(handler # "none" \/ (MainRuns /\ ff_pc \in {"protect", "led"}))
    BY <1>9 DEF WriteFails
  <1>10. CASE Tick
    <2>1. FfTypeOK'
      <3>1. park_left' \in 0 .. ParkSeconds /\ alarm_left' \in 0 .. AlarmSeconds
        BY <1>10 DEF Tick
      <3>2. sigalrm' \in BOOLEAN
        BY <1>10, Zenon DEF Tick
      <3> QED BY <1>10, <3>1, <3>2 DEF Tick
    <2>2. CASE alarm_left = 0
      <3>1. alarm_left' = 0 /\ (park_left = 0 => park_left' = 0)
        BY <1>10, <2>2 DEF Tick
      <3>2. sigalrm' = sigalrm
        <4>1. alarm_left # 1 BY <2>2
        <4> QED BY <1>10, <4>1, Zenon DEF Tick
      <3> QED BY <1>10, <2>1, <2>2, <3>1, <3>2 DEF Tick
    <2>3. CASE alarm_left = 1
      <3>1. handler = "none" /\ ~sigalrm
        BY <2>3
      <3>2. ff_pc # "exit" => sigalrm'
        BY <1>10, <2>3, Zenon DEF Tick
      <3>3. alarm_left' = 0 /\ (park_left = 0 => park_left' = 0)
        BY <1>10, <2>3 DEF Tick
      <3> QED BY <1>10, <2>1, <2>3, <3>1, <3>2, <3>3 DEF Tick
    <2>4. CASE alarm_left > 1
      <3>1. handler = "none" /\ ~sigalrm
        BY <2>4
      <3>2. alarm_left' > 0 /\ (park_left = 0 => park_left' = 0)
        BY <1>10, <2>4 DEF Tick
      <3>3. sigalrm' = sigalrm
        <4>1. alarm_left # 1 BY <2>4
        <4> QED BY <1>10, <4>1, <3>1, Zenon DEF Tick
      <3> QED BY <1>10, <2>1, <2>4, <3>1, <3>2, <3>3 DEF Tick
    <2> QED BY <2>2, <2>3, <2>4
  <1>11. CASE UNCHANGED ff_vars
    BY <1>11 DEF ff_vars
  <1> QED
    BY <1>1, <1>2, <1>3, <1>4, <1>5, <1>6, <1>7, <1>8, <1>9, <1>10, <1>11
    DEF FfNext, Program, Environment

(* The handler of an earlier fall's alarm never runs between the park for  *)
(* a fall and the alarm set for it, whatever the two delays are.           *)
THEOREM NoStaleAlarmAlways == FfSpec => []NoStaleAlarm
  <1>1. FfInv => NoStaleAlarm
    BY DEF FfInv
  <1> QED
    BY <1>1, FfInit_Inv, FfNext_Inv, PTL DEF FfSpec

(* A program that waits for the next fall with no alarm left has unparked  *)
(* the heads and switched off the LED.                                     *)
THEOREM QuietUnparkedAlways == FfSpec => []QuietUnparked
  <1>1. FfInv => QuietUnparked
    BY DEF FfInv
  <1> QED
    BY <1>1, FfInit_Inv, FfNext_Inv, PTL DEF FfSpec

(* The time a park has lasted and the time to its alarm make AlarmSeconds, *)
(* and a signal that is pending or handled is AlarmSeconds after the park. *)
ParkedFor == ParkSeconds - park_left
ParkInv ==
  park_left > 0 =>
    /\ alarm_left > 0 => ParkedFor + alarm_left >= AlarmSeconds
    /\ sigalrm => ParkedFor >= AlarmSeconds
    /\ handler = "unpark" => ParkedFor >= AlarmSeconds

LEMMA ParkInv_Next == FfInv /\ ParkInv /\ [FfNext]_ff_vars => ParkInv'
  <1> SUFFICES ASSUME FfInv, ParkInv, [FfNext]_ff_vars PROVE ParkInv'
    OBVIOUS
  <1>t. park_left \in 0 .. ParkSeconds /\ alarm_left \in 0 .. AlarmSeconds
    BY DEF FfInv, FfTypeOK
  <1> USE <1>t, FreefallConstants DEF ParkInv, ParkedFor
  <1>1. ASSUME NEW ret \in {"fell", "eintr", "failed"}, CancelAlarm(ret) PROVE ParkInv'
    BY <1>1 DEF CancelAlarm
  <1>2. CASE Park
    <2>1. alarm_left' = 0 /\ ~sigalrm' /\ handler' # "unpark"
      BY <1>2 DEF Park, FfInv, NoStaleAlarm
    <2> QED BY <2>1
  <1>3. CASE LedOn
    BY <1>3 DEF LedOn
  <1>4. CASE SetAlarm
    <2>1. ~sigalrm' /\ handler' # "unpark"
      BY <1>4 DEF SetAlarm, FfInv, NoStaleAlarm
    <2>2. alarm_left' = AlarmSeconds /\ park_left' = park_left
      BY <1>4 DEF SetAlarm
    <2> QED BY <2>1, <2>2
  <1>5. CASE Deliver
    BY <1>5 DEF Deliver
  <1>6. CASE Unpark
    BY <1>6 DEF Unpark, protect
  <1>7. CASE LedOff
    <2>1. handler' # "unpark" /\ UNCHANGED <<park_left, alarm_left, sigalrm>>
      BY <1>7 DEF LedOff
    <2> QED BY <2>1
  <1>8. ASSUME NEW ret \in {"fell", "failed"}, ReadReturns(ret) PROVE ParkInv'
    BY <1>8 DEF ReadReturns
  <1>9. CASE WriteFails(handler # "none" \/ (MainRuns /\ ff_pc \in {"protect", "led"}))
    BY <1>9 DEF WriteFails
  <1>10. CASE Tick
    <2> SUFFICES ASSUME park_left' > 0
                 PROVE  /\ alarm_left' > 0 => ParkedFor' + alarm_left' >= AlarmSeconds
                        /\ sigalrm' => ParkedFor' >= AlarmSeconds
                        /\ handler' = "unpark" => ParkedFor' >= AlarmSeconds
      OBVIOUS
    <2>1. park_left > 0 /\ park_left' = park_left - 1
      BY <1>10 DEF Tick
    <2>2. /\ alarm_left' = IF alarm_left > 0 THEN alarm_left - 1 ELSE 0
          /\ handler' = handler
      BY <1>10 DEF Tick
    <2>3. CASE alarm_left = 1
      BY <2>1, <2>2, <2>3
    <2>4. CASE alarm_left # 1
      <3>1. sigalrm' = sigalrm
        <4>1. sigalrm \in BOOLEAN
          BY DEF FfInv, FfTypeOK
        <4> QED BY <1>10, <2>4, <4>1, Zenon DEF Tick
      <3> QED BY <2>1, <2>2, <2>4, <3>1
    <2> QED BY <2>3, <2>4
  <1>11. CASE UNCHANGED ff_vars
    BY <1>11 DEF ff_vars
  <1> QED
    BY <1>1, <1>2, <1>3, <1>4, <1>5, <1>6, <1>7, <1>8, <1>9, <1>10, <1>11
    DEF FfNext, Program, Environment

(* No park is cut short before AlarmSeconds have passed since the fall it  *)
(* protects from, whatever the two delays are.                             *)
THEOREM StaysParkedAlways == FfSpec => StaysParked
  <1>1. FfInit => ParkInv
    BY DEF FfInit, ParkInv
  <1>2. /\ FfInv /\ ParkInv /\ [FfNext]_ff_vars
        => [park_left > park_left' + 1 => ParkSeconds - park_left >= AlarmSeconds]_ff_vars
    <2> SUFFICES ASSUME FfInv, ParkInv, FfNext, park_left > park_left' + 1
                 PROVE  ParkSeconds - park_left >= AlarmSeconds
      BY DEF ff_vars
    <2>t. park_left \in 0 .. ParkSeconds /\ alarm_left \in 0 .. AlarmSeconds
      BY DEF FfInv, FfTypeOK
    <2>1. CASE Unpark
      BY <2>t, <2>1, FreefallConstants DEF Unpark, protect, ParkInv, ParkedFor
    <2>2. CASE Park
      BY <2>t, <2>2, FreefallConstants DEF Park, protect
    <2>3. CASE Tick
      BY <2>t, <2>3, FreefallConstants DEF Tick
    <2>4. CASE UNCHANGED park_left
      BY <2>t, <2>4, FreefallConstants
    <2> QED
      BY <2>1, <2>2, <2>3, <2>4
      DEF FfNext, Program, Environment, CancelAlarm, LedOn, SetAlarm, Deliver, LedOff,
          ReadReturns, WriteFails
  <1> QED
    BY <1>1, <1>2, FfInit_Inv, FfNext_Inv, ParkInv_Next, PTL DEF FfSpec, StaysParked
-----------------------------------------------------------------------------
(* dslm.c.  The times add up to the last time that was accounted for, and  *)
(* the count is one ahead of the changes read only if the last pass saw    *)
(* endit and accounted for all of the time.                                *)
TimesInv ==
  /\ DsTypeOK
  /\ Total = last_time - start_time
  /\ ds_pc = "first" => start_time = 0 /\ last_time = 0

Closed == curr_time = last_time /\ tested = last_time

CountInv ==
  /\ ds_pc = "first" => changes = seen
  /\ ds_pc = "sleep" => poll = last_state /\ changes = seen
  /\ ds_pc = "if" => /\ poll = curr_state
                     /\ curr_state # last_state => changes = seen - 1
                     /\ curr_state = last_state => changes = seen
  /\ ds_pc = "while" => /\ poll = last_state
                        /\ changes = seen \/ (endit /\ changes = seen + 1 /\ Closed)
  /\ ds_pc = "report" => changes = seen \/ (changes = seen + 1 /\ Closed)
  /\ ds_pc = "end" => changes = seen - 1 \/ (changes = seen /\ Closed)

DsInv == TimesInv /\ CountInv

LEMMA DsInit_Inv == DsInit => DsInv
  <1> SUFFICES ASSUME DsInit PROVE DsInv
    OBVIOUS
  <1>1. endit \in BOOLEAN
    BY Zenon DEF DsInit
  <1>2. spent \in [{-1, 0, 1} -> Int] /\ spent[-1] = 0 /\ spent[0] = 0 /\ spent[1] = 0
    BY DEF DsInit
  <1> QED
    BY <1>1, <1>2 DEF DsInit, DsInv, TimesInv, CountInv, DsTypeOK, Total

LEMMA PowermodeType == \A a \in Replies : check_powermode(a) \in {-1, 0, 1}
  BY DEF Replies, check_powermode

LEMMA TimesStep == TimesInv /\ [DsNext]_ds_vars => TimesInv'
  <1> SUFFICES ASSUME TimesInv, [DsNext]_ds_vars PROVE TimesInv'
    OBVIOUS
  <1> USE DEF TimesInv, DsTypeOK, Total, ds_history
  <1>1. CASE First
    BY <1>1, PowermodeType DEF First
  <1>2. CASE While
    BY <1>2 DEF While
  <1>3. CASE Sleep
    BY <1>3, PowermodeType DEF Sleep
  <1>4. CASE Account
    <2>1. CASE curr_state # last_state \/ endit
      <3> DEFINE d == now - last_time
      <3>1. spent' = [spent EXCEPT ![last_state] = @ + now - last_time]
        BY <1>4, <2>1 DEF Account
      <3>2. last_time' = now /\ now' = now /\ start_time' = start_time
        BY <1>4, <2>1 DEF Account
      <3>3. CASE last_state = -1
        BY <1>4, <2>1, <3>1, <3>2, <3>3 DEF Account
      <3>4. CASE last_state = 0
        BY <1>4, <2>1, <3>1, <3>2, <3>4 DEF Account
      <3>5. CASE last_state = 1
        BY <1>4, <2>1, <3>1, <3>2, <3>5 DEF Account
      <3> QED BY <3>3, <3>4, <3>5
    <2>2. CASE ~(curr_state # last_state \/ endit)
      BY <1>4, <2>2 DEF Account
    <2> QED BY <2>1, <2>2
  <1>5. CASE Report
    BY <1>5 DEF Report
  <1>6. CASE ender
    BY <1>6 DEF ender
  <1>7. CASE DiskChanges
    BY <1>7 DEF DiskChanges
  <1>8. CASE Clock
    BY <1>8 DEF Clock
  <1>9. CASE UNCHANGED ds_vars
    BY <1>9 DEF ds_vars
  <1> QED
    BY <1>1, <1>2, <1>3, <1>4, <1>5, <1>6, <1>7, <1>8, <1>9 DEF DsNext

LEMMA CountStep == TimesInv /\ CountInv /\ [DsNext]_ds_vars => CountInv'
  <1> SUFFICES ASSUME TimesInv, CountInv, [DsNext]_ds_vars PROVE CountInv'
    OBVIOUS
  <1>t. changes \in Int /\ seen \in Nat
    BY DEF TimesInv, DsTypeOK
  <1> USE <1>t DEF CountInv, Closed, ds_history
  <1>1. CASE First
    BY <1>1 DEF First
  <1>2. CASE While
    BY <1>2 DEF While
  <1>3. CASE Sleep
    BY <1>3 DEF Sleep
  <1>4. CASE Account
    BY <1>4 DEF Account
  <1>5. CASE Report
    BY <1>5 DEF Report
  <1>6. CASE ender
    BY <1>6 DEF ender
  <1>7. CASE DiskChanges \/ Clock
    BY <1>7 DEF DiskChanges, Clock
  <1>8. CASE UNCHANGED ds_vars
    BY <1>8 DEF ds_vars
  <1> QED
    BY <1>1, <1>2, <1>3, <1>4, <1>5, <1>6, <1>7, <1>8 DEF DsNext

(* However long dslm runs, whatever the disk answers and wherever SIGINT   *)
(* interrupts it, the report misses at most one change of mode, and if it  *)
(* misses none its times add up to the total it prints.                    *)
THEOREM ReportClosedAlways == DsSpec => []ReportClosed
  <1>1. DsInv => ReportClosed
    BY DEF DsInv, TimesInv, CountInv, Closed, DsTypeOK, ReportClosed
  <1>2. DsInv /\ [DsNext]_ds_vars => DsInv'
    BY TimesStep, CountStep DEF DsInv
  <1> QED
    BY <1>1, <1>2, DsInit_Inv, PTL DEF DsSpec
-----------------------------------------------------------------------------
(* The PR_SET_TSC tests, compiled so that should_segv is read from memory. *)
(* What a child with program counter p, flag n and variable s may be in    *)
(* the middle of: its expectation of rdtsc agrees with its flag wherever   *)
(* it executes rdtsc.                                                      *)
Expects(t, p, n, s) ==
  \/ p = "exit"
  \/ t \in SegvTasks /\ p = "prctl"
  \/ t \in SegvTasks /\ p = "rdtsc" /\ n = TRUE
  \/ t \in RdtscTasks /\ p \in {"prctl", "rdtsc"} /\ n = FALSE
  \/ t \in OnOffTasks /\ p = "rdtsc" /\ n = s
  \/ t \in OnOffTasks /\ p \in {"off", "cb_rdtsc"} /\ n = FALSE /\ s = FALSE
  \/ t \in OnOffTasks /\ p = "set" /\ n = TRUE /\ s = FALSE
  \/ t \in OnOffTasks /\ p = "cb_enable" /\ n = TRUE /\ s = TRUE
  \/ t \in OnOffTasks /\ p = "cb_reset" /\ n = FALSE /\ s = TRUE

(* A child is on one processor at most, and that processor's bit is the    *)
(* child's flag.                                                           *)
OnOne == \A c, d \in Cpus : on[c] = on[d] /\ on[c] \in TscTasks => c = d
Loaded == \A c \in Cpus : on[c] \in TscTasks => tsd[c] = notsc[on[c]]

TscInv ==
  /\ TscTypeOK
  /\ OnOne
  /\ Loaded
  /\ \A t \in TscTasks : Expects(t, tsc_pc[t], notsc[t], should_segv[t])

LEMMA TscInit_Inv == TscInit => TscInv
  <1> SUFFICES ASSUME TscInit PROVE TscInv
    OBVIOUS
  <1>1. TscTypeOK
    BY DEF TscInit, TscTypeOK, TscPcs
  <1>2. OnOne /\ Loaded
    BY TscConstants DEF TscInit, OnOne, Loaded
  <1>3. ASSUME NEW t \in TscTasks
        PROVE  Expects(t, tsc_pc[t], notsc[t], should_segv[t])
    <2>1. notsc[t] = FALSE /\ should_segv[t] = FALSE
      BY Zenon DEF TscInit
    <2>2. tsc_pc[t] = IF t \in OnOffTasks THEN "rdtsc" ELSE "prctl"
      BY Zenon DEF TscInit
    <2> QED BY <2>1, <2>2 DEF Expects, TscTasks
  <1> QED
    BY <1>1, <1>2, <1>3 DEF TscInv

(* A step of child t on processor c sets the three functions at t to p, n  *)
(* and s and the bit of the processor to n.                                *)
TscStep(c, t, p, n, s) ==
  /\ tsc_pc' = [tsc_pc EXCEPT ![t] = p]
  /\ notsc' = [notsc EXCEPT ![t] = n]
  /\ should_segv' = [should_segv EXCEPT ![t] = s]
  /\ tsd' = [tsd EXCEPT ![c] = n]
  /\ stored' \in [TscTasks -> BOOLEAN] /\ on' = on /\ waits' = waits

LEMMA TscUpdate ==
  ASSUME TscInv, NEW c \in Cpus, NEW t \in TscTasks, on[c] = t,
         NEW p \in TscPcs, NEW n \in BOOLEAN, NEW s \in BOOLEAN,
         TscStep(c, t, p, n, s), Expects(t, p, n, s)
  PROVE  TscInv'
  <1> USE DEF TscInv, TscTypeOK, TscStep
  <1>1. TscTypeOK'
    OBVIOUS
  <1>2. OnOne'
    BY DEF OnOne
  <1>3. Loaded'
    <2> SUFFICES ASSUME NEW d \in Cpus, on[d] \in TscTasks
                 PROVE  tsd'[d] = notsc'[on[d]]
      BY DEF Loaded
    <2>1. CASE d = c
      BY <2>1
    <2>2. CASE d # c
      <3>1. on[d] # t
        BY <2>2 DEF OnOne
      <3> QED BY <2>2, <3>1 DEF Loaded
    <2> QED BY <2>1, <2>2
  <1>4. ASSUME NEW u \in TscTasks
        PROVE  Expects(u, tsc_pc'[u], notsc'[u], should_segv'[u])
    <2>1. CASE u = t
      <3>1. tsc_pc'[u] = p /\ notsc'[u] = n /\ should_segv'[u] = s
        BY <2>1
      <3> QED BY <2>1, <3>1, Zenon
    <2>2. CASE u # t
      <3>1. tsc_pc'[u] = tsc_pc[u] /\ notsc'[u] = notsc[u] /\ should_segv'[u] = should_segv[u]
        BY <2>2
      <3>2. Expects(u, tsc_pc[u], notsc[u], should_segv[u])
        BY Zenon
      <3> QED BY <3>1, <3>2, Zenon
    <2> QED BY <2>1, <2>2
  <1> QED
    BY <1>1, <1>2, <1>3, <1>4, Zenon DEF Expects

LEMMA TscNext_Inv ==
  ASSUME StoreForwarding = FALSE, TscInv, [TscNext]_tsc_vars
  PROVE  TscInv'
  <1>1. CASE UNCHANGED tsc_vars
    BY <1>1 DEF tsc_vars, TscInv, TscTypeOK, OnOne, Loaded, Expects
  <1>2. ASSUME NEW t \in TscTasks, NEW c \in Cpus, Runs(c, t) PROVE TscInv'
    <2> DEFINE n == notsc[t]  s == should_segv[t]
    <2>t. /\ n \in BOOLEAN /\ s \in BOOLEAN /\ tsd[c] \in BOOLEAN
          /\ tsc_pc \in [TscTasks -> TscPcs] /\ tsd \in [Cpus -> BOOLEAN]
          /\ notsc \in [TscTasks -> BOOLEAN] /\ should_segv \in [TscTasks -> BOOLEAN]
          /\ stored \in [TscTasks -> BOOLEAN]
      BY <1>2 DEF TscInv, TscTypeOK
    <2>on. on[c] = t
      BY <1>2 DEF Runs, RunsAt, PrctlFails, Prctl, SegvTask, RdtscTask, OnOffRdtsc,
                  OnOffDisable, OnOffSet, CbEnable, CbReset, CbRdtsc
    <2>l. tsd[c] = n
      BY <2>on DEF TscInv, Loaded
    <2>e. Expects(t, tsc_pc[t], n, s)
      BY Zenon DEF TscInv
    <2>k. /\ notsc = [notsc EXCEPT ![t] = n] /\ should_segv = [should_segv EXCEPT ![t] = s]
          /\ tsd = [tsd EXCEPT ![c] = n]
      BY <2>t, <2>l
    <2>x. t \in SegvTasks => t \notin RdtscTasks /\ t \notin OnOffTasks
      BY TscConstants
    <2>y. t \in RdtscTasks => t \notin OnOffTasks
      BY TscConstants
    <2> HIDE DEF n, s
    <2>1. ASSUME NEW p \in TscPcs, tsc_pc' = [tsc_pc EXCEPT ![t] = p], Expects(t, p, n, s),
                 UNCHANGED <<notsc, should_segv, stored, on, tsd, waits>>
          PROVE  TscInv'
      <3>1. TscStep(c, t, p, n, s)
        BY <2>1, <2>k, <2>t DEF TscStep
      <3> QED BY <2>1, <2>on, <2>t, <3>1, TscUpdate, Zenon
    <2>2. CASE PrctlFails(c, t)
      BY <2>2, <2>1 DEF PrctlFails, To, TscPcs, Expects
    <2>3. CASE Prctl(c, t)
      <3> DEFINE o == t \in SegvTasks
      <3>1. o \in BOOLEAN
        OBVIOUS
      <3>2. tsc_pc[t] = "prctl" /\ ~(t \in OnOffTasks)
        BY <2>3, <2>e, <2>x, <2>y DEF Prctl, RunsAt, Expects
      <3>3. Expects(t, "rdtsc", o, s)
        <4>1. CASE t \in SegvTasks
          BY <4>1, Zenon DEF Expects
        <4>2. CASE t \notin SegvTasks
          <5>1. t \in RdtscTasks /\ o = FALSE
            BY <4>2, <3>2, <2>e DEF Expects
          <5> QED BY <5>1, Zenon DEF Expects
        <4> QED BY <4>1, <4>2
      <3>4. /\ tsc_pc' = [tsc_pc EXCEPT ![t] = "rdtsc"] /\ notsc' = [notsc EXCEPT ![t] = o]
            /\ tsd' = [tsd EXCEPT ![c] = o] /\ UNCHANGED <<should_segv, stored, on, waits>>
        BY <2>3 DEF Prctl, SetTsc, To
      <3> HIDE DEF o
      <3>q. TscStep(c, t, "rdtsc", o, s) /\ "rdtsc" \in TscPcs
        BY <3>4, <2>k, <2>t DEF TscStep, TscPcs
      <3> QED BY <3>1, <3>3, <3>4, <3>q, <2>on, <2>t, TscUpdate, Zenon
    <2>4. CASE SegvTask(c, t)
      <3>1. n = TRUE /\ tsc_pc[t] = "rdtsc" /\ t \in SegvTasks
        BY <2>4, <2>e, <2>x DEF SegvTask, RunsAt, Expects
      <3> QED BY <2>4, <3>1, <2>1, <2>e, <2>l DEF SegvTask, To, TscPcs
    <2>5. CASE RdtscTask(c, t)
      <3>1. n = FALSE /\ tsc_pc[t] = "rdtsc" /\ t \in RdtscTasks
        BY <2>5, <2>e, <2>x, <2>y DEF RdtscTask, RunsAt, Expects
      <3> QED BY <2>5, <3>1, <2>1, <2>e, <2>l DEF RdtscTask, To, TscPcs
    <2>6. CASE OnOffRdtsc(c, t)
      <3>1. n = s /\ tsc_pc[t] = "rdtsc" /\ t \in OnOffTasks
        BY <2>6, <2>e, <2>x, <2>y DEF OnOffRdtsc, RunsAt, Expects
      <3>2. Loads(t) = {s}
        BY DEF Loads, s
      <3>3. CASE n = TRUE
        <4>1. tsc_pc' = [tsc_pc EXCEPT ![t] = "cb_enable"]
          BY <2>6, <3>1, <3>3, <2>l DEF OnOffRdtsc, To, s
        <4>2. Expects(t, "cb_enable", n, s)
          BY <3>1, <3>3 DEF Expects
        <4> QED BY <4>1, <4>2, <2>6, <2>1 DEF OnOffRdtsc, TscPcs
      <3>4. CASE n = FALSE
        <4>1. tsc_pc' = [tsc_pc EXCEPT ![t] = "off"]
          BY <2>6, <3>1, <3>2, <3>4, <2>l DEF OnOffRdtsc, To
        <4>2. Expects(t, "off", n, s)
          BY <3>1, <3>4 DEF Expects
        <4> QED BY <4>1, <4>2, <2>6, <2>1 DEF OnOffRdtsc, TscPcs
      <3> QED BY <3>3, <3>4, <2>t
    <2>7. CASE OnOffDisable(c, t)
      <3>1. Expects(t, "set", TRUE, s)
        BY <2>7, <2>e DEF OnOffDisable, RunsAt, Expects
      <3>2. /\ tsc_pc' = [tsc_pc EXCEPT ![t] = "set"] /\ notsc' = [notsc EXCEPT ![t] = TRUE]
            /\ tsd' = [tsd EXCEPT ![c] = TRUE] /\ UNCHANGED <<should_segv, stored, on, waits>>
        BY <2>7 DEF OnOffDisable, SetTsc, To
      <3>q. TscStep(c, t, "set", TRUE, s) /\ "set" \in TscPcs
        BY <3>2, <2>k, <2>t DEF TscStep, TscPcs
      <3> QED BY <3>1, <3>2, <3>q, <2>on, <2>t, TscUpdate, Zenon
    <2>8. CASE OnOffSet(c, t)
      <3>1. Expects(t, "rdtsc", n, TRUE)
        BY <2>8, <2>e DEF OnOffSet, RunsAt, Expects
      <3>2. /\ tsc_pc' = [tsc_pc EXCEPT ![t] = "rdtsc"]
            /\ should_segv' = [should_segv EXCEPT ![t] = TRUE]
            /\ stored' = [stored EXCEPT ![t] = TRUE] /\ UNCHANGED <<notsc, on, tsd, waits>>
        BY <2>8 DEF OnOffSet, To
      <3>q. TscStep(c, t, "rdtsc", n, TRUE) /\ "rdtsc" \in TscPcs
        BY <3>2, <2>k, <2>t DEF TscStep, TscPcs
      <3> QED BY <3>1, <3>2, <3>q, <2>on, <2>t, TscUpdate, Zenon
    <2>9. CASE CbEnable(c, t)
      <3>1. Expects(t, "cb_reset", FALSE, s)
        BY <2>9, <2>e DEF CbEnable, RunsAt, Expects
      <3>2. /\ tsc_pc' = [tsc_pc EXCEPT ![t] = "cb_reset"] /\ notsc' = [notsc EXCEPT ![t] = FALSE]
            /\ tsd' = [tsd EXCEPT ![c] = FALSE] /\ UNCHANGED <<should_segv, stored, on, waits>>
        BY <2>9 DEF CbEnable, SetTsc, To
      <3>q. TscStep(c, t, "cb_reset", FALSE, s) /\ "cb_reset" \in TscPcs
        BY <3>2, <2>k, <2>t DEF TscStep, TscPcs
      <3> QED BY <3>1, <3>2, <3>q, <2>on, <2>t, TscUpdate, Zenon
    <2>10. CASE CbReset(c, t)
      <3>1. Expects(t, "cb_rdtsc", n, FALSE)
        BY <2>10, <2>e DEF CbReset, RunsAt, Expects
      <3>2. /\ tsc_pc' = [tsc_pc EXCEPT ![t] = "cb_rdtsc"]
            /\ should_segv' = [should_segv EXCEPT ![t] = FALSE]
            /\ UNCHANGED <<notsc, stored, on, tsd, waits>>
        BY <2>10 DEF CbReset, To
      <3>q. TscStep(c, t, "cb_rdtsc", n, FALSE) /\ "cb_rdtsc" \in TscPcs
        BY <3>2, <2>k, <2>t DEF TscStep, TscPcs
      <3> QED BY <3>1, <3>2, <3>q, <2>on, <2>t, TscUpdate, Zenon
    <2>11. CASE CbRdtsc(c, t)
      <3>1. n = FALSE /\ s = FALSE /\ t \in OnOffTasks
        BY <2>11, <2>e DEF CbRdtsc, RunsAt, Expects
      <3>2. Expects(t, "rdtsc", n, s)
        BY <3>1 DEF Expects
      <3> QED BY <2>11, <3>1, <3>2, <2>1, <2>l DEF CbRdtsc, To, TscPcs
    <2> QED
      BY <1>2, <2>2, <2>3, <2>4, <2>5, <2>6, <2>7, <2>8, <2>9, <2>10, <2>11 DEF Runs
  <1>3. ASSUME NEW t \in TscTasks, NEW c \in Cpus, Switch(c, t) PROVE TscInv'
    <2>1. TscTypeOK'
      BY <1>3 DEF Switch, TscInv, TscTypeOK
    <2>2. OnOne' /\ Loaded'
      BY <1>3 DEF Switch, TscInv, TscTypeOK, OnOne, Loaded
    <2>3. \A u \in TscTasks : Expects(u, tsc_pc[u], notsc[u], should_segv[u])'
      BY <1>3, Zenon DEF Switch, TscInv, Expects
    <2> QED BY <2>1, <2>2, <2>3, Zenon DEF TscInv, Expects
  <1>4. ASSUME NEW t \in TscTasks, Alarm(t) PROVE TscInv'
    <2>1. TscTypeOK'
      BY <1>4 DEF Alarm, To, TscInv, TscTypeOK, TscPcs
    <2>2. OnOne' /\ Loaded'
      BY <1>4 DEF Alarm, TscInv, OnOne, Loaded
    <2>3. ASSUME NEW u \in TscTasks
          PROVE  Expects(u, tsc_pc'[u], notsc'[u], should_segv'[u])
      <3>1. notsc'[u] = notsc[u] /\ should_segv'[u] = should_segv[u]
        BY <1>4, Zenon DEF Alarm
      <3>2. tsc_pc'[u] = tsc_pc[u] \/ tsc_pc'[u] = "exit"
        BY <1>4 DEF Alarm, To, TscInv, TscTypeOK
      <3> QED BY <3>1, <3>2, Zenon DEF TscInv, Expects
    <2> QED BY <2>1, <2>2, <2>3, Zenon DEF TscInv, Expects
  <1>5. ASSUME NEW t \in TscTasks, wait(t) PROVE TscInv'
    <2>1. TscTypeOK' /\ OnOne' /\ Loaded'
      BY <1>5 DEF wait, TscInv, TscTypeOK, OnOne, Loaded
    <2>2. \A u \in TscTasks : Expects(u, tsc_pc'[u], notsc'[u], should_segv'[u])
      BY <1>5, ZenonT(30) DEF wait, TscInv, Expects
    <2> QED BY <2>1, <2>2, Zenon DEF TscInv, Expects
  <1> QED
    BY <1>1, <1>2, <1>3, <1>4, <1>5 DEF TscNext

(* No stress test reports a fatal error when should_segv is read from      *)
(* memory, for any number of children and processors and every preemption. *)
THEOREM NoFalseAlarmAlways ==
  ASSUME StoreForwarding = FALSE
  PROVE  TscSpec => []NoFalseAlarm
  <1>1. TscInv => NoFalseAlarm
    BY DEF TscInv, NoFalseAlarm, Expects
  <1>2. TscInv /\ [TscNext]_tsc_vars => TscInv'
    BY TscNext_Inv
  <1> QED
    BY <1>1, <1>2, TscInit_Inv, PTL DEF TscSpec
=============================================================================
