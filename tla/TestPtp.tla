------------------------------- MODULE TestPtp -------------------------------
(***************************************************************************)
(* testptp.c: carries out the operations of its command line on a PTP      *)
(* hardware clock, in the fixed order of main.  The hardware clock, the    *)
(* system clock and the timers are external; both clocks advance at the    *)
(* same rate, between any two steps of the program.                        *)
(***************************************************************************)
EXTENDS Integers, Sequences

CONSTANTS
  Requests,      \* sets of operations given on the command line
  SysTimes, PhcTimes,                    \* values of the clocks at the start
  AdjTime, Seconds, NEvents, NSamples,   \* values of -t, -T, -e and -k
  MaxTicks       \* bound on the time

PtpOps == <<"caps", "adjfreq", "adjtime", "gettime", "settime1", "settime2",
            "settime3", "extts", "list_pins", "oneshot", "periodic", "perout",
            "pin", "pps", "pct_offset">>

ASSUME PtpConstants ==
  /\ \A r \in Requests : r \subseteq {PtpOps[i] : i \in 1 .. Len(PtpOps)}
  /\ SysTimes \subseteq Int /\ PhcTimes \subseteq Int
  /\ AdjTime \in Int /\ Seconds \in Int /\ NEvents \in Nat \ {0}
  /\ NSamples \in 1 .. 25 /\ MaxTicks \in Nat

VARIABLES
  asked, ops, step,    \* operations asked for, still to do; step of the first
  ticks, sys, phc,     \* time; the two clocks
  ts,                  \* struct timespec
  extts_on, events,    \* the feature is enabled; events still to be read
  timer, caught,       \* "none", "armed", "expired"; the handler has run
  output,              \* perout, pin and pps settings made
  t1, tp, t2,          \* one sample of PTP_SYS_OFFSET
  samples, ptp_failed

ptp_vars == <<asked, ops, step, ticks, sys, phc, ts, extts_on, events, timer, caught,
              output, t1, tp, t2, samples, ptp_failed>>
clocks == <<ticks, sys, phc>>
sample == <<t1, tp, t2>>

PtpInit ==
  /\ asked \in Requests
  /\ ops = <<"open">> \o SelectSeq(PtpOps, LAMBDA o : o \in asked) \o <<"close">>
  /\ step = 1
  /\ ticks = 0 /\ sys \in SysTimes /\ phc \in PhcTimes
  /\ ts = 0 /\ extts_on = FALSE /\ events = 0 /\ timer = "none" /\ caught = FALSE
  /\ output = {} /\ t1 = 0 /\ tp = 0 /\ t2 = 0 /\ samples = 0 /\ ptp_failed = {}

AtOp(op, n) == ops # <<>> /\ Head(ops) = op /\ step = n
NextOp == ops' = Tail(ops) /\ step' = 1
NextStep == step' = step + 1 /\ UNCHANGED ops
Return == ops' = <<>> /\ step' = 1
Fails(op) == ptp_failed' = ptp_failed \cup {op}

Open ==
  /\ AtOp("open", 1)
  /\ NextOp \/ Return
  /\ UNCHANGED <<asked, clocks, ts, extts_on, events, timer, caught, output, sample,
                 samples, ptp_failed>>

(* Operations that only read the clock or its description, and -f, whose   *)
(* effect on the rate of the clock is left out.                            *)
Query ==
  /\ \/ \E op \in {"caps", "list_pins", "adjfreq", "close"} : AtOp(op, 1) /\ UNCHANGED ts
     \/ AtOp("gettime", 1) /\ ts' \in {ts, phc}
  /\ NextOp
  /\ UNCHANGED <<asked, clocks, extts_on, events, timer, caught, output, sample,
                 samples, ptp_failed>>

adjtime ==
  /\ AtOp("adjtime", 1)
  /\ phc' \in {phc, phc + AdjTime} /\ NextOp
  /\ UNCHANGED <<asked, ticks, sys, ts, extts_on, events, timer, caught, output, sample,
                 samples, ptp_failed>>

(* -s, -S and -T: one clock is read, later the other is set.  The result   *)
(* of reading is not looked at: ts keeps its value when it fails.          *)
settime_get ==
  /\ \/ AtOp("settime1", 1) /\ ts' = sys
     \/ AtOp("settime2", 1) /\ ts' \in {ts, phc}
     \/ AtOp("settime3", 1) /\ ts' = Seconds
  /\ NextStep
  /\ UNCHANGED <<asked, clocks, extts_on, events, timer, caught, output, sample,
                 samples, ptp_failed>>

settime_set ==
  /\ \/ AtOp("settime1", 2) /\ phc' \in {phc, ts} /\ UNCHANGED sys
     \/ AtOp("settime2", 2) /\ sys' \in {sys, ts} /\ UNCHANGED phc
     \/ AtOp("settime3", 2) /\ phc' \in {phc, ts} /\ UNCHANGED sys
  /\ NextOp
  /\ UNCHANGED <<asked, ticks, ts, extts_on, events, timer, caught, output, sample,
                 samples, ptp_failed>>

extts_enable ==
  /\ AtOp("extts", 1)
  /\ \/ extts_on' = TRUE /\ events' = NEvents
     \/ events' = 0 /\ UNCHANGED extts_on
  /\ NextStep
  /\ UNCHANGED <<asked, clocks, ts, timer, caught, output, sample, samples, ptp_failed>>

(* read blocks for an event; an error ends the loop.                       *)
extts_read ==
  /\ AtOp("extts", 2)
  /\ IF events > 0
     THEN (events' = events - 1 /\ UNCHANGED <<ops, step>>) \/ (NextStep /\ UNCHANGED events)
     ELSE NextStep /\ UNCHANGED events
  /\ UNCHANGED <<asked, clocks, ts, extts_on, timer, caught, output, sample, samples,
                 ptp_failed>>

extts_disable ==
  /\ AtOp("extts", 3)
  /\ \/ extts_on' = FALSE /\ UNCHANGED ptp_failed
     \/ Fails("extts") /\ UNCHANGED extts_on
  /\ NextOp
  /\ UNCHANGED <<asked, clocks, ts, events, timer, caught, output, sample, samples>>

(* -a and -A: create and start a timer; pause returns after a signal that  *)
(* arrives while it waits, and -A pauses for ever.                         *)
alarm_start ==
  /\ AtOp("oneshot", 1) \/ AtOp("periodic", 1)
  /\ \/ timer' = "armed" /\ NextStep
     \/ timer' = timer /\ Return
  /\ caught' = FALSE
  /\ UNCHANGED <<asked, clocks, ts, extts_on, events, output, sample, samples, ptp_failed>>

pause_enter ==
  /\ AtOp("oneshot", 2) \/ AtOp("periodic", 2)
  /\ NextStep /\ caught' = FALSE
  /\ UNCHANGED <<asked, clocks, ts, extts_on, events, timer, output, sample, samples,
                 ptp_failed>>

pause_return ==
  /\ caught
  /\ \/ AtOp("oneshot", 3) /\ timer' = "none" /\ NextOp
     \/ AtOp("periodic", 3) /\ step' = 2 /\ UNCHANGED <<ops, timer>>
  /\ UNCHANGED <<asked, clocks, ts, extts_on, events, caught, output, sample, samples,
                 ptp_failed>>

(* perout reads the clock first, and returns when it cannot.               *)
Outputs ==
  \E op \in {"perout", "pin", "pps"} :
    /\ AtOp(op, 1)
    /\ \/ /\ output' \in {output, output \cup {op}} /\ NextOp
          /\ ts' = IF op = "perout" THEN phc ELSE ts
       \/ op = "perout" /\ Return /\ UNCHANGED <<output, ts>>
    /\ UNCHANGED <<asked, clocks, extts_on, events, timer, caught, sample, samples,
                   ptp_failed>>

(* PTP_SYS_OFFSET: the kernel reads the system clock, the hardware clock   *)
(* and the system clock for each sample; t2 is the next sample's t1.       *)
SysOffset ==
  /\ ops # <<>> /\ Head(ops) = "pct_offset"
  /\ \/ step = 1 /\ t1' = sys /\ UNCHANGED <<tp, t2>>
     \/ step = 2 /\ tp' = phc /\ UNCHANGED <<t1, t2>>
     \/ step = 3 /\ t2' = sys /\ UNCHANGED <<t1, tp>>
  /\ NextStep
  /\ UNCHANGED <<asked, clocks, ts, extts_on, events, timer, caught, output, samples,
                 ptp_failed>>

(* A sample count out of range or no memory ends the program; after a      *)
(* failing request the cleared samples are printed.                        *)
SysOffsetFails ==
  /\ AtOp("pct_offset", 1)
  /\ \/ Return /\ UNCHANGED <<sample, ptp_failed>>
     \/ /\ step' = 4 /\ t1' = 0 /\ tp' = 0 /\ t2' = 0
        /\ Fails("pct_offset") /\ UNCHANGED ops
  /\ UNCHANGED <<asked, clocks, ts, extts_on, events, timer, caught, output, samples>>

interval == t2 - t1

(* Mutant: the hardware clock is compared with the first reading.          *)
offset_first == t1 - tp

offset == (t2 + t1) \div 2 - tp

SampleDone ==
  /\ AtOp("pct_offset", 4)
  /\ samples' = samples + 1 /\ t1' = t2 /\ UNCHANGED <<tp, t2>>
  /\ IF samples + 1 < NSamples
     THEN step' = (IF "pct_offset" \in ptp_failed THEN 4 ELSE 2) /\ UNCHANGED ops
     ELSE NextOp
  /\ UNCHANGED <<asked, clocks, ts, extts_on, events, timer, caught, output, ptp_failed>>

Tick1 ==
  /\ ticks < MaxTicks
  /\ ticks' = ticks + 1 /\ sys' = sys + 1 /\ phc' = phc + 1
  /\ UNCHANGED <<asked, ops, step, ts, extts_on, events, timer, caught, output, sample,
                 samples, ptp_failed>>

(* SIGALRM; the handler runs at once.                                      *)
Expire ==
  /\ ops # <<>> /\ timer = "armed"
  /\ caught' = TRUE
  /\ timer' = IF Head(ops) = "periodic" THEN "armed" ELSE "expired"
  /\ UNCHANGED <<asked, ops, step, clocks, ts, extts_on, events, output, sample,
                 samples, ptp_failed>>

PtpNext ==
  \/ Open \/ Query \/ adjtime \/ settime_get \/ settime_set
  \/ extts_enable \/ extts_read \/ extts_disable
  \/ alarm_start \/ pause_enter \/ pause_return \/ Outputs
  \/ SysOffset \/ SysOffsetFails \/ SampleDone \/ Tick1 \/ Expire

PtpSpec == PtpInit /\ [][PtpNext]_ptp_vars
-----------------------------------------------------------------------------
(* The offset printed for a sample differs from the offset of the clocks   *)
(* by no more than half of the delay printed with it (and the rounding),   *)
(* however much time passes between the three readings.                    *)
OffsetWithinDelay ==
  AtOp("pct_offset", 4) /\ "pct_offset" \notin ptp_failed =>
    /\ 2 * (offset - (sys - phc)) <= interval
    /\ 2 * ((sys - phc) - offset) <= interval + 1

(* "Disable the feature again.": event timestamps are off when the         *)
(* operation is over, whatever failed before, unless the request that      *)
(* turns them off fails itself.                                            *)
ExttsOff ==
  extts_on /\ "extts" \notin ptp_failed => AtOp("extts", 2) \/ AtOp("extts", 3)
=============================================================================
