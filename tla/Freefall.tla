------------------------------- MODULE Freefall -------------------------------
(***************************************************************************)
(* freefall.c: parks the disk heads when the accelerometer reports a fall  *)
(* and unparks them from the SIGALRM handler, which may interrupt main     *)
(* between any two of its calls.  The disk unparks by itself when the time *)
(* written to unload_heads has passed.  One tick is a second.              *)
(***************************************************************************)
EXTENDS Naturals

CONSTANTS
  ParkSeconds, AlarmSeconds    \* the arguments of protect and alarm: 21, 2

ASSUME FreefallConstants ==
  ParkSeconds \in Nat /\ AlarmSeconds \in Nat \ {0} /\ AlarmSeconds < ParkSeconds

VARIABLES
  ff_pc,        \* call main makes next, "read" while it is blocked
  handler,      \* call the SIGALRM handler makes next, or "none"
  noled, led,   \* no LED; its brightness
  park_left,    \* seconds until the disk unparks by itself; 0: unparked
  alarm_left,   \* seconds until SIGALRM; 0: no alarm
  sigalrm       \* SIGALRM is pending

ff_vars == <<ff_pc, handler, noled, led, park_left, alarm_left, sigalrm>>

FfInit ==
  /\ ff_pc = "read" /\ handler = "none"
  /\ noled \in BOOLEAN /\ led = FALSE
  /\ park_left = 0 /\ alarm_left = 0 /\ sigalrm = FALSE

(* The handler runs to its end before main makes its next call, and a      *)
(* pending signal is delivered before it too.                              *)
MainRuns == handler = "none" /\ ~sigalrm /\ ff_pc # "exit"

protect(seconds) == park_left' = seconds
set_led(on) == led' = IF noled THEN led ELSE on

(* write_int cannot open or write the file: exit(1).                       *)
WriteFails(at) ==
  /\ at /\ ff_pc' = "exit" /\ handler' = "none"
  /\ UNCHANGED <<noled, led, park_left, alarm_left, sigalrm>>

(* read returns a count or an error.                                       *)
ReadReturns(next) ==
  /\ MainRuns /\ ff_pc = "read"
  /\ ff_pc' = next
  /\ UNCHANGED <<handler, noled, led, park_left, alarm_left, sigalrm>>

(* Mutant: the alarm of the previous fall is left running.                 *)
CancelAlarm_not(ret) ==
  /\ MainRuns /\ ff_pc = ret
  /\ ff_pc' = CASE ret = "fell" -> "protect" [] ret = "eintr" -> "read" [] OTHER -> "exit"
  /\ UNCHANGED <<handler, noled, led, park_left, alarm_left, sigalrm>>

CancelAlarm(ret) ==
  /\ MainRuns /\ ff_pc = ret
  /\ alarm_left' = 0
  /\ ff_pc' = CASE ret = "fell" -> "protect" [] ret = "eintr" -> "read" [] OTHER -> "exit"
  /\ UNCHANGED <<handler, noled, led, park_left, sigalrm>>

Park ==
  /\ MainRuns /\ ff_pc = "protect"
  /\ protect(ParkSeconds) /\ ff_pc' = "led"
  /\ UNCHANGED <<handler, noled, led, alarm_left, sigalrm>>

LedOn ==
  /\ MainRuns /\ ff_pc = "led"
  /\ set_led(TRUE) /\ ff_pc' = "alarm"
  /\ UNCHANGED <<handler, noled, park_left, alarm_left, sigalrm>>

(* Mutant: no alarm is set after the LED is lit.                           *)
SetAlarm_never ==
  /\ MainRuns /\ ff_pc = "alarm"
  /\ ff_pc' = "read"
  /\ UNCHANGED <<handler, noled, led, park_left, alarm_left, sigalrm>>

SetAlarm ==
  /\ MainRuns /\ ff_pc = "alarm"
  /\ alarm_left' = AlarmSeconds /\ ff_pc' = "read"
  /\ UNCHANGED <<handler, noled, led, park_left, sigalrm>>

Deliver ==
  /\ sigalrm /\ handler = "none" /\ ff_pc # "exit"
  /\ sigalrm' = FALSE /\ handler' = "unpark"
  /\ UNCHANGED <<ff_pc, noled, led, park_left, alarm_left>>

Unpark ==
  /\ handler = "unpark"
  /\ protect(0) /\ handler' = "ledoff"
  /\ UNCHANGED <<ff_pc, noled, led, alarm_left, sigalrm>>

(* After the handler an interrupted read is restarted or returns EINTR.    *)
LedOff ==
  /\ handler = "ledoff"
  /\ set_led(FALSE) /\ handler' = "none"
  /\ ff_pc' \in {ff_pc} \cup (IF ff_pc = "read" THEN {"eintr"} ELSE {})
  /\ UNCHANGED <<noled, park_left, alarm_left, sigalrm>>

(* A second passes, for the alarm and for the disk.                        *)
Tick ==
  /\ park_left > 0 \/ alarm_left > 0
  /\ park_left' = IF park_left > 0 THEN park_left - 1 ELSE 0
  /\ alarm_left' = IF alarm_left > 0 THEN alarm_left - 1 ELSE 0
  /\ sigalrm' = (sigalrm \/ (alarm_left = 1 /\ ff_pc # "exit"))
  /\ UNCHANGED <<ff_pc, handler, noled, led>>

Program ==
  \/ \E ret \in {"fell", "eintr", "failed"} : CancelAlarm(ret)
  \/ Park \/ LedOn \/ SetAlarm \/ Deliver \/ Unpark \/ LedOff

Environment ==
  \/ \E ret \in {"fell", "failed"} : ReadReturns(ret)
  \/ WriteFails(handler # "none" \/ (MainRuns /\ ff_pc \in {"protect", "led"}))

FfNext == Program \/ Environment \/ Tick

FfSpec == FfInit /\ [][FfNext]_ff_vars
-----------------------------------------------------------------------------
FfTypeOK ==
  /\ ff_pc \in {"read", "fell", "eintr", "failed", "protect", "led", "alarm", "exit"}
  /\ handler \in {"none", "unpark", "ledoff"}
  /\ noled \in BOOLEAN /\ led \in BOOLEAN /\ sigalrm \in BOOLEAN
  /\ park_left \in 0 .. ParkSeconds /\ alarm_left \in 0 .. AlarmSeconds

(* Between the park for a fall and the alarm that belongs to it, the       *)
(* handler of an earlier fall's alarm never runs, so that only the disk's  *)
(* own timeout can unpark the heads: alarm(0) comes before protect(21).    *)
NoStaleAlarm ==
  ff_pc \in {"protect", "led", "alarm"} =>
    handler = "none" /\ ~sigalrm /\ alarm_left = 0

(* A program that waits for the next fall with nothing left to expire      *)
(* leaves the heads unparked and the LED dark.  A park always has its      *)
(* alarm, and the handler undoes both halves of it.                        *)
QuietUnparked ==
  ff_pc = "read" /\ handler = "none" /\ ~sigalrm /\ alarm_left = 0 =>
    park_left = 0 /\ ~led

(* The heads stay parked for AlarmSeconds after the last fall: only the    *)
(* handler cuts the time of a park short, and however falls, the read it   *)
(* interrupts and its own two writes interleave, it never does so before   *)
(* its alarm is due.                                                       *)
StaysParked ==
  [][park_left > park_left' + 1 => ParkSeconds - park_left >= AlarmSeconds]_ff_vars
=============================================================================
