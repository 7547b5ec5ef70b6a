------------------------------- MODULE TscTests -------------------------------
(***************************************************************************)
(* The PR_SET_TSC tests: disable-tsc-ctxt-sw-stress-test.c runs tasks that *)
(* expect rdtsc to fault beside tasks that expect it to work, and          *)
(* disable-tsc-on-off-stress-test.c tasks that switch it off and on.  The  *)
(* kernel is external: it loads the flag of a task into the processor's    *)
(* TSD bit at a context switch and on prctl, and preempts anywhere.        *)
(***************************************************************************)
EXTENDS Integers

CONSTANTS
  SegvTasks, RdtscTasks, OnOffTasks,   \* children running each task function
  Cpus, Idle,
  StoreForwarding    \* the compiler keeps should_segv in a register across rdtsc

TscTasks == SegvTasks \cup RdtscTasks \cup OnOffTasks

ASSUME TscConstants ==
  /\ SegvTasks \cap RdtscTasks = {} /\ SegvTasks \cap OnOffTasks = {}
  /\ RdtscTasks \cap OnOffTasks = {} /\ Idle \notin TscTasks
  /\ StoreForwarding \in BOOLEAN

VARIABLES
  tsc_pc,        \* next step of each child
  notsc,         \* its flag: rdtsc faults
  should_segv,   \* its variable (on-off test)
  stored,        \* it has stored 1 into that variable
  on, tsd,       \* task on a processor; the processor's TSD bit
  waits          \* children main still waits for

tsc_vars == <<tsc_pc, notsc, should_segv, stored, on, tsd, waits>>

TscInit ==
  /\ tsc_pc = [t \in TscTasks |-> IF t \in OnOffTasks THEN "rdtsc" ELSE "prctl"]
  /\ notsc = [t \in TscTasks |-> FALSE]
  /\ should_segv = [t \in TscTasks |-> FALSE]
  /\ stored = [t \in TscTasks |-> FALSE]
  /\ on = [c \in Cpus |-> Idle]
  /\ tsd = [c \in Cpus |-> FALSE]
  /\ waits = TscTasks

RunsAt(c, t, label) == on[c] = t /\ tsc_pc[t] = label
To(t, label) == tsc_pc' = [tsc_pc EXCEPT ![t] = label]

(* prctl(PR_SET_TSC): the flag of the task and the bit of its processor.   *)
SetTsc(c, t, off) ==
  /\ notsc' = [notsc EXCEPT ![t] = off]
  /\ tsd' = [tsd EXCEPT ![c] = off]

PrctlFails(c, t) ==
  /\ \E label \in {"prctl", "off", "cb_enable"} : RunsAt(c, t, label)
  /\ To(t, "exit")
  /\ UNCHANGED <<notsc, should_segv, stored, on, tsd, waits>>

(* segvtask and rdtsctask: prctl, then the handler and the alarm.          *)
Prctl(c, t) ==
  /\ RunsAt(c, t, "prctl")
  /\ SetTsc(c, t, t \in SegvTasks) /\ To(t, "rdtsc")
  /\ UNCHANGED <<should_segv, stored, on, waits>>

(* rdtsc in segvtask: faults, and again after sigsegv_expect; success is   *)
(* fatal.  In rdtsctask a fault is fatal in sigsegv_fail.                  *)
SegvTask(c, t) ==
  /\ t \in SegvTasks /\ RunsAt(c, t, "rdtsc")
  /\ To(t, IF tsd[c] THEN "rdtsc" ELSE "fatal")
  /\ UNCHANGED <<notsc, should_segv, stored, on, tsd, waits>>

RdtscTask(c, t) ==
  /\ t \in RdtscTasks /\ RunsAt(c, t, "rdtsc")
  /\ To(t, IF tsd[c] THEN "fatal" ELSE "rdtsc")
  /\ UNCHANGED <<notsc, should_segv, stored, on, tsd, waits>>

(* task of the on-off test.  should_segv is not volatile and rdtsc's asm   *)
(* clobbers no memory, so the test after rdtsc may use the value that the  *)
(* loop stored last instead of the one the handler left.                   *)
Loads(t) == {should_segv[t]} \cup (IF StoreForwarding /\ stored[t] THEN {TRUE} ELSE {})

OnOffRdtsc(c, t) ==
  /\ t \in OnOffTasks /\ RunsAt(c, t, "rdtsc")
  /\ IF tsd[c] THEN To(t, IF should_segv[t] THEN "cb_enable" ELSE "fatal")
     ELSE \E v \in Loads(t) : To(t, IF v THEN "fatal" ELSE "off")
  /\ UNCHANGED <<notsc, should_segv, stored, on, tsd, waits>>

OnOffDisable(c, t) ==
  /\ RunsAt(c, t, "off")
  /\ SetTsc(c, t, TRUE) /\ To(t, "set")
  /\ UNCHANGED <<should_segv, stored, on, waits>>

OnOffSet(c, t) ==
  /\ RunsAt(c, t, "set")
  /\ should_segv' = [should_segv EXCEPT ![t] = TRUE] /\ To(t, "rdtsc")
  /\ stored' = [stored EXCEPT ![t] = TRUE]
  /\ UNCHANGED <<notsc, on, tsd, waits>>

(* sigsegv_cb: enables, resets the variable, reads in the handler, and     *)
(* returns to the rdtsc that faulted.                                      *)
CbEnable(c, t) ==
  /\ RunsAt(c, t, "cb_enable")
  /\ SetTsc(c, t, FALSE) /\ To(t, "cb_reset")
  /\ UNCHANGED <<should_segv, stored, on, waits>>

(* Mutant: the handler leaves should_segv set.                             *)
CbReset_kept(c, t) ==
  /\ RunsAt(c, t, "cb_reset")
  /\ To(t, "cb_rdtsc")
  /\ UNCHANGED <<notsc, should_segv, stored, on, tsd, waits>>

CbReset(c, t) ==
  /\ RunsAt(c, t, "cb_reset")
  /\ should_segv' = [should_segv EXCEPT ![t] = FALSE] /\ To(t, "cb_rdtsc")
  /\ UNCHANGED <<notsc, stored, on, tsd, waits>>

CbRdtsc(c, t) ==
  /\ RunsAt(c, t, "cb_rdtsc")
  /\ To(t, IF tsd[c] THEN "fatal" ELSE "rdtsc")
  /\ UNCHANGED <<notsc, should_segv, stored, on, tsd, waits>>

(* alarm(10) ends a child at any point after it is set; the processor it   *)
(* ran on keeps its TSD bit.                                               *)
Alarm(t) ==
  /\ tsc_pc[t] \notin {"prctl", "exit", "fatal"}
  /\ To(t, "exit")
  /\ UNCHANGED <<notsc, should_segv, stored, on, tsd, waits>>

wait(t) ==
  /\ tsc_pc[t] \in {"exit", "fatal"} /\ t \in waits
  /\ waits' = waits \ {t}
  /\ UNCHANGED <<tsc_pc, notsc, should_segv, stored, on, tsd>>

Switch(c, t) ==
  /\ tsc_pc[t] \notin {"exit", "fatal"} /\ \A d \in Cpus : on[d] # t
  /\ on' = [on EXCEPT ![c] = t]
  /\ tsd' = [tsd EXCEPT ![c] = notsc[t]]
  /\ UNCHANGED <<tsc_pc, notsc, should_segv, stored, waits>>

Runs(c, t) ==
  \/ PrctlFails(c, t) \/ Prctl(c, t) \/ SegvTask(c, t) \/ RdtscTask(c, t)
  \/ OnOffRdtsc(c, t) \/ OnOffDisable(c, t) \/ OnOffSet(c, t)
  \/ CbEnable(c, t) \/ CbReset(c, t) \/ CbRdtsc(c, t)

TscNext ==
  \E t \in TscTasks :
    \/ Alarm(t) \/ wait(t)
    \/ \E c \in Cpus : Runs(c, t) \/ Switch(c, t)

TscSpec == TscInit /\ [][TscNext]_tsc_vars
-----------------------------------------------------------------------------
TscPcs == {"prctl", "rdtsc", "off", "set", "cb_enable", "cb_reset", "cb_rdtsc",
           "exit", "fatal"}

TscTypeOK ==
  /\ tsc_pc \in [TscTasks -> TscPcs]
  /\ notsc \in [TscTasks -> BOOLEAN]
  /\ should_segv \in [TscTasks -> BOOLEAN] /\ stored \in [TscTasks -> BOOLEAN]
  /\ on \in [Cpus -> TscTasks \cup {Idle}]
  /\ tsd \in [Cpus -> BOOLEAN]
  /\ waits \subseteq TscTasks

(* "[No further output means we're allright]": on a kernel that keeps the  *)
(* bit with the task no child reports a fatal error, wherever the tasks    *)
(* are preempted and migrated: what a task expects of rdtsc agrees with    *)
(* the mode it last asked for, also in the handler and while the two are   *)
(* changed one after the other.                                            *)
NoFalseAlarm == \A t \in TscTasks : tsc_pc[t] # "fatal"
=============================================================================
