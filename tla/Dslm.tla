--------------------------------- MODULE Dslm ---------------------------------
(***************************************************************************)
(* dslm.c, the disk sleep monitor: polls the power mode of a disk and adds *)
(* up the time spent in each mode until SIGINT.  The handler only sets     *)
(* endit and may run between any two statements of measure.  The clock and *)
(* the disk are external.                                                  *)
(***************************************************************************)
EXTENDS Integers

CONSTANTS
  MaxTime      \* bound on the clock

ASSUME DslmConstants == MaxTime \in Nat

VARIABLES
  ds_pc,                  \* statement measure is at
  now, disk,              \* time(0); outcome of the two power mode commands
  endit,
  start_time, last_time, curr_time, last_state, curr_state,
  spent,                  \* active_time, sleep_time, unknown_time by state
  changes,                \* state changes counted
  poll, seen, tested      \* history: the last mode read, how often it was
                          \* another than before, when it was last tested

ds_history == <<poll, seen, tested>>
ds_vars == <<ds_pc, now, disk, endit, start_time, last_time, curr_time,
             last_state, curr_state, spent, changes, ds_history>>

(* The drive command answers with a sector count of 255 or another, fails  *)
(* with EIO and cleared registers, or fails otherwise.                     *)
Replies == {"255", "other", "eio", "error"}
check_powermode(args) == CASE args = "255" -> 1 [] args \in {"other", "eio"} -> 0 [] OTHER -> -1

DsInit ==
  /\ ds_pc = "first" /\ now = 1 /\ disk \in Replies /\ endit = FALSE
  /\ start_time = 0 /\ last_time = 0 /\ curr_time = 0
  /\ last_state = -1 /\ curr_state = -1
  /\ spent = [s \in {-1, 0, 1} |-> 0] /\ changes = 0
  /\ poll = -1 /\ seen = 0 /\ tested = 0

First ==
  /\ ds_pc = "first"
  /\ last_state' = check_powermode(disk)
  /\ start_time' = now /\ last_time' = now /\ ds_pc' = "while"
  /\ poll' = check_powermode(disk) /\ tested' = now
  /\ UNCHANGED <<now, disk, endit, curr_time, curr_state, spent, changes, seen>>

While ==
  /\ ds_pc = "while"
  /\ ds_pc' = IF endit THEN "report" ELSE "sleep"
  /\ UNCHANGED <<now, disk, endit, start_time, last_time, curr_time, last_state,
                 curr_state, spent, changes, ds_history>>

(* sleep(1) ends after a second or at the signal; the mode is then read.   *)
Sleep ==
  /\ ds_pc = "sleep"
  /\ now' = now + 1 \/ (endit /\ now' = now)
  /\ now' <= MaxTime
  /\ curr_state' = check_powermode(disk) /\ ds_pc' = "if"
  /\ poll' = curr_state' /\ seen' = IF poll' # poll THEN seen + 1 ELSE seen
  /\ UNCHANGED <<disk, endit, start_time, last_time, curr_time, last_state,
                 spent, changes, tested>>

(* Mutant: the mode is not remembered.                                     *)
Account_again ==
  /\ ds_pc = "if"
  /\ ds_pc' = "while" /\ tested' = now
  /\ IF curr_state # last_state \/ endit
     THEN /\ changes' = changes + 1 /\ curr_time' = now
          /\ spent' = [spent EXCEPT ![last_state] = @ + now - last_time]
          /\ last_time' = now
     ELSE UNCHANGED <<changes, curr_time, spent, last_time>>
  /\ UNCHANGED <<now, disk, endit, start_time, last_state, curr_state, poll, seen>>

Account ==
  /\ ds_pc = "if"
  /\ ds_pc' = "while" /\ tested' = now
  /\ IF curr_state # last_state \/ endit
     THEN /\ changes' = changes + 1 /\ curr_time' = now
          /\ spent' = [spent EXCEPT ![last_state] = @ + now - last_time]
          /\ last_state' = curr_state /\ last_time' = now
     ELSE UNCHANGED <<changes, curr_time, spent, last_state, last_time>>
  /\ UNCHANGED <<now, disk, endit, start_time, curr_state, poll, seen>>

Report ==
  /\ ds_pc = "report"
  /\ changes' = changes - 1 /\ ds_pc' = "end"
  /\ UNCHANGED <<now, disk, endit, start_time, last_time, curr_time, last_state,
                 curr_state, spent, ds_history>>

ender ==
  /\ ~endit /\ ds_pc # "end" /\ endit' = TRUE
  /\ UNCHANGED <<ds_pc, now, disk, start_time, last_time, curr_time, last_state,
                 curr_state, spent, changes, ds_history>>

(* The disk changes its mode; time passes between the statements.          *)
DiskChanges ==
  /\ ds_pc # "end" /\ disk' \in Replies \ {disk}
  /\ UNCHANGED <<ds_pc, now, endit, start_time, last_time, curr_time, last_state,
                 curr_state, spent, changes, ds_history>>

Clock ==
  /\ ds_pc # "end" /\ now < MaxTime /\ now' = now + 1
  /\ UNCHANGED <<ds_pc, disk, endit, start_time, last_time, curr_time, last_state,
                 curr_state, spent, changes, ds_history>>

DsNext == Clock \/ First \/ While \/ Sleep \/ Account \/ Report \/ ender \/ DiskChanges

DsSpec == DsInit /\ [][DsNext]_ds_vars
-----------------------------------------------------------------------------
DsTypeOK ==
  /\ ds_pc \in {"first", "while", "sleep", "if", "report", "end"}
  /\ now \in Nat /\ disk \in Replies /\ endit \in BOOLEAN
  /\ start_time \in Nat /\ last_time \in Nat /\ curr_time \in Nat
  /\ last_state \in {-1, 0, 1} /\ curr_state \in {-1, 0, 1}
  /\ spent \in [{-1, 0, 1} -> Int] /\ changes \in Int
  /\ poll \in {-1, 0, 1} /\ seen \in Nat /\ tested \in Nat

Total == spent[-1] + spent[0] + spent[1]

(* Wherever SIGINT falls in the loop, the report misses at most one of the *)
(* mode changes that were read: the last pass counts one more, and         *)
(* "Compensate for SIGINT" takes one away (dslm.c:107) even if there was   *)
(* no such pass.  If none is missed, the times of the three modes add up   *)
(* to the total that is printed, from the start to the last reading.       *)
ReportClosed ==
  ds_pc = "end" =>
    /\ changes \in {seen - 1, seen}
    /\ changes = seen => /\ Total = curr_time - start_time
                         /\ curr_time = tested
=============================================================================
