------------------------------ MODULE MicDaemon ------------------------------
(***************************************************************************)
(* The life cycle part of mpssd, the host daemon of Intel MIC cards        *)
(* (Documentation/mic/mpssd/mpssd.c): for every card a configuration       *)
(* thread (mic_config) watches the sysfs attribute "state", and a forked   *)
(* child process runs the three virtio backends.  When the card goes down  *)
(* the thread kills the child, resets the card and starts over with a new  *)
(* child (init_mic).                                                       *)
(*                                                                         *)
(* The host driver, the card and OSPM are outside the repository.  They    *)
(* are modelled from ABI/testing/sysfs-class-mic.txt and from what the     *)
(* daemon expects of them: an attribute write is one step, every change of *)
(* "state" notifies a poll on the attribute, a reset ends in "offline"     *)
(* unless the card is "suspended".                                         *)
(***************************************************************************)
EXTENDS Integers, FiniteSets

CONSTANTS
  Cards,            \* the cards found by init_mic_list
  Pids,             \* process identifiers, reused by the kernel once reaped
  NoPid,            \* value of mic->pid before the first fork
  NoCard,           \* owner of a free process identifier
  SHUTDOWN_TIMEOUT, \* polls of shutdown_status before the card is reset
  RESET_TIMEOUT,    \* polls of state after a reset
  FaultSets,        \* the sets of failures considered, see FaultKinds
  OpSets,           \* the sets of operations of users: micctrl -b, -S, -r
  MaxSuspend        \* bound: OSPM suspends of one card

(* "fork"/"thread": fork or pthread_create fails; "io": open, lseek, read  *)
(* or poll on the state attribute fails; "sysfs": readsysfs returns NULL;  *)
(* "reset": the device fails to reset; "slow": a reset outlasts            *)
(* RESET_TIMEOUT; "abort": the child dies of an assert.                    *)
FaultKinds == {"fork", "thread", "io", "sysfs", "reset", "slow", "abort"}

ASSUME ConstantsAssumption ==
  /\ NoPid \notin Pids
  /\ NoCard \notin Cards
  /\ SHUTDOWN_TIMEOUT \in Nat
  /\ RESET_TIMEOUT \in Nat
  /\ MaxSuspend \in Nat
  /\ FaultSets \subseteq SUBSET FaultKinds
  /\ OpSets \subseteq SUBSET {"boot", "shutdown", "reset"}

VARIABLES
  \* what may happen in this behaviour, chosen at its start
  faults, ops,
  \* the host driver and the card
  state,            \* sysfs "state"
  shutdown_status,  \* sysfs "shutdown_status"
  notify,           \* a poll on "state" would return
  up,               \* the card OS runs
  resetting,        \* a device reset is under way
  suspends,         \* OSPM suspends so far
  \* the daemon, one thread of control per card
  pc, timer, pid, restart, boot_on_resume,
  \* the children
  proc, owner, stale

driver == <<state, shutdown_status, notify, up, resetting, suspends>>
daemon == <<pc, timer, pid, restart, boot_on_resume>>
procs == <<proc, owner, stale>>
system == <<driver, daemon, procs>>
vars == <<system, faults, ops>>

MicStates == {"offline", "online", "shutting_down", "reset_failed",
              "suspending", "suspended"}
DownStatus == {"crashed", "halted", "poweroff", "restart"}
MicStatus == DownStatus \cup {"nop"}

PCs == {"off", "init", "parent", "open", "read", "state", "suspend", "boot",
        "poll", "status", "kill", "wait", "reset", "resetwait", "dead"}

DriverTypeOK ==
  /\ state \in [Cards -> MicStates]
  /\ shutdown_status \in [Cards -> MicStatus]
  /\ notify \in [Cards -> BOOLEAN]
  /\ up \in [Cards -> BOOLEAN]
  /\ resetting \in [Cards -> BOOLEAN]
  /\ suspends \in [Cards -> 0..MaxSuspend]

DaemonTypeOK ==
  /\ pc \in [Cards -> PCs]
  /\ timer \in [Cards -> Nat]
  /\ pid \in [Cards -> Pids \cup {NoPid}]
  /\ restart \in [Cards -> BOOLEAN]
  /\ boot_on_resume \in [Cards -> BOOLEAN]

ProcTypeOK ==
  /\ proc \in [Pids -> {"free", "run", "term", "zombie"}]
  /\ owner \in [Pids -> Cards \cup {NoCard}]
  /\ stale \in SUBSET Pids

(* The types of the attributes of the driver, of the daemon's variables    *)
(* and of the process table; in particular no countdown passes zero.       *)
TypeOK ==
  /\ DriverTypeOK /\ DaemonTypeOK /\ ProcTypeOK
  /\ faults \in FaultSets /\ ops \in OpSets

(* Children of a card that still run, and those not yet waited for.        *)
Live(m) == {p \in Pids : owner[p] = m /\ proc[p] \in {"run", "term"}}
Unreaped(m) == {p \in Pids : owner[p] = m /\ proc[p] # "free"}

Init ==
  /\ faults \in FaultSets /\ ops \in OpSets
  /\ state = [m \in Cards |-> "offline"]
  /\ shutdown_status = [m \in Cards |-> "nop"]
  /\ notify = [m \in Cards |-> FALSE]
  /\ up = [m \in Cards |-> FALSE]
  /\ resetting = [m \in Cards |-> FALSE]
  /\ suspends = [m \in Cards |-> 0]
  /\ pc = [m \in Cards |-> "off"]
  /\ timer = [m \in Cards |-> 0]
  /\ pid = [m \in Cards |-> NoPid]
  /\ restart = [m \in Cards |-> FALSE]
  /\ boot_on_resume = [m \in Cards |-> FALSE]
  /\ proc = [p \in Pids |-> "free"]
  /\ owner = [p \in Pids |-> NoCard]
  /\ stale = {}
-----------------------------------------------------------------------------
(* The host driver, the card and OSPM.                                     *)

SetState(m, s) ==
  /\ state' = [state EXCEPT ![m] = s]
  /\ notify' = [notify EXCEPT ![m] = TRUE]

(* The session of the card OS ends: the rings its backend set up are gone. *)
EndSession(m) == stale' = IF state[m] = "online" THEN stale \cup Live(m)
                                                 ELSE stale

WriteBoot(m) ==
  IF state[m] = "offline" /\ ~resetting[m]
  THEN /\ SetState(m, "online")
       /\ up' = [up EXCEPT ![m] = TRUE]
       /\ UNCHANGED <<shutdown_status, resetting, suspends, stale>>
  ELSE UNCHANGED <<driver, stale>>

WriteShutdown(m) ==
  IF state[m] = "online"
  THEN /\ SetState(m, "shutting_down")
       /\ EndSession(m)
       /\ UNCHANGED <<shutdown_status, up, resetting, suspends>>
  ELSE UNCHANGED <<driver, stale>>

WriteSuspend(m) ==
  IF state[m] = "suspending"
  THEN /\ SetState(m, "suspended")
       /\ UNCHANGED <<shutdown_status, up, resetting, suspends, stale>>
  ELSE UNCHANGED <<driver, stale>>

WriteReset(m) ==
  IF state[m] # "offline"
  THEN /\ resetting' = [resetting EXCEPT ![m] = TRUE]
       /\ UNCHANGED <<state, shutdown_status, notify, up, suspends, stale>>
  ELSE UNCHANGED <<driver, stale>>

(* The reset of the device completes, or fails.                            *)
ResetDone(m) ==
  /\ resetting[m]
  /\ resetting' = [resetting EXCEPT ![m] = FALSE]
  /\ up' = [up EXCEPT ![m] = FALSE]
  /\ shutdown_status' = [shutdown_status EXCEPT ![m] = "nop"]
  /\ IF state[m] = "suspended"
     THEN UNCHANGED <<state, notify, stale>>
     ELSE /\ \/ SetState(m, "offline")
             \/ "reset" \in faults /\ SetState(m, "reset_failed")
          /\ EndSession(m)
  /\ UNCHANGED <<suspends, daemon, proc, owner>>

(* The card OS goes down by itself or because it was asked to.             *)
CardDown(m, s) ==
  /\ up[m]
  /\ up' = [up EXCEPT ![m] = FALSE]
  /\ shutdown_status' = [shutdown_status EXCEPT ![m] = s]
  /\ IF state[m] = "online"
     THEN SetState(m, "shutting_down") /\ EndSession(m)
     ELSE UNCHANGED <<state, notify, stale>>
  /\ UNCHANGED <<resetting, suspends, daemon, proc, owner>>

(* OSPM prepares a suspend: a running card waits for the daemon's          *)
(* "suspend", a card that is down is only barred from booting.             *)
Suspend(m) ==
  /\ suspends[m] < MaxSuspend
  /\ suspends' = [suspends EXCEPT ![m] = @ + 1]
  /\ \/ state[m] = "online" /\ SetState(m, "suspending")
     \/ state[m] = "offline" /\ ~resetting[m] /\ SetState(m, "suspended")
  /\ EndSession(m)
  /\ UNCHANGED <<shutdown_status, up, resetting, daemon, proc, owner>>

(* The system comes back from a suspend, for which the card was down.      *)
Resume(m) ==
  /\ state[m] = "suspended" /\ ~up[m] /\ ~resetting[m]
  /\ SetState(m, "offline")
  /\ UNCHANGED <<shutdown_status, up, resetting, suspends, daemon, procs>>

(* micctrl -b, micctrl -S and micctrl -r.                                  *)
User(m) ==
  /\ \/ "boot" \in ops /\ WriteBoot(m)
     \/ "shutdown" \in ops /\ WriteShutdown(m)
     \/ "reset" \in ops /\ WriteReset(m)
  /\ UNCHANGED <<daemon, proc, owner>>
-----------------------------------------------------------------------------
(* init_mic: executed by the main thread for a card whose configuration    *)
(* thread does not exist yet, later by the thread that is about to end.    *)

goto(m, l) == pc' = [pc EXCEPT ![m] = l]

fork(m) ==
  /\ pc[m] \in {"off", "init"}
  /\ \E p \in Pids :
       /\ proc[p] = "free"
       /\ proc' = [proc EXCEPT ![p] = "run"]
       /\ owner' = [owner EXCEPT ![p] = m]
       /\ stale' = stale \ {p}
       /\ pid' = [pid EXCEPT ![m] = p]
  /\ goto(m, "parent")
  /\ UNCHANGED <<driver, timer, restart, boot_on_resume>>

(* Mutant: the break after the failed fork is missing.                     *)
fork_failed_no_break(m) ==
  /\ pc[m] \in {"off", "init"}
  /\ "fork" \in faults \/ \A p \in Pids : proc[p] # "free"
  /\ pid' = [pid EXCEPT ![m] = NoPid]
  /\ goto(m, "parent")
  /\ UNCHANGED <<driver, timer, restart, boot_on_resume, procs>>

fork_failed(m) ==
  /\ pc[m] \in {"off", "init"}
  /\ "fork" \in faults \/ \A p \in Pids : proc[p] # "free"
  /\ pid' = [pid EXCEPT ![m] = NoPid]
  /\ goto(m, "dead")
  /\ UNCHANGED <<driver, timer, restart, boot_on_resume, procs>>

(* The parent's branch: boot a card that asked for a restart, and start    *)
(* the configuration thread; nobody looks at pthread_create's result.      *)
init_mic_parent(m) ==
  /\ pc[m] = "parent"
  /\ IF restart[m] THEN WriteBoot(m) ELSE UNCHANGED <<driver, stale>>
  /\ restart' = [restart EXCEPT ![m] = FALSE]
  /\ \/ goto(m, "open")
     \/ "thread" \in faults /\ goto(m, "dead")
  /\ UNCHANGED <<timer, pid, boot_on_resume, proc, owner>>
-----------------------------------------------------------------------------
(* mic_config: the configuration thread.                                   *)

open_state(m) ==
  /\ pc[m] = "open"
  /\ \/ goto(m, "read")
     \/ "io" \in faults /\ goto(m, "init")
  /\ UNCHANGED <<driver, timer, pid, restart, boot_on_resume, procs>>

(* lseek and read on the polled descriptor: this arms the next poll.       *)
read_state(m) ==
  /\ pc[m] = "read"
  /\ \/ notify' = [notify EXCEPT ![m] = FALSE] /\ goto(m, "state")
     \/ "io" \in faults /\ goto(m, "init") /\ UNCHANGED notify
  /\ UNCHANGED <<state, shutdown_status, up, resetting, suspends,
                 timer, pid, restart, boot_on_resume, procs>>

(* Mutant: a suspend is not remembered.                                    *)
switch_state_forget(m) ==
  /\ pc[m] = "state"
  /\ CASE state[m] = "shutting_down" -> goto(m, "status")
       [] state[m] = "suspending" -> goto(m, "suspend")
       [] OTHER -> goto(m, "poll")
  /\ timer' = [timer EXCEPT ![m] = SHUTDOWN_TIMEOUT]
  /\ UNCHANGED <<driver, pid, restart, boot_on_resume, procs>>

(* readsysfs(state) and the switch on it; a NULL is retried.               *)
switch_state(m) ==
  /\ pc[m] = "state"
  /\ CASE state[m] = "shutting_down" ->
            /\ goto(m, "status")
            /\ timer' = [timer EXCEPT ![m] = SHUTDOWN_TIMEOUT]
            /\ UNCHANGED boot_on_resume
       [] state[m] = "suspending" ->
            /\ goto(m, "suspend")
            /\ boot_on_resume' = [boot_on_resume EXCEPT ![m] = TRUE]
            /\ UNCHANGED timer
       [] state[m] = "offline" /\ boot_on_resume[m] ->
            goto(m, "boot") /\ UNCHANGED <<timer, boot_on_resume>>
       [] OTHER -> goto(m, "poll") /\ UNCHANGED <<timer, boot_on_resume>>
  /\ UNCHANGED <<driver, pid, restart, procs>>

(* Mutant: the backend survives a suspend.                                 *)
write_suspend_only(m) ==
  /\ pc[m] = "suspend"
  /\ WriteSuspend(m)
  /\ goto(m, "poll")
  /\ UNCHANGED <<timer, pid, restart, boot_on_resume, proc, owner>>

write_suspend(m) ==
  /\ pc[m] = "suspend"
  /\ WriteSuspend(m)
  /\ goto(m, "status")
  /\ timer' = [timer EXCEPT ![m] = SHUTDOWN_TIMEOUT]
  /\ UNCHANGED <<pid, restart, boot_on_resume, proc, owner>>

(* Mutant: the notification of the daemon's own write is swallowed.        *)
write_boot_swallow(m) ==
  /\ pc[m] = "boot"
  /\ LET ok == state[m] = "offline" /\ ~resetting[m] IN
       /\ state' = [state EXCEPT ![m] = IF ok THEN "online" ELSE @]
       /\ up' = [up EXCEPT ![m] = ok \/ @]
  /\ notify' = [notify EXCEPT ![m] = FALSE]
  /\ boot_on_resume' = [boot_on_resume EXCEPT ![m] = FALSE]
  /\ goto(m, "poll")
  /\ UNCHANGED <<shutdown_status, resetting, suspends, timer, pid, restart, procs>>

(* The result of setsysfs is not looked at.                                *)
write_boot(m) ==
  /\ pc[m] = "boot"
  /\ WriteBoot(m)
  /\ boot_on_resume' = [boot_on_resume EXCEPT ![m] = FALSE]
  /\ goto(m, "poll")
  /\ UNCHANGED <<timer, pid, restart, proc, owner>>

poll_state(m) ==
  /\ pc[m] = "poll"
  /\ \/ notify[m] /\ goto(m, "read")
     \/ "io" \in faults /\ goto(m, "init")
  /\ UNCHANGED <<driver, timer, pid, restart, boot_on_resume, procs>>
-----------------------------------------------------------------------------
(* mic_handle_shutdown and reset.                                          *)

(* Mutant: a restart is treated like a halt.                               *)
read_shutdown_status_halt(m) ==
  /\ pc[m] = "status"
  /\ shutdown_status[m] \in DownStatus \/ timer[m] = 0
  /\ goto(m, "kill")
  /\ UNCHANGED <<driver, timer, pid, restart, boot_on_resume, procs>>

(* One turn of the loop on shutdown_status.  A NULL from readsysfs is      *)
(* retried at once, without counting down.                                 *)
read_shutdown_status(m) ==
  /\ pc[m] = "status"
  /\ \/ /\ timer[m] > 0
        /\ shutdown_status[m] \in DownStatus
        /\ restart' = [restart EXCEPT
                         ![m] = @ \/ shutdown_status[m] = "restart"]
        /\ goto(m, "kill")
        /\ UNCHANGED timer
     \/ /\ timer[m] > 0
        /\ shutdown_status[m] = "nop"
        /\ timer' = [timer EXCEPT ![m] = @ - 1]
        /\ UNCHANGED <<pc, restart>>
     \/ timer[m] = 0 /\ goto(m, "kill") /\ UNCHANGED <<timer, restart>>
  /\ UNCHANGED <<driver, pid, boot_on_resume, procs>>

(* Mutants: SIGTERM is sent, but waitpid does not block (the card is not   *)
(* reset), or waitpid is left out (it is).                                 *)
kill_then(m, l) ==
  /\ pc[m] = "kill"
  /\ proc' = [proc EXCEPT ![pid[m]] = IF @ = "run" THEN "term" ELSE @]
  /\ goto(m, l)
  /\ UNCHANGED <<driver, timer, pid, restart, boot_on_resume, owner, stale>>
kill_child_nohang(m) == kill_then(m, "init")
kill_child_nowait(m) == kill_then(m, "reset")

(* kill reports an error only if there is no such process; then the card   *)
(* is not reset.                                                           *)
kill_child(m) ==
  /\ pc[m] = "kill"
  /\ IF pid[m] \in Pids /\ proc[pid[m]] # "free"
     THEN /\ proc' = [proc EXCEPT
                        ![pid[m]] = IF @ = "run" THEN "term" ELSE @]
          /\ goto(m, "wait")
     ELSE goto(m, "init") /\ UNCHANGED proc
  /\ UNCHANGED <<driver, timer, pid, restart, boot_on_resume, owner, stale>>

(* Mutant: the test of waitpid's result is inverted.                       *)
wait_child_no_reset(m) ==
  /\ pc[m] = "wait"
  /\ proc[pid[m]] = "zombie"
  /\ proc' = [proc EXCEPT ![pid[m]] = "free"]
  /\ owner' = [owner EXCEPT ![pid[m]] = NoCard]
  /\ stale' = stale \ {pid[m]}
  /\ goto(m, "init")
  /\ UNCHANGED <<driver, timer, pid, restart, boot_on_resume>>

wait_child(m) ==
  /\ pc[m] = "wait"
  /\ proc[pid[m]] = "zombie"
  /\ proc' = [proc EXCEPT ![pid[m]] = "free"]
  /\ owner' = [owner EXCEPT ![pid[m]] = NoCard]
  /\ stale' = stale \ {pid[m]}
  /\ goto(m, "reset")
  /\ UNCHANGED <<driver, timer, pid, restart, boot_on_resume>>

write_reset(m) ==
  /\ pc[m] = "reset"
  /\ WriteReset(m)
  /\ goto(m, "resetwait")
  /\ timer' = [timer EXCEPT ![m] = RESET_TIMEOUT]
  /\ UNCHANGED <<pid, restart, boot_on_resume, proc, owner>>

(* One turn of the loop in reset.  Unless "slow" resets are considered, a  *)
(* reset settles before the last of the RESET_TIMEOUT seconds is over.     *)
reset_poll(m) ==
  /\ pc[m] = "resetwait"
  /\ \/ /\ timer[m] > 0
        /\ state[m] \in {"offline", "suspended"}
        /\ goto(m, "init") /\ UNCHANGED timer
     \/ /\ timer[m] > 0
        /\ state[m] \notin {"offline", "suspended"} \/ "sysfs" \in faults
        /\ timer[m] = 1 => ("slow" \in faults \/ ~resetting[m])
        /\ timer' = [timer EXCEPT ![m] = @ - 1] /\ UNCHANGED pc
     \/ timer[m] = 0 /\ goto(m, "init") /\ UNCHANGED timer
  /\ UNCHANGED <<driver, pid, restart, boot_on_resume, procs>>

Daemon(m) ==
  \/ fork(m) \/ fork_failed(m) \/ init_mic_parent(m)
  \/ open_state(m) \/ read_state(m) \/ switch_state(m)
  \/ write_suspend(m) \/ write_boot(m) \/ poll_state(m)
  \/ read_shutdown_status(m) \/ kill_child(m) \/ wait_child(m)
  \/ write_reset(m) \/ reset_poll(m)
-----------------------------------------------------------------------------
(* The children.  SIGTERM has its default action; an assert aborts.        *)

child_exit(p) ==
  /\ \/ proc[p] = "term"
     \/ proc[p] = "run" /\ "abort" \in faults
  /\ proc' = [proc EXCEPT ![p] = "zombie"]
  /\ UNCHANGED <<driver, daemon, owner, stale>>

Next ==
  /\ \/ \E m \in Cards :
          \/ Daemon(m)
          \/ ResetDone(m) \/ Suspend(m) \/ Resume(m) \/ User(m)
          \/ \E s \in DownStatus : CardDown(m, s)
     \/ \E p \in Pids : child_exit(p)
  /\ UNCHANGED <<faults, ops>>

Spec == Init /\ [][Next]_vars

(* The threads of the daemon are scheduled, a terminated child exits, a    *)
(* reset that was started completes, a suspended system is resumed.        *)
Fairness ==
  /\ \A m \in Cards :
       WF_system(Daemon(m)) /\ WF_system(ResetDone(m)) /\ WF_system(Resume(m))
  /\ \A p \in Pids : WF_system(child_exit(p))

FairSpec == Spec /\ Fairness
-----------------------------------------------------------------------------
(* "Currently, one virtio block device is supported for each MIC card at a *)
(* time" (mpssd.c:1570): two children never run the backends of one card.  *)
OneBackend == \A m \in Cards : Cardinality(Live(m)) <= 1

(* As long as the state attribute can be opened, read and polled, a card   *)
(* has one backend: every other path from mic_config back to init_mic goes *)
(* through the kill and the waitpid of mic_handle_shutdown.                *)
BackendReplaced == "io" \notin faults => OneBackend

(* Under the same condition the card's memory is taken away by a reset     *)
(* only once no backend of the card can touch it: mic_handle_shutdown      *)
(* reaps the child before reset.                                           *)
NoBackendDuringReset ==
  "io" \notin faults =>
    \A m \in Cards : pc[m] \in {"reset", "resetwait"} => Live(m) = {}

(* With reused process identifiers, mic_handle_shutdown never signals a    *)
(* process that is not the card's own child.                               *)
KillsOwnChild ==
  \A m \in Cards : pc[m] \in {"kill", "wait"} =>
     pid[m] \in Pids /\ owner[pid[m]] = m /\ proc[pid[m]] # "free"

Watching == {"parent", "open", "read", "state", "boot", "poll"}

(* While the thread watches an online card, the backend serving it was     *)
(* started after the card's previous session had ended, if only the daemon *)
(* resets the card, resets settle within RESET_TIMEOUT and the attribute   *)
(* can be read.  A user's reset and boot between two reads of the          *)
(* attribute go unseen, and the old backend serves the new session.        *)
FreshBackend ==
  faults \cap {"io", "slow"} = {} /\ "reset" \notin ops =>
    \A m \in Cards : pc[m] \in Watching /\ state[m] = "online"
                       => Unreaped(m) # {} /\ Live(m) \cap stale = {}

(* The thread never sleeps in poll on a state it still has to act on: what *)
(* changes between the read that arms the poll, the read the switch looks  *)
(* at and the poll itself makes the poll return.                           *)
NoMissedState ==
  \A m \in Cards : pc[m] = "poll" /\ ~notify[m] =>
    /\ state[m] \notin {"shutting_down", "suspending"}
    /\ ~(state[m] = "offline" /\ boot_on_resume[m])

(* If nothing fails, the daemon notices every shutdown and crash and takes *)
(* the card down, also while users reset it.                               *)
ShutdownHandled ==
  faults = {} => \A m \in Cards :
    state[m] = "shutting_down" ~> state[m] \in {"offline", "reset_failed"}

(* mic_handle_shutdown still listens to what the card reports.             *)
Listening(m) == pc[m] \in Watching \/ (pc[m] = "status" /\ timer[m] > 0)

(* A card OS that goes down for a restart, and says so before              *)
(* mic_handle_shutdown stops asking, is booted again by the daemon, unless *)
(* a user resets the card, which wipes what it said, or the host suspends  *)
(* while the card is offline: that boot is forgotten.                      *)
RestartBoots ==
  faults = {} /\ "reset" \notin ops => \A m \in Cards :
    (/\ state[m] = "shutting_down" /\ ~up[m]
     /\ shutdown_status[m] = "restart"
     /\ Listening(m)) ~> state[m] \in {"online", "suspended"}

(* "It shuts down the card during suspend and reboots the card OS during   *)
(* resume" (mic/mic_overview.txt:8-9).                                     *)
ResumeReboots ==
  \A m \in Cards : state[m] = "suspending" ~> state[m] = "online"

(* If nothing fails and no user resets it, a card that was online when the *)
(* host suspended is online again after the resume, unless the host        *)
(* suspends once more in between: the write of "boot" is not verified.     *)
ResumeBoots ==
  faults = {} /\ "reset" \notin ops => \A m \in Cards, n \in 1..MaxSuspend :
    state[m] = "suspending" /\ suspends[m] = n
      ~> state[m] = "online" \/ suspends[m] > n
=============================================================================
