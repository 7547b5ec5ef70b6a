--------------------------- MODULE MicDaemonProofs ---------------------------
(* Invariants of MicDaemon for any number of cards, any timeouts and any   *)
(* pool of process identifiers.                                            *)
EXTENDS MicDaemon, FiniteSetTheorems, TLAPS

(* Program points at which mic->pid names a child nobody has waited for.   *)
Tending == Watching \cup {"suspend", "status", "kill", "wait"}

(* The process mic->pid names is the card's own child and is not reaped.   *)
CurrentChild ==
  \A m \in Cards : pc[m] \in Tending =>
    pid[m] \in Pids /\ owner[pid[m]] = m /\ proc[pid[m]] # "free"

(* The card has no other child.                                            *)
NoOrphan ==
  \A m \in Cards, p \in Pids :
    owner[p] = m /\ proc[p] # "free" =>
      pc[m] \in Tending \cup {"dead"} /\ p = pid[m]

(* A reset under way outlives the call of reset() only on a suspended card.*)
ResetBounded ==
  \A m \in Cards :
    /\ resetting[m] => state[m] # "offline"
    /\ resetting[m] => state[m] = "suspended"
                         \/ (pc[m] = "resetwait" /\ timer[m] > 0)

(* A watched child is out of date only while the card is going down.       *)
FreshChild ==
  \A m \in Cards : pc[m] \in Watching =>
    state[m] \in {"shutting_down", "suspending"} \/ pid[m] \notin stale

(* The attribute can be read, resets settle in time, no user resets.       *)
Undisturbed == faults \cap {"io", "slow"} = {} /\ "reset" \notin ops

USE ConstantsAssumption

(* What the driver does when its attribute is written keeps the types.     *)
LEMMA WriteTypes ==
  ASSUME TypeOK, NEW m \in Cards,
         \/ WriteBoot(m) \/ WriteShutdown(m) \/ WriteSuspend(m)
         \/ WriteReset(m)
  PROVE  DriverTypeOK' /\ stale' \in SUBSET Pids
<1> DriverTypeOK /\ ProcTypeOK
  BY DEF TypeOK
<1> USE DEF DriverTypeOK, ProcTypeOK, MicStates, SetState, driver
<1>1. CASE UNCHANGED <<driver, stale>>
  BY <1>1
<1>2. CASE WriteBoot(m)
  <2>1. CASE state[m] = "offline" /\ ~resetting[m]
    BY <1>2, <2>1 DEF WriteBoot
  <2>2. CASE ~(state[m] = "offline" /\ ~resetting[m])
    BY <1>1, <1>2, <2>2 DEF WriteBoot
  <2> QED BY <2>1, <2>2
<1>3. CASE WriteShutdown(m)
  <2>1. CASE state[m] = "online"
    BY <1>3, <2>1 DEF WriteShutdown, EndSession, Live
  <2>2. CASE ~(state[m] = "online")
    BY <1>1, <1>3, <2>2 DEF WriteShutdown
  <2> QED BY <2>1, <2>2
<1>4. CASE WriteSuspend(m)
  <2>1. CASE state[m] = "suspending"
    BY <1>4, <2>1 DEF WriteSuspend
  <2>2. CASE ~(state[m] = "suspending")
    BY <1>1, <1>4, <2>2 DEF WriteSuspend
  <2> QED BY <2>1, <2>2
<1>5. CASE WriteReset(m)
  <2>1. CASE state[m] # "offline"
    BY <1>5, <2>1 DEF WriteReset
  <2>2. CASE ~(state[m] # "offline")
    BY <1>1, <1>5, <2>2 DEF WriteReset
  <2> QED BY <2>1, <2>2
<1> QED BY <1>2, <1>3, <1>4, <1>5

(* A step of the daemon keeps the types of its own variables.              *)
LEMMA DaemonTypes ==
  ASSUME TypeOK, NEW m \in Cards, Daemon(m)
  PROVE  DaemonTypeOK'
<1> USE DEF TypeOK, DaemonTypeOK, PCs, goto
<1>1. CASE fork(m)
  BY <1>1 DEF fork
<1>8. CASE fork_failed(m)
  BY <1>8 DEF fork_failed
<1>9. CASE init_mic_parent(m)
  BY <1>9 DEF init_mic_parent
<1>2. CASE open_state(m) \/ read_state(m) \/ poll_state(m)
  BY <1>2 DEF open_state, read_state, poll_state
<1>3. CASE switch_state(m)
  <2>1. CASE state[m] = "shutting_down"
    BY <1>3, <2>1 DEF switch_state
  <2>2. CASE state[m] = "suspending"
    BY <1>3, <2>2 DEF switch_state
  <2>3. CASE state[m] = "offline" /\ boot_on_resume[m]
    BY <1>3, <2>3 DEF switch_state
  <2>4. CASE state[m] \notin {"shutting_down", "suspending"}
             /\ ~(state[m] = "offline" /\ boot_on_resume[m])
    BY <1>3, <2>4 DEF switch_state
  <2> QED BY <2>1, <2>2, <2>3, <2>4
<1>4. CASE write_suspend(m)
  BY <1>4 DEF write_suspend
<1>10. CASE write_boot(m)
  BY <1>10 DEF write_boot
<1>5. CASE read_shutdown_status(m)
  <2>1. restart' \in [Cards -> BOOLEAN]
    <3>1. CASE restart' = [restart EXCEPT
                      ![m] = @ \/ shutdown_status[m] = "restart"]
      BY <3>1, Zenon
    <3> QED BY <1>5, <3>1 DEF read_shutdown_status
  <2> QED BY <1>5, <2>1 DEF read_shutdown_status
<1>6. CASE kill_child(m) \/ wait_child(m)
  BY <1>6 DEF kill_child, wait_child
<1>7. CASE write_reset(m) \/ reset_poll(m)
  BY <1>7 DEF write_reset, reset_poll
<1> QED
  BY <1>1, <1>2, <1>3, <1>4, <1>5, <1>6, <1>7, <1>8, <1>9, <1>10 DEF Daemon

(* A step of the daemon keeps the types of the driver and the processes.   *)
LEMMA DaemonEnvTypes ==
  ASSUME TypeOK, NEW m \in Cards, Daemon(m)
  PROVE  DriverTypeOK' /\ ProcTypeOK'
<1>1. CASE UNCHANGED driver /\ UNCHANGED procs
  BY <1>1 DEF TypeOK, DriverTypeOK, ProcTypeOK, driver, procs
<1>2. CASE /\ UNCHANGED <<proc, owner>>
           /\ WriteBoot(m) \/ WriteSuspend(m) \/ WriteReset(m)
  BY <1>2, WriteTypes DEF TypeOK, ProcTypeOK
<1>3. CASE fork(m) \/ kill_child(m) \/ wait_child(m)
  BY <1>3 DEF fork, kill_child, wait_child, TypeOK, DriverTypeOK,
             DaemonTypeOK, ProcTypeOK, driver
<1>4. CASE init_mic_parent(m) \/ write_boot(m) \/ write_suspend(m)
             \/ write_reset(m)
  BY <1>1, <1>2, <1>4 DEF init_mic_parent, write_boot, write_suspend,
                         write_reset, procs
<1>5. CASE read_state(m)
  BY <1>5 DEF read_state, TypeOK, DriverTypeOK, ProcTypeOK, procs
<1>6. CASE \/ fork_failed(m) \/ open_state(m) \/ switch_state(m)
           \/ poll_state(m) \/ read_shutdown_status(m) \/ reset_poll(m)
  BY <1>1, <1>6 DEF fork_failed, open_state, switch_state, poll_state,
                   read_shutdown_status, reset_poll
<1> QED BY <1>3, <1>4, <1>5, <1>6 DEF Daemon

(* The steps of the driver, the card, OSPM and the users keep the types.   *)
LEMMA EnvTypes ==
  ASSUME TypeOK, NEW m \in Cards,
         \/ ResetDone(m) \/ Suspend(m) \/ Resume(m) \/ User(m)
         \/ \E s \in DownStatus : CardDown(m, s)
  PROVE  DriverTypeOK' /\ DaemonTypeOK' /\ ProcTypeOK'
<1>1. DaemonTypeOK' /\ UNCHANGED <<proc, owner>>
  BY DEF ResetDone, Suspend, Resume, User, CardDown, TypeOK, DaemonTypeOK,
         daemon, procs
<1>2. stale' \in SUBSET Pids
  BY WriteTypes DEF ResetDone, Suspend, Resume, User, CardDown, TypeOK,
                   ProcTypeOK, EndSession, Live, procs
<1>3. state' \in [Cards -> MicStates] /\ notify' \in [Cards -> BOOLEAN]
  <2> USE DEF TypeOK, DriverTypeOK, SetState, MicStates
  <2>1. CASE ResetDone(m)
    <3>1. \/ SetState(m, "offline") \/ SetState(m, "reset_failed")
          \/ UNCHANGED <<state, notify>>
      BY <2>1 DEF ResetDone
    <3> HIDE <2>1
    <3> QED BY <3>1
  <2>2. CASE Suspend(m)
    <3>1. SetState(m, "suspending") \/ SetState(m, "suspended")
      BY <2>2 DEF Suspend
    <3> QED BY <3>1
  <2>3. CASE Resume(m)
    BY <2>3 DEF Resume
  <2>4. CASE User(m)
    BY <2>4, WriteTypes DEF User
  <2>5. CASE \E s \in DownStatus : CardDown(m, s)
    <3>1. SetState(m, "shutting_down") \/ UNCHANGED <<state, notify>>
      BY <2>5 DEF CardDown
    <3> HIDE <2>5
    <3> QED BY <3>1
  <2> QED BY <2>1, <2>2, <2>3, <2>4, <2>5
<1>4. /\ shutdown_status' \in [Cards -> MicStatus]
      /\ up' \in [Cards -> BOOLEAN]
      /\ resetting' \in [Cards -> BOOLEAN]
      /\ suspends' \in [Cards -> 0..MaxSuspend]
  <2> USE DEF TypeOK, DriverTypeOK, MicStatus
  <2>1. CASE User(m)
    BY <2>1, WriteTypes DEF User
  <2>2. CASE ResetDone(m) \/ Resume(m)
    BY <2>2 DEF ResetDone, Resume
  <2>3. CASE Suspend(m)
    BY <2>3 DEF Suspend
  <2>4. CASE \E s \in DownStatus : CardDown(m, s)
    BY <2>4 DEF CardDown
  <2> QED BY <2>1, <2>2, <2>3, <2>4
<1> QED BY <1>1, <1>2, <1>3, <1>4 DEF TypeOK, DriverTypeOK, ProcTypeOK

(* The variables keep their types: every operation of the daemon and of    *)
(* its environment writes only states, program points and identifiers of   *)
(* the declared sets.                                                      *)
THEOREM TypeCorrect == Spec => []TypeOK
<1>1. Init => TypeOK
  BY DEF Init, TypeOK, DriverTypeOK, DaemonTypeOK, ProcTypeOK, MicStates,
         MicStatus, PCs
<1>2. TypeOK /\ [Next]_vars => TypeOK'
  <2> SUFFICES ASSUME TypeOK, [Next]_vars PROVE TypeOK'
    OBVIOUS
  <2> DEFINE Types == DriverTypeOK /\ DaemonTypeOK /\ ProcTypeOK
  <2>1. ASSUME NEW p \in Pids, child_exit(p) PROVE Types'
    BY <2>1 DEF child_exit, TypeOK, DriverTypeOK, DaemonTypeOK, ProcTypeOK,
               driver, daemon
  <2>2. CASE UNCHANGED vars
    BY <2>2 DEF vars, system, driver, daemon, procs, TypeOK, DriverTypeOK,
               DaemonTypeOK, ProcTypeOK
  <2>3. ASSUME NEW m \in Cards, Daemon(m) PROVE Types'
    BY <2>3, DaemonTypes, DaemonEnvTypes
  <2>4. UNCHANGED <<faults, ops>>
    BY DEF Next, vars
  <2>5. CASE Next
    <3>1. Types'
      BY <2>1, <2>3, <2>5, EnvTypes DEF Next
    <3> QED BY <2>4, <3>1 DEF TypeOK
  <2> QED BY <2>2, <2>5
<1> QED BY <1>1, <1>2, PTL DEF Spec
-----------------------------------------------------------------------------
(* CurrentChild survives every step.  Only fork, kill, waitpid and the     *)
(* moves of the program counter matter; two cards never name one process   *)
(* because it has one owner.                                               *)
LEMMA CurrentChildStep == TypeOK /\ CurrentChild /\ [Next]_vars => CurrentChild'
<1> SUFFICES ASSUME TypeOK, CurrentChild, [Next]_vars,
                   NEW n \in Cards, pc'[n] \in Tending
             PROVE  pid'[n] \in Pids /\ owner'[pid'[n]] = n
                      /\ proc'[pid'[n]] # "free"
  BY DEF CurrentChild
<1> USE DEF TypeOK, DriverTypeOK, DaemonTypeOK, ProcTypeOK,
            CurrentChild, Tending, Watching, goto, driver, procs, daemon
<1>1. ASSUME NEW m \in Cards, fork(m) PROVE CurrentChild'
  BY <1>1 DEF fork
<1>2. ASSUME NEW m \in Cards, fork_failed(m) PROVE CurrentChild'
  BY <1>2 DEF fork_failed
<1>3. ASSUME NEW m \in Cards, init_mic_parent(m) PROVE CurrentChild'
  BY <1>3 DEF init_mic_parent
<1>4. ASSUME NEW m \in Cards,
            open_state(m) \/ read_state(m) \/ poll_state(m)
      PROVE  CurrentChild'
  BY <1>4 DEF open_state, read_state, poll_state
<1>5. ASSUME NEW m \in Cards, switch_state(m) PROVE CurrentChild'
  <2>1. \E l \in {"status", "suspend", "boot", "poll"} : goto(m, l)
    BY <1>5 DEF switch_state
  <2> QED BY <1>5, <2>1 DEF switch_state
<1>6. ASSUME NEW m \in Cards, write_suspend(m) \/ write_boot(m)
      PROVE  CurrentChild'
  BY <1>6 DEF write_suspend, write_boot
<1>7. ASSUME NEW m \in Cards, read_shutdown_status(m) PROVE CurrentChild'
  BY <1>7 DEF read_shutdown_status
<1>8. ASSUME NEW m \in Cards, kill_child(m) PROVE CurrentChild'
  BY <1>8 DEF kill_child
<1>9. ASSUME NEW m \in Cards, wait_child(m) PROVE CurrentChild'
  BY <1>9 DEF wait_child
<1>10. ASSUME NEW m \in Cards, write_reset(m) \/ reset_poll(m)
       PROVE  CurrentChild'
  BY <1>10 DEF write_reset, reset_poll
<1>11. ASSUME NEW m \in Cards, UNCHANGED daemon /\ UNCHANGED <<proc, owner>>
       PROVE  CurrentChild'
  BY <1>11
<1>12. ASSUME NEW p \in Pids, child_exit(p) PROVE CurrentChild'
  BY <1>12 DEF child_exit
<1>13. CASE UNCHANGED vars
  BY <1>13 DEF vars, system
<1>14. ASSUME NEW m \in Cards,
             \/ ResetDone(m) \/ Suspend(m) \/ Resume(m) \/ User(m)
              \/ \E s \in DownStatus : CardDown(m, s)
       PROVE  CurrentChild'
  BY <1>14, <1>11 DEF ResetDone, Suspend, Resume, User, CardDown
<1> QED
  BY <1>1, <1>2, <1>3, <1>4, <1>5, <1>6, <1>7, <1>8, <1>9, <1>10, <1>12,
     <1>13, <1>14 DEF Next, Daemon

(* Whatever fails, mic_handle_shutdown signals and waits for the card's    *)
(* own child, even though the kernel reuses process identifiers.           *)
THEOREM OwnChild == Spec => []KillsOwnChild
<1>1. Init => CurrentChild
  BY DEF Init, CurrentChild, Tending, Watching
<1>2. CurrentChild => KillsOwnChild
  BY DEF CurrentChild, KillsOwnChild, Tending
<1> QED
  BY <1>1, <1>2, CurrentChildStep, TypeCorrect, PTL DEF Spec

-----------------------------------------------------------------------------
(* NoOrphan survives every step as long as the operations on the state     *)
(* attribute do not fail: init_mic is then reached only after waitpid.     *)
LEMMA NoOrphanStep ==
  "io" \notin faults /\ TypeOK /\ CurrentChild /\ NoOrphan /\ [Next]_vars
    => NoOrphan'
<1> SUFFICES ASSUME "io" \notin faults, TypeOK, CurrentChild, NoOrphan,
                   [Next]_vars
             PROVE  NoOrphan'
  OBVIOUS
<1> USE DEF TypeOK, DriverTypeOK, DaemonTypeOK, ProcTypeOK,
            NoOrphan, Tending, Watching, goto, driver, procs, daemon
<1>1. ASSUME NEW m \in Cards, fork(m) PROVE NoOrphan'
  BY <1>1 DEF fork
<1>2. ASSUME NEW m \in Cards, fork_failed(m) PROVE NoOrphan'
  BY <1>2 DEF fork_failed
<1>3. ASSUME NEW m \in Cards, init_mic_parent(m) PROVE NoOrphan'
  BY <1>3 DEF init_mic_parent
<1>4. ASSUME NEW m \in Cards,
            open_state(m) \/ read_state(m) \/ poll_state(m)
      PROVE  NoOrphan'
  BY <1>4 DEF open_state, read_state, poll_state
<1>5. ASSUME NEW m \in Cards, switch_state(m) PROVE NoOrphan'
  <2>1. \E l \in {"status", "suspend", "boot", "poll"} : goto(m, l)
    BY <1>5 DEF switch_state
  <2> QED BY <1>5, <2>1 DEF switch_state
<1>6. ASSUME NEW m \in Cards, write_suspend(m) \/ write_boot(m)
      PROVE  NoOrphan'
  BY <1>6 DEF write_suspend, write_boot
<1>7. ASSUME NEW m \in Cards, read_shutdown_status(m) PROVE NoOrphan'
  BY <1>7 DEF read_shutdown_status
<1>8. ASSUME NEW m \in Cards, kill_child(m) PROVE NoOrphan'
  <2>1. pid[m] \in Pids /\ proc[pid[m]] # "free"
    BY <1>8 DEF kill_child, CurrentChild
  <2> QED BY <1>8, <2>1 DEF kill_child
<1>9. ASSUME NEW m \in Cards, wait_child(m) PROVE NoOrphan'
  BY <1>9 DEF wait_child, CurrentChild
<1>10. ASSUME NEW m \in Cards, write_reset(m) \/ reset_poll(m)
       PROVE  NoOrphan'
  BY <1>10 DEF write_reset, reset_poll
<1>11. ASSUME NEW m \in Cards, UNCHANGED daemon /\ UNCHANGED <<proc, owner>>
       PROVE  NoOrphan'
  BY <1>11
<1>12. ASSUME NEW p \in Pids, child_exit(p) PROVE NoOrphan'
  BY <1>12 DEF child_exit
<1>13. CASE UNCHANGED vars
  BY <1>13 DEF vars, system
<1>14. ASSUME NEW m \in Cards,
             \/ ResetDone(m) \/ Suspend(m) \/ Resume(m) \/ User(m)
              \/ \E s \in DownStatus : CardDown(m, s)
       PROVE  NoOrphan'
  BY <1>14, <1>11 DEF ResetDone, Suspend, Resume, User, CardDown
<1> QED
  BY <1>1, <1>2, <1>3, <1>4, <1>5, <1>6, <1>7, <1>8, <1>9, <1>10, <1>12,
     <1>13, <1>14 DEF Next, Daemon

LEMMA NoOrphanInvariant ==
  Spec => [](TypeOK /\ CurrentChild /\ ("io" \notin faults => NoOrphan))
<1>1. Init => CurrentChild /\ NoOrphan
  BY DEF Init, CurrentChild, NoOrphan, Tending, Watching
<1>2. TypeOK /\ CurrentChild /\ ("io" \notin faults => NoOrphan) /\ [Next]_vars
        => ("io" \notin faults => NoOrphan)'
  <2>1. [Next]_vars => UNCHANGED faults
    BY DEF Next, vars
  <2> QED BY <2>1, NoOrphanStep
<1> QED
  BY <1>1, <1>2, CurrentChildStep, TypeCorrect, PTL DEF Spec

(* If the state attribute can be opened, read and polled, a card never has *)
(* two processes running its backends.                                     *)
THEOREM SingleBackend == Spec => []BackendReplaced
<1>1. NoOrphan => OneBackend
  <2> SUFFICES ASSUME NoOrphan, NEW m \in Cards
               PROVE  Cardinality(Live(m)) <= 1
    BY DEF OneBackend
  <2>1. Live(m) = {} \/ Live(m) = {pid[m]}
    BY DEF NoOrphan, Live
  <2>2. Cardinality({}) = 0 /\ Cardinality({pid[m]}) = 1
    BY FS_EmptySet, FS_Singleton, Zenon
  <2> QED BY <2>1, <2>2
<1>2. ("io" \notin faults => NoOrphan) => BackendReplaced
  BY <1>1 DEF BackendReplaced
<1> QED BY <1>2, NoOrphanInvariant, PTL

(* Under the same condition the card is reset only once its child has been *)
(* waited for, so no backend works on a card that is being reset.          *)
THEOREM ResetAfterReap == Spec => []NoBackendDuringReset
<1>1. ("io" \notin faults => NoOrphan) => NoBackendDuringReset
  BY DEF NoOrphan, NoBackendDuringReset, Live, Tending, Watching
<1> QED BY <1>1, NoOrphanInvariant, PTL

-----------------------------------------------------------------------------
(* A reset under way is either waited for by reset(), or that of a         *)
(* suspended card: no user resets the card behind the daemon's back, and a *)
(* reset settles before reset() gives up.                                  *)
LEMMA ResetBoundedStep ==
  ASSUME RESET_TIMEOUT > 0
  PROVE  Undisturbed /\ TypeOK /\ ResetBounded /\ [Next]_vars => ResetBounded'
<1> SUFFICES ASSUME "slow" \notin faults, "reset" \notin ops,
                   TypeOK, ResetBounded, [Next]_vars
             PROVE  ResetBounded'
  BY DEF Undisturbed
<1> USE DEF TypeOK, DriverTypeOK, DaemonTypeOK, ProcTypeOK,
            ResetBounded, goto, SetState, driver, procs, daemon
<1>1. ASSUME NEW m \in Cards,
            \/ fork(m) \/ fork_failed(m) \/ open_state(m) \/ read_state(m)
             \/ poll_state(m) \/ read_shutdown_status(m) \/ kill_child(m)
             \/ wait_child(m)
      PROVE  ResetBounded'
  <2>1. UNCHANGED <<state, resetting>> /\ pc[m] # "resetwait"
        /\ \A n \in Cards \ {m} : pc'[n] = pc[n] /\ timer'[n] = timer[n]
    BY <1>1 DEF fork, fork_failed, open_state, read_state, poll_state,
               read_shutdown_status, kill_child, wait_child
  <2> QED BY <2>1
<1>2. ASSUME NEW m \in Cards, init_mic_parent(m) PROVE ResetBounded'
  BY <1>2 DEF init_mic_parent, WriteBoot
<1>3. ASSUME NEW m \in Cards, switch_state(m) PROVE ResetBounded'
  <2>1. UNCHANGED <<state, resetting>> /\ pc[m] # "resetwait"
        /\ \A n \in Cards \ {m} : pc'[n] = pc[n] /\ timer'[n] = timer[n]
    BY <1>3 DEF switch_state
  <2> QED BY <2>1
<1>4. ASSUME NEW m \in Cards, write_suspend(m) PROVE ResetBounded'
  BY <1>4 DEF write_suspend, WriteSuspend
<1>5. ASSUME NEW m \in Cards, write_boot(m) PROVE ResetBounded'
  BY <1>5 DEF write_boot, WriteBoot
<1>6. ASSUME NEW m \in Cards, write_reset(m) PROVE ResetBounded'
  BY <1>6 DEF write_reset, WriteReset
<1>7. ASSUME NEW m \in Cards, reset_poll(m) PROVE ResetBounded'
  BY <1>7 DEF reset_poll
<1>8. ASSUME NEW m \in Cards, ResetDone(m) PROVE ResetBounded'
  BY <1>8 DEF ResetDone
<1>9. ASSUME NEW m \in Cards, Suspend(m) PROVE ResetBounded'
  BY <1>9 DEF Suspend
<1>10. ASSUME NEW m \in Cards, Resume(m) PROVE ResetBounded'
  BY <1>10 DEF Resume
<1>11. ASSUME NEW m \in Cards, User(m) PROVE ResetBounded'
  BY <1>11 DEF User, WriteBoot, WriteShutdown
<1>12. ASSUME NEW m \in Cards, NEW s \in DownStatus, CardDown(m, s)
       PROVE  ResetBounded'
  BY <1>12 DEF CardDown
<1>13. ASSUME NEW p \in Pids, child_exit(p) PROVE ResetBounded'
  BY <1>13 DEF child_exit
<1>14. CASE UNCHANGED vars
  BY <1>14 DEF vars, system
<1> QED
  BY <1>1, <1>2, <1>3, <1>4, <1>5, <1>6, <1>7, <1>8, <1>9, <1>10, <1>11,
     <1>12, <1>13, <1>14 DEF Next, Daemon

(* A child is out of date once the session it served has ended, and then   *)
(* the thread leaves the points at which it watches before the card can    *)
(* leave "shutting_down" or "suspending".                                  *)
LEMMA FreshChildStep ==
  TypeOK /\ CurrentChild /\ ResetBounded /\ FreshChild /\ [Next]_vars
    => FreshChild'
<1> SUFFICES ASSUME TypeOK, CurrentChild, ResetBounded, FreshChild,
                   [Next]_vars
             PROVE  FreshChild'
  OBVIOUS
<1> USE DEF TypeOK, DriverTypeOK, DaemonTypeOK, ProcTypeOK,
            FreshChild, Watching, goto, SetState, driver, procs, daemon
<1>1. ASSUME NEW m \in Cards, fork(m) PROVE FreshChild'
  BY <1>1 DEF fork
<1>2. ASSUME NEW m \in Cards,
            \/ fork_failed(m) \/ open_state(m) \/ read_state(m)
             \/ poll_state(m) \/ read_shutdown_status(m) \/ kill_child(m)
      PROVE  FreshChild'
  <2>1. /\ UNCHANGED <<state, stale>>
        /\ pc'[m] \in Watching => pc[m] \in Watching /\ pid'[m] = pid[m]
        /\ \A n \in Cards \ {m} : pc'[n] = pc[n] /\ pid'[n] = pid[n]
    BY <1>2 DEF fork_failed, open_state, read_state, poll_state,
               read_shutdown_status, kill_child
  <2> QED BY <2>1
<1>3. ASSUME NEW m \in Cards, init_mic_parent(m) PROVE FreshChild'
  BY <1>3 DEF init_mic_parent, WriteBoot
<1>4. ASSUME NEW m \in Cards, switch_state(m) PROVE FreshChild'
  <2>1. UNCHANGED <<state, stale, pid>> /\ pc[m] \in Watching
        /\ \A n \in Cards \ {m} : pc'[n] = pc[n]
    BY <1>4 DEF switch_state
  <2> QED BY <2>1
<1>5. ASSUME NEW m \in Cards, write_suspend(m) PROVE FreshChild'
  BY <1>5 DEF write_suspend, WriteSuspend
<1>6. ASSUME NEW m \in Cards, write_boot(m) PROVE FreshChild'
  BY <1>6 DEF write_boot, WriteBoot
<1>7. ASSUME NEW m \in Cards, wait_child(m) PROVE FreshChild'
  BY <1>7 DEF wait_child
<1>8. ASSUME NEW m \in Cards, write_reset(m) PROVE FreshChild'
  BY <1>8 DEF write_reset, WriteReset
<1>9. ASSUME NEW m \in Cards, reset_poll(m) PROVE FreshChild'
  BY <1>9 DEF reset_poll
<1>10. ASSUME NEW m \in Cards, EndSession(m), UNCHANGED <<pc, pid>>,
             \A n \in Cards \ {m} : state'[n] = state[n],
             \/ state'[m] \in {"shutting_down", "suspending"}
              \/ pc[m] \notin Watching
              \/ state[m] \notin {"online", "shutting_down", "suspending"}
       PROVE  FreshChild'
  <2>1. \A n \in Cards \ {m} :
           pc[n] \in Watching /\ pid[n] \in stale' => pid[n] \in stale
    BY <1>10 DEF EndSession, CurrentChild, Tending, Live
  <2>2. state[m] # "online" => stale' = stale
    BY <1>10 DEF EndSession
  <2> QED BY <1>10, <2>1, <2>2
<1>11. ASSUME NEW m \in Cards, ResetDone(m) PROVE FreshChild'
  <2>1. CASE state[m] = "suspended"
    BY <1>11, <2>1 DEF ResetDone
  <2>2. CASE state[m] # "suspended"
    <3>1. pc[m] \notin Watching
      BY <1>11, <2>2 DEF ResetDone, ResetBounded
    <3>2. /\ EndSession(m) /\ UNCHANGED <<pc, pid>>
          /\ \A n \in Cards \ {m} : state'[n] = state[n]
      BY <1>11, <2>2 DEF ResetDone
    <3> QED BY <3>1, <3>2, <1>10
  <2> QED BY <2>1, <2>2
<1>12. ASSUME NEW m \in Cards, Suspend(m) PROVE FreshChild'
  BY <1>12, <1>10 DEF Suspend
<1>13. ASSUME NEW m \in Cards, Resume(m) PROVE FreshChild'
  BY <1>13 DEF Resume
<1>14. ASSUME NEW m \in Cards, User(m) PROVE FreshChild'
  <2>1. CASE WriteBoot(m)
    BY <1>14, <2>1 DEF User, WriteBoot
  <2>2. CASE WriteShutdown(m)
    BY <1>14, <2>2, <1>10 DEF User, WriteShutdown
  <2>3. CASE WriteReset(m)
    BY <1>14, <2>3 DEF User, WriteReset
  <2> QED BY <1>14, <2>1, <2>2, <2>3 DEF User
<1>15. ASSUME NEW m \in Cards, NEW s \in DownStatus, CardDown(m, s)
       PROVE  FreshChild'
  <2>1. CASE state[m] = "online"
    BY <1>15, <2>1, <1>10 DEF CardDown
  <2>2. CASE state[m] # "online"
    BY <1>15, <2>2 DEF CardDown
  <2> QED BY <2>1, <2>2
<1>16. ASSUME NEW p \in Pids, child_exit(p) PROVE FreshChild'
  BY <1>16 DEF child_exit
<1>17. CASE UNCHANGED vars
  BY <1>17 DEF vars, system
<1> QED
  BY <1>1, <1>2, <1>3, <1>4, <1>5, <1>6, <1>7, <1>8, <1>9, <1>11, <1>12,
     <1>13, <1>14, <1>15, <1>16, <1>17 DEF Next, Daemon

(* Every session of a watched card is served by a child started after the  *)
(* previous session had ended, if the state attribute can be read, only    *)
(* the daemon resets cards, and resets settle within RESET_TIMEOUT.        *)
THEOREM FreshSessions ==
  ASSUME RESET_TIMEOUT > 0
  PROVE  Spec => []FreshBackend
<1> DEFINE Fresh == Undisturbed => ResetBounded /\ FreshChild
<1>1. Init => Fresh
  BY DEF Init, ResetBounded, FreshChild, Watching
<1>2. /\ TypeOK /\ CurrentChild /\ ("io" \notin faults => NoOrphan) /\ Fresh
      => FreshBackend
  <2> SUFFICES ASSUME TypeOK, CurrentChild, NoOrphan, FreshChild,
                     NEW m \in Cards, pc[m] \in Watching, state[m] = "online"
               PROVE  Unreaped(m) # {} /\ Live(m) \cap stale = {}
    BY DEF FreshBackend, Undisturbed
  <2>1. pid[m] \in Unreaped(m)
    BY DEF CurrentChild, Tending, Unreaped
  <2>2. \A p \in Live(m) : p = pid[m]
    BY DEF NoOrphan, Live
  <2>3. pid[m] \notin stale
    BY DEF FreshChild
  <2> QED BY <2>1, <2>2, <2>3
<1>3. TypeOK /\ CurrentChild /\ Fresh /\ [Next]_vars => Fresh'
  <2>1. [Next]_vars => UNCHANGED <<faults, ops>>
    BY DEF Next, vars
  <2>2. [Next]_vars /\ Undisturbed' => Undisturbed
    BY <2>1 DEF Undisturbed
  <2> QED BY <2>2, ResetBoundedStep, FreshChildStep
<1> HIDE DEF Fresh
<1> QED
  BY <1>1, <1>2, <1>3, NoOrphanInvariant, PTL DEF Spec

-----------------------------------------------------------------------------
(* What a thread that is about to poll, and has no notification pending,   *)
(* knows of the state.                                                     *)
Seen ==
  \A m \in Cards : pc[m] \in {"boot", "poll"} /\ ~notify[m] =>
    /\ state[m] \notin {"shutting_down", "suspending"}
    /\ pc[m] = "poll" => ~(state[m] = "offline" /\ boot_on_resume[m])

LEMMA SeenStep == TypeOK /\ Seen /\ [Next]_vars => Seen'
<1> SUFFICES ASSUME TypeOK, Seen, [Next]_vars PROVE Seen'
  OBVIOUS
<1> USE DEF TypeOK, DriverTypeOK, DaemonTypeOK, Seen, goto, SetState, driver, procs, daemon
<1>1. ASSUME NEW m \in Cards,
            \/ fork(m) \/ fork_failed(m) \/ open_state(m) \/ read_state(m)
             \/ poll_state(m) \/ read_shutdown_status(m) \/ kill_child(m)
             \/ wait_child(m) \/ reset_poll(m)
      PROVE  Seen'
  <2>1. UNCHANGED <<state, boot_on_resume>>
    BY <1>1 DEF fork, fork_failed, open_state, read_state, poll_state,
               read_shutdown_status, kill_child, wait_child, reset_poll
  <2>2. \A n \in Cards \ {m} : notify'[n] = notify[n]
    BY <1>1 DEF fork, fork_failed, open_state, read_state, poll_state,
               read_shutdown_status, kill_child, wait_child, reset_poll
  <2>3. CASE fork(m) \/ fork_failed(m) \/ open_state(m)
    BY <2>1, <2>2, <2>3 DEF fork, fork_failed, open_state
  <2>4. CASE read_state(m) \/ poll_state(m)
    BY <2>1, <2>2, <2>4 DEF read_state, poll_state
  <2>5. CASE read_shutdown_status(m)
    BY <2>1, <2>2, <2>5 DEF read_shutdown_status
  <2>6. CASE kill_child(m) \/ wait_child(m)
    BY <2>1, <2>2, <2>6 DEF kill_child, wait_child
  <2>7. CASE reset_poll(m)
    BY <2>1, <2>2, <2>7 DEF reset_poll
  <2> QED BY <1>1, <2>3, <2>4, <2>5, <2>6, <2>7
<1>2. ASSUME NEW m \in Cards, init_mic_parent(m) PROVE Seen'
  BY <1>2 DEF init_mic_parent, WriteBoot
<1>3. ASSUME NEW m \in Cards, switch_state(m) PROVE Seen'
  <2>1. CASE state[m] = "shutting_down"
    BY <1>3, <2>1 DEF switch_state
  <2>2. CASE state[m] = "suspending"
    BY <1>3, <2>2 DEF switch_state
  <2>3. CASE state[m] = "offline" /\ boot_on_resume[m]
    BY <1>3, <2>3 DEF switch_state
  <2>4. CASE state[m] \notin {"shutting_down", "suspending"}
             /\ ~(state[m] = "offline" /\ boot_on_resume[m])
    BY <1>3, <2>4 DEF switch_state
  <2> QED BY <2>1, <2>2, <2>3, <2>4
<1>4. ASSUME NEW m \in Cards, write_suspend(m) PROVE Seen'
  BY <1>4 DEF write_suspend, WriteSuspend
<1>5. ASSUME NEW m \in Cards, write_boot(m) PROVE Seen'
  BY <1>5 DEF write_boot, WriteBoot
<1>6. ASSUME NEW m \in Cards, write_reset(m) PROVE Seen'
  BY <1>6 DEF write_reset, WriteReset
<1>7. ASSUME NEW m \in Cards, ResetDone(m) PROVE Seen'
  BY <1>7 DEF ResetDone
<1>8. ASSUME NEW m \in Cards, Suspend(m) PROVE Seen'
  BY <1>8 DEF Suspend
<1>9. ASSUME NEW m \in Cards, Resume(m) PROVE Seen'
  BY <1>9 DEF Resume
<1>10. ASSUME NEW m \in Cards, User(m) PROVE Seen'
  BY <1>10 DEF User, WriteBoot, WriteShutdown, WriteReset
<1>11. ASSUME NEW m \in Cards, NEW s \in DownStatus, CardDown(m, s)
       PROVE  Seen'
  BY <1>11 DEF CardDown
<1>12. ASSUME NEW p \in Pids, child_exit(p) PROVE Seen'
  BY <1>12 DEF child_exit
<1>13. CASE UNCHANGED vars
  BY <1>13 DEF vars, system
<1> QED
  BY <1>1, <1>2, <1>3, <1>4, <1>5, <1>6, <1>7, <1>8, <1>9, <1>10, <1>11,
     <1>12, <1>13 DEF Next, Daemon

(* Whatever fails and however users, OSPM and the card change the state,   *)
(* no thread sleeps in poll on a shutdown, on a suspend or on an offline   *)
(* card it has to boot: the safety half of ShutdownHandled and             *)
(* ResumeBoots.                                                            *)
THEOREM NoMissedStateAlways == Spec => []NoMissedState
<1>1. Init => Seen
  BY DEF Init, Seen
<1>2. Seen => NoMissedState
  BY DEF Seen, NoMissedState
<1> QED BY <1>1, <1>2, SeenStep, TypeCorrect, PTL DEF Spec
=============================================================================
