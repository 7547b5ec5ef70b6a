------------------------------ MODULE GetDelays ------------------------------
(***************************************************************************)
(* getdelays.c, the taskstats client: it registers as a listener for a set *)
(* of cpus, or asks for one task or for a container, or forks a command    *)
(* and asks for it once it has exited, and prints the attributes of the    *)
(* messages it receives.  The kernel (tasks, SIGCHLD, the taskstats        *)
(* family) is external; its messages have the form the program reads: an   *)
(* aggregate contains the task and its statistics (getdelays.c:473-477).   *)
(***************************************************************************)
EXTENDS Integers, Sequences

CONSTANTS
  Tasks, Child,   \* tasks that exit while the program runs; the one it forks
  GdFaults,       \* the calls that may fail, see GdFaultKinds
  RcvQueue        \* messages its socket holds

GdFaultKinds == {"fork", "log", "socket", "family", "register", "request",
                 "container", "write", "deregister"}

ASSUME GetDelaysConstants ==
  /\ Child \notin Tasks
  /\ GdFaults \subseteq GdFaultKinds
  /\ RcvQueue \in Nat

VARIABLES
  opt, gd_pc,         \* the command line; step of main
  child, sigchld,     \* "none", "running", "zombie"; SIGCHLD is pending
  blocked,            \* SIGCHLD is blocked
  exited,             \* tasks of Tasks that have exited
  listener,           \* the kernel sends exit data to the socket
  fds,                \* "sock", "log", "container": open descriptors
  queue, overflow,    \* the socket: messages, and one was dropped
  msg, len,           \* the message walked; offsets are in units of 4 bytes
  na, len2, aggr_len,
  rtid, report,       \* task named last; task printed and owner of its data
  failed              \* the call of GdFaultKinds that failed last

gd_vars == <<opt, gd_pc, child, sigchld, blocked, exited, listener, fds, queue,
             overflow, msg, len, na, len2, aggr_len, rtid, report, failed>>
kernel == <<child, sigchld, blocked, exited, listener, queue, overflow>>
walk == <<msg, len, na, len2, aggr_len, rtid, report>>

Options == [who : {"none", "pid", "fork"}, mask : BOOLEAN,
            container : BOOLEAN, loop : BOOLEAN, log : BOOLEAN]

(* A message as its units of four bytes: attribute headers, with type,     *)
(* length in units and task, and Data.                                     *)
Header(type, length, of) == [type |-> type, length |-> length, of |-> of]
Data == Header("data", 0, Child)
Aggr(t) == <<Header("AGGR", 6, t), Header("PID", 2, t), Data,
             Header("STATS", 3, t), Data, Data>>
Pad == <<Header("NULL", 1, Child)>>
Cgroup == <<Header("CGROUP", 2, Child), Data>>
NlError == <<Header("ERROR", 1, Child)>>

GdInit ==
  /\ opt \in Options
  /\ gd_pc = "options"
  /\ child = "none" /\ sigchld = FALSE /\ blocked = FALSE /\ exited = {}
  /\ listener = FALSE /\ fds = {} /\ queue = <<>> /\ overflow = FALSE
  /\ msg = <<>> /\ len = 0 /\ na = 0 /\ len2 = 0 /\ aggr_len = 0
  /\ rtid = Child /\ report = <<Child, Child>> /\ failed = "none"

(* One step of main before the receive loop: the call is not made, or      *)
(* succeeds with its effect, or fails and jumps.                           *)
Goto(l) == gd_pc' = l
May(call) == call \in GdFaults /\ failed' = call

(* Mutant: the signal is blocked after the fork.                           *)
fork_then_block ==
  /\ gd_pc = "options"
  /\ Goto(IF child = "none" /\ opt.who = "fork" THEN "options" ELSE "log")
  /\ IF opt.who = "fork" THEN child' = (IF child = "none" THEN "running" ELSE child)
     ELSE UNCHANGED child
  /\ blocked' = (opt.who = "fork" /\ child # "none")
  /\ UNCHANGED <<opt, sigchld, exited, listener, fds, queue, overflow, walk, failed>>

(* -c blocks SIGCHLD for sigwait, then forks the command.                  *)
block_then_fork ==
  /\ gd_pc = "options"
  /\ blocked' = (opt.who = "fork")
  /\ \/ /\ Goto("log") /\ UNCHANGED failed
        /\ child' = IF opt.who = "fork" THEN "running" ELSE "none"
     \/ opt.who = "fork" /\ May("fork") /\ Goto("exit") /\ UNCHANGED child
  /\ UNCHANGED <<opt, sigchld, exited, listener, fds, queue, overflow, walk>>

open_log ==
  /\ gd_pc = "log"
  /\ \/ /\ Goto("socket") /\ UNCHANGED failed
        /\ fds' = IF opt.log THEN fds \cup {"log"} ELSE fds
     \/ opt.log /\ May("log") /\ Goto("exit") /\ UNCHANGED fds
  /\ UNCHANGED <<opt, kernel, walk>>

create_nl_socket ==
  /\ gd_pc = "socket"
  /\ \/ fds' = fds \cup {"sock"} /\ Goto("family") /\ UNCHANGED failed
     \/ May("socket") /\ Goto("exit") /\ UNCHANGED fds
  /\ UNCHANGED <<opt, kernel, walk>>

get_family_id ==
  /\ gd_pc = "family"
  /\ \/ Goto("register") /\ UNCHANGED failed
     \/ May("family") /\ Goto("err")
  /\ UNCHANGED <<opt, kernel, fds, walk>>

register_cpumask ==
  /\ gd_pc = "register"
  /\ \/ listener' = opt.mask /\ Goto("sigwait") /\ UNCHANGED failed
     \/ opt.mask /\ May("register") /\ Goto("err") /\ UNCHANGED listener
  /\ UNCHANGED <<opt, child, sigchld, blocked, exited, fds, queue, overflow, walk>>

(* A task and a container are refused; a forked task is waited for.        *)
wait_child ==
  /\ gd_pc = "sigwait"
  /\ IF opt.who # "none" /\ opt.container THEN Goto("err") /\ UNCHANGED sigchld
     ELSE /\ opt.who = "fork" => sigchld
          /\ sigchld' = FALSE /\ Goto("request")
  /\ UNCHANGED <<opt, child, blocked, exited, listener, fds, queue, overflow,
                 walk, failed>>

(* The kernel answers a request at once: the data of a task it knows, of   *)
(* the container, or an error.                                             *)
Reply(m) == IF Len(queue) < RcvQueue THEN queue' = Append(queue, m) /\ UNCHANGED overflow
            ELSE overflow' = TRUE /\ UNCHANGED queue

request_task ==
  /\ gd_pc = "request"
  /\ \/ opt.who = "none" /\ Goto("container") /\ UNCHANGED <<queue, overflow, failed>>
     \/ /\ opt.who = "fork" /\ Reply(Pad \o Aggr(Child))
        /\ Goto("container") /\ UNCHANGED failed
     \/ /\ opt.who = "pid"
        /\ \E t \in Tasks : Reply(IF t \in exited THEN NlError ELSE Pad \o Aggr(t))
        /\ Goto("container") /\ UNCHANGED failed
     \/ /\ opt.who # "none" /\ May("request") /\ Goto("done")
        /\ UNCHANGED <<queue, overflow>>
  /\ UNCHANGED <<opt, child, sigchld, blocked, exited, listener, fds, walk>>

(* Asking for a container, and the usage message for no request at all.    *)
request_container ==
  /\ gd_pc = "container"
  /\ \/ /\ ~opt.container /\ UNCHANGED <<fds, queue, overflow, failed>>
        /\ Goto(IF opt.mask \/ opt.who # "none" THEN "recv" ELSE "err")
     \/ /\ opt.container /\ fds' = fds \cup {"container"}
        /\ Reply(Cgroup) /\ Goto("recv") /\ UNCHANGED failed
     \/ /\ opt.container /\ May("container") /\ Goto("err")
        /\ fds' \in {fds, fds \cup {"container"}} /\ UNCHANGED <<queue, overflow>>
  /\ UNCHANGED <<opt, child, sigchld, blocked, exited, listener, walk>>
-----------------------------------------------------------------------------
EndOfMessage == Goto(IF opt.loop THEN "recv" ELSE "done")

(* recv waits for a message; after an overflow it fails once, and without  *)
(* -l that ends the program although the error is called nonfatal.         *)
receive ==
  /\ gd_pc = "recv"
  /\ IF overflow THEN overflow' = FALSE /\ EndOfMessage /\ UNCHANGED <<queue, msg, len, na>>
     ELSE /\ queue # <<>>
          /\ queue' = Tail(queue) /\ msg' = Head(queue) /\ len' = 0 /\ na' = 0
          /\ Goto(IF Head(queue) = NlError THEN "done" ELSE "outer")
          /\ UNCHANGED overflow
  /\ UNCHANGED <<opt, child, sigchld, blocked, exited, listener, fds, len2,
                 aggr_len, rtid, report, failed>>

At(offset) == msg[offset + 1]

(* Mutant: the length of the aggregate counts its header.                  *)
walk_outer_header ==
  /\ gd_pc = "outer"
  /\ IF len < Len(msg)
     THEN /\ len' = len + At(na).length
          /\ IF At(na).type = "AGGR"
             THEN /\ aggr_len' = At(na).length /\ len2' = 0
                  /\ na' = na + 1 /\ Goto("nested")
             ELSE na' = len' /\ UNCHANGED <<gd_pc, len2, aggr_len>>
     ELSE EndOfMessage /\ UNCHANGED <<len, na, len2, aggr_len>>
  /\ UNCHANGED <<opt, kernel, fds, msg, rtid, report, failed>>

walk_outer ==
  /\ gd_pc = "outer"
  /\ IF len < Len(msg)
     THEN /\ len' = len + At(na).length
          /\ IF At(na).type = "AGGR"
             THEN /\ aggr_len' = At(na).length - 1 /\ len2' = 0
                  /\ na' = na + 1 /\ Goto("nested")
             ELSE na' = len' /\ UNCHANGED <<gd_pc, len2, aggr_len>>
     ELSE EndOfMessage /\ UNCHANGED <<len, na, len2, aggr_len>>
  /\ UNCHANGED <<opt, kernel, fds, msg, rtid, report, failed>>

(* The nested attributes, one of an unknown type is only reported; the     *)
(* pointer is advanced by the sum of their lengths, not by the last one.   *)
advance == len2' = len2 + At(na).length /\ na' = na + len2'

walk_nested ==
  /\ gd_pc = "nested"
  /\ \/ /\ len2 >= aggr_len
        /\ na' = len /\ Goto("outer") /\ UNCHANGED <<len2, rtid, report, failed>>
     \/ /\ len2 < aggr_len /\ At(na).type # "STATS"
        /\ rtid' = IF At(na).type = "PID" THEN At(na).of ELSE rtid
        /\ advance /\ UNCHANGED <<gd_pc, report, failed>>
     \/ /\ len2 < aggr_len /\ At(na).type = "STATS"
        /\ report' = <<rtid, At(na).of>>
        /\ \/ opt.log /\ May("write") /\ Goto("exit") /\ UNCHANGED <<len2, na>>
           \/ ~opt.loop /\ Goto("done") /\ UNCHANGED <<len2, na, failed>>
           \/ opt.loop /\ advance /\ UNCHANGED <<gd_pc, failed>>
        /\ UNCHANGED rtid
  /\ UNCHANGED <<opt, kernel, fds, msg, len, aggr_len>>
-----------------------------------------------------------------------------
(* done: the listener is deregistered; err: everything is closed.          *)
finish_done ==
  /\ gd_pc = "done"
  /\ \/ listener' = FALSE /\ Goto("err") /\ UNCHANGED failed
     \/ opt.mask /\ May("deregister") /\ Goto("exit") /\ UNCHANGED listener
  /\ UNCHANGED <<opt, child, sigchld, blocked, exited, fds, queue, overflow, walk>>

finish_err ==
  /\ gd_pc = "err"
  /\ fds' = {} /\ Goto("exit")
  /\ UNCHANGED <<opt, kernel, walk, failed>>
-----------------------------------------------------------------------------
(* The forked command ends; SIGCHLD is lost unless it is blocked.  It      *)
(* stays a zombie, whose statistics the kernel still has.                  *)
ChildExit ==
  /\ child = "running"
  /\ child' = "zombie" /\ sigchld' = blocked
  /\ IF listener THEN Reply(Aggr(Child)) ELSE UNCHANGED <<queue, overflow>>
  /\ UNCHANGED <<opt, gd_pc, blocked, exited, listener, fds, walk, failed>>

(* Another task ends, perhaps the last of its thread group.                *)
TaskExit(t) ==
  /\ t \notin exited /\ exited' = exited \cup {t}
  /\ IF listener THEN Reply(Aggr(t)) \/ Reply(Pad \o Aggr(t) \o Pad \o Aggr(t))
     ELSE UNCHANGED <<queue, overflow>>
  /\ UNCHANGED <<opt, gd_pc, child, sigchld, blocked, listener, fds, walk, failed>>

Main ==
  \/ block_then_fork \/ open_log \/ create_nl_socket \/ get_family_id
  \/ register_cpumask \/ wait_child \/ request_task \/ request_container
  \/ receive \/ walk_outer \/ walk_nested \/ finish_done \/ finish_err

GdNext == Main \/ ChildExit \/ \E t \in Tasks : TaskExit(t)

GdSpec == GdInit /\ [][GdNext]_gd_vars
-----------------------------------------------------------------------------
(* The walk over the attributes of a message always reads an attribute     *)
(* header where one is, never the middle of its data, and the statistics   *)
(* it prints belong to the task it named last, for replies and for exit    *)
(* messages with one or two aggregates.                                    *)
WalkAligned ==
  /\ gd_pc = "outer" /\ len < Len(msg) => na < Len(msg) /\ At(na) # Data
  /\ gd_pc = "nested" /\ len2 < aggr_len => na < Len(msg) /\ At(na) # Data
  /\ report[1] = report[2]

(* The kernel's listener is only left behind by a program that fails       *)
(* after registering: the container branch, a failing write of the log or  *)
(* a deregistration that cannot be sent.                                   *)
ListenerRemoved ==
  gd_pc = "exit" /\ listener =>
    opt.container \/ failed \in {"write", "deregister"}

(* A program that waits in sigwait for the command it forked has the       *)
(* signal still to come or pending, and one that asks for its statistics   *)
(* asks when it has ended: SIGCHLD is blocked before the fork.             *)
ForkedAwaited ==
  opt.who = "fork" =>
    /\ gd_pc = "sigwait" => child = "running" \/ sigchld
    /\ gd_pc = "request" => child = "zombie"

(* The program that forked a command does not wait for its end for ever:   *)
(* SIGCHLD is blocked before the fork, so it is never lost, however early  *)
(* the command exits.                                                      *)
ChildAwaited == gd_pc = "sigwait" ~> gd_pc # "sigwait"
=============================================================================
