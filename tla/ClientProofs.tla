----------------------------- MODULE ClientProofs -----------------------------
(***************************************************************************)
(* Proofs about the programs that talk to the kernel or the firmware over  *)
(* a socket or a device: mei-amt-version.c and getdelays.c.                *)
(***************************************************************************)
EXTENDS AmtClient, GetDelays, TLAPS

-----------------------------------------------------------------------------
(* Unsigned conversion of a number in range, and of a small negative one.  *)
LEMMA ModSmall == \A u \in Nat : \A x \in 0..(u - 1) : x % u = x
  OBVIOUS

LEMMA ModNegative == \A u \in Nat : \A x \in Int : -u <= x /\ x < 0 => x % u = x + u
  OBVIOUS

LEMMA DivBound == \A x \in Nat : 44 * (x \div 44) <= x
  OBVIOUS

LEMMA DivPositive == \A x \in Nat : x >= 44 => x \div 44 >= 1
  OBVIOUS

(* What must be true of the answer for each of the two results.            *)
Whole ==
  /\ rc >= RESP_HDR + BIOS + COUNT + VERSION * answer.count
  /\ answer.ours /\ answer.strings /\ answer.status = SUCCESS
Empty == rc = 0 \/ answer.status = EMPTY_RESPONSE

Read ==
  \/ rc = -1 /\ answer = Zeroed
  \/ \E a \in Answer : answer = Received(a) /\ rc = a.size

AmtInv ==
  /\ amt_pc \in {"mei_init", "connect", "call", "write", "read"} =>
       verdict = "nothing" /\ answer = Zeroed
  /\ amt_pc = "verify" => verdict = "nothing" /\ Read
  /\ amt_pc = "free" =>
       /\ verdict = "nothing"
       /\ status = SUCCESS => Whole
       /\ status = EMPTY_RESPONSE => Empty
  /\ ReportTrue

(* The checks of amt_verify_response_header and amt_verify_code_versions   *)
(* together bound the versions by the bytes that were read.                *)
LEMMA VerifiedWhole ==
  ASSUME Read, out_buf_sz > 0, answer.status = SUCCESS,
         amt_verify_response_header(answer, out_buf_sz) = SUCCESS,
         amt_verify_code_versions(answer) = SUCCESS
  PROVE  Whole
  <1> USE AmtConstants DEF SUCCESS, INTERNAL_ERROR, RESP_HDR, MSG_HDR, BIOS, COUNT, VERSION
  <1>t. /\ rc \in Int /\ out_buf_sz \in Int /\ answer.length \in Int
        /\ answer.ours \in BOOLEAN
    <2>1. CASE rc = -1 /\ answer = Zeroed
      <3>1. answer.length = 0
        BY <2>1 DEF Zeroed
      <3>2. answer.ours \in BOOLEAN
        BY <2>1 DEF Zeroed
      <3>3. out_buf_sz = -1 + Uint32
        BY <2>1, ModNegative DEF out_buf_sz
      <3> QED BY <2>1, <3>1, <3>2, <3>3
    <2>2. ASSUME NEW a \in Answer, answer = Received(a), rc = a.size
          PROVE  /\ rc \in Int /\ out_buf_sz \in Int /\ answer.length \in Int
                 /\ answer.ours \in BOOLEAN
      <3>1. a.ours \in BOOLEAN /\ a.length \in Int /\ a.size \in Int
        BY DEF Answer
      <3>2. answer.ours = a.ours /\ answer.length \in {a.length, 0}
        BY <2>2 DEF Answer, Received
      <3> QED BY <2>2, <3>1, <3>2 DEF out_buf_sz
    <2> QED BY <2>1, <2>2 DEF Read
  <1>1. /\ out_buf_sz >= 16 /\ out_buf_sz = answer.length + 12 /\ answer.ours
    <2>1. ~(out_buf_sz < 16 \/ out_buf_sz # answer.length + 12 \/ ~answer.ours)
      <3> DEFINE bad == out_buf_sz < 16 \/ out_buf_sz # answer.length + 12 \/ ~answer.ours
      <3>1. amt_verify_response_header(answer, out_buf_sz) = IF bad THEN 1 ELSE 0
        BY DEF amt_verify_response_header
      <3> HIDE DEF bad
      <3>2. ~bad
        BY <3>1
      <3> QED BY <3>2 DEF bad
    <2> QED BY <2>1, <1>t
  <1>2. answer.count = ((answer.length - 73) % Uint32) \div 44 /\ answer.strings
    <2>1. answer.length - 4 - 65 - 4 = answer.length - 73
      BY <1>t
    <2> QED BY <2>1 DEF amt_verify_code_versions
  <1>3. CASE rc = -1 /\ answer = Zeroed
    BY <1>1, <1>3 DEF Zeroed
  <1>4. ASSUME NEW a \in Answer, answer = Received(a), rc = a.size
        PROVE  Whole
    <2>1. /\ a.size \in 0..(Uint32 \div 2) /\ a.length \in 0..(Uint32 - 1)
          /\ a.count \in 0..(Uint32 - 1)
      BY DEF Answer
    <2>2. out_buf_sz = a.size
      <3>1. a.size \in 0..(Uint32 - 1)
        BY <2>1
      <3> QED BY <1>4, <3>1, ModSmall DEF out_buf_sz
    <2>3. answer.length = a.length /\ a.length = a.size - 12 /\ a.size >= 16
      BY <1>1, <1>4, <2>1, <2>2 DEF Received, Answer
    <2>4. answer.count = IF a.size >= 85 THEN a.count ELSE 0
      BY <1>4 DEF Received, Answer
    <2>5. CASE a.size >= 85
      <3> DEFINE x == a.length - 73
      <3>1. x \in 0..(Uint32 - 1) /\ x \in Nat
        BY <2>1, <2>3, <2>5
      <3>2. x % Uint32 = x
        BY <3>1, ModSmall
      <3>3. 44 * (x \div 44) <= x /\ x \div 44 \in Int
        BY <3>1, DivBound
      <3>4. answer.count = x \div 44
        BY <1>2, <2>3, <3>2
      <3>5. x = a.size - 85
        BY <2>1, <2>3
      <3>6. rc >= 16 + 65 + 4 + 44 * answer.count
        BY <1>4, <2>1, <3>3, <3>4, <3>5
      <3> QED BY <1>1, <1>2, <3>6 DEF Whole
    <2>6. CASE a.size < 85
      <3> DEFINE x == a.length - 73
      <3>1. x \in Int /\ -Uint32 <= x /\ x < 0 /\ x >= -73
        BY <2>1, <2>3, <2>6
      <3>2. x % Uint32 = x + Uint32
        BY <3>1, ModNegative
      <3>3. x + Uint32 \in Nat /\ x + Uint32 >= 44
        BY <3>1
      <3>4. (x + Uint32) \div 44 >= 1
        BY <3>3, DivPositive
      <3> QED BY <1>2, <2>3, <2>4, <2>6, <2>1, <3>2, <3>4
    <2> QED BY <2>1, <2>5, <2>6
  <1> QED
    BY <1>3, <1>4 DEF Read

LEMMA AmtInit_Inv == AmtInit => AmtInv
  BY DEF AmtInit, AmtInv, ReportTrue

LEMMA AmtNext_Inv == AmtInv /\ [AmtNext]_amt_vars => AmtInv'
  <1> SUFFICES ASSUME AmtInv, [AmtNext]_amt_vars PROVE AmtInv'
    OBVIOUS
  <1>1. CASE mei_init \/ mei_connect
    BY <1>1 DEF mei_init, mei_connect, AmtInv, ReportTrue
  <1>2. CASE amt_host_if_call
    BY <1>2 DEF amt_host_if_call, AmtInv, ReportTrue, SDK_RESOURCES, SUCCESS, EMPTY_RESPONSE
  <1>3. CASE mei_send_msg
    BY <1>3 DEF mei_send_msg, AmtInv, ReportTrue, INTERNAL_ERROR, SUCCESS, EMPTY_RESPONSE
  <1>4. CASE mei_recv_msg
    <2>1. Read'
      BY <1>4, AmtConstants DEF mei_recv_msg, Read, AmtInv
    <2> QED BY <1>4, <2>1 DEF mei_recv_msg, AmtInv, ReportTrue
  <1>5. CASE amt_verify
    <2>1. Read /\ verdict = "nothing" /\ amt_pc' = "free" /\ UNCHANGED <<answer, rc, verdict>>
      BY <1>5 DEF amt_verify, AmtInv
    <2>2. rc \in -1..(Uint32 \div 2)
      BY <2>1, AmtConstants DEF Read, Answer
    <2>3. out_buf_sz <= 0 => rc = 0
      <3>1. CASE rc = -1
        <4>1. out_buf_sz = Uint32 - 1
          BY <3>1, AmtConstants, ModNegative DEF out_buf_sz
        <4> QED BY <4>1, AmtConstants
      <3>2. CASE rc \in 0..(Uint32 - 1)
        BY <3>2, AmtConstants, ModSmall DEF out_buf_sz
      <3> QED BY <2>2, <3>1, <3>2, AmtConstants
    <2>4. out_buf_sz \in Int
      BY <2>2, AmtConstants DEF out_buf_sz
    <2>5. status' = SUCCESS => Whole
      <3> SUFFICES ASSUME status' = SUCCESS PROVE Whole
        OBVIOUS
      <3>1. out_buf_sz > 0 /\ answer.status = SUCCESS
        BY <1>5, <2>4 DEF amt_verify, SUCCESS, EMPTY_RESPONSE
      <3>2. amt_verify_response_header(answer, out_buf_sz) = SUCCESS
        BY <1>5, <2>4, <3>1 DEF amt_verify, SUCCESS, INTERNAL_ERROR
      <3>3. amt_verify_code_versions(answer) = SUCCESS
        BY <1>5, <2>4, <3>1, <3>2 DEF amt_verify
      <3> QED BY <2>1, <3>1, <3>2, <3>3, VerifiedWhole
    <2>6. status' = EMPTY_RESPONSE => Empty
      <3>1. amt_verify_code_versions(answer) \in {SUCCESS, INTERNAL_ERROR}
        BY DEF amt_verify_code_versions
      <3> QED
        BY <1>5, <2>3, <3>1 DEF amt_verify, Empty, SUCCESS, INTERNAL_ERROR, EMPTY_RESPONSE
    <2> QED BY <2>1, <2>5, <2>6 DEF AmtInv, Whole, Empty, ReportTrue
  <1>6. CASE amt_finish
    <2>1. /\ status = SUCCESS => Whole
          /\ status = EMPTY_RESPONSE => Empty
          /\ amt_pc' = "out" /\ UNCHANGED <<answer, rc, status>>
      BY <1>6 DEF amt_finish, AmtInv
    <2>2. verdict' = CASE status = EMPTY_RESPONSE -> "DISABLED"
                       [] status = SUCCESS -> "ENABLED"
                       [] OTHER -> "error"
      BY <1>6 DEF amt_finish
    <2>3. SUCCESS # EMPTY_RESPONSE
      BY DEF SUCCESS, EMPTY_RESPONSE
    <2>4. /\ verdict' = "ENABLED" => Whole
          /\ verdict' = "DISABLED" => Empty
      BY <2>1, <2>2, <2>3
    <2> QED BY <2>1, <2>4 DEF AmtInv, ReportTrue, Whole, Empty
  <1>7. CASE UNCHANGED amt_vars
    BY <1>7 DEF amt_vars, AmtInv, Read, Whole, Empty, ReportTrue
  <1> QED
    BY <1>1, <1>2, <1>3, <1>4, <1>5, <1>6, <1>7 DEF AmtNext

(* ENABLED and DISABLED are only printed for what was really read, for     *)
(* every set of answers the firmware may send.                             *)
THEOREM ReportTrueAlways == AmtSpec => []ReportTrue
  <1>1. AmtInv => ReportTrue
    BY DEF AmtInv
  <1> QED
    BY <1>1, AmtInit_Inv, AmtNext_Inv, PTL DEF AmtSpec

(* The inductive form of AmtReleased: no buffer before amt_host_if_call.   *)
AmtHeld ==
  /\ amt_pc \in {"mei_init", "connect", "call"} => read_buf = FALSE
  /\ amt_pc = "out" => amt_fd = FALSE /\ initialized = FALSE /\ read_buf = FALSE

(* The program ends with the device closed and the buffer freed.           *)
THEOREM AmtReleasedAlways == AmtSpec => []AmtReleased
  <1>1. AmtInit => AmtHeld
    BY DEF AmtInit, AmtHeld
  <1>2. AmtHeld /\ [AmtNext]_amt_vars => AmtHeld'
    <2> SUFFICES ASSUME AmtHeld, [AmtNext]_amt_vars PROVE AmtHeld'
      OBVIOUS
    <2> USE DEF AmtHeld, mei_deinit
    <2>1. CASE mei_init \/ mei_connect
      BY <2>1 DEF mei_init, mei_connect
    <2>2. CASE amt_host_if_call \/ mei_send_msg \/ mei_recv_msg \/ amt_verify
      BY <2>2 DEF amt_host_if_call, mei_send_msg, mei_recv_msg, amt_verify
    <2>3. CASE amt_finish
      BY <2>3 DEF amt_finish
    <2>4. CASE UNCHANGED amt_vars
      BY <2>4 DEF amt_vars
    <2> QED BY <2>1, <2>2, <2>3, <2>4 DEF AmtNext
  <1>3. AmtHeld => AmtReleased
    BY DEF AmtHeld, AmtReleased
  <1> QED
    BY <1>1, <1>2, <1>3, PTL DEF AmtSpec
-----------------------------------------------------------------------------
(* getdelays.c.  The listener exists only between the registration and the *)
(* label done, or on the way out through err.                              *)
ListenerInv ==
  /\ opt \in Options /\ listener \in BOOLEAN
  /\ gd_pc \in {"options", "log", "socket", "family", "register"} => listener = FALSE
  /\ listener => opt.mask
  /\ gd_pc = "err" /\ listener => opt.container
  /\ ListenerRemoved

LEMMA ListenerInit_Inv == GdInit => ListenerInv
  BY DEF GdInit, ListenerInv, ListenerRemoved

LEMMA ListenerNext_Inv ==
  ListenerInv /\ [GdNext]_gd_vars => ListenerInv'
  <1> SUFFICES ASSUME ListenerInv, [GdNext]_gd_vars PROVE ListenerInv'
    OBVIOUS
  <1>o. opt' = opt
    BY DEF GdNext, Main, block_then_fork, open_log, create_nl_socket, get_family_id,
           register_cpumask, wait_child, request_task, request_container, receive,
           walk_outer, walk_nested, finish_done, finish_err, ChildExit, TaskExit, gd_vars
  <1>t. opt.mask \in BOOLEAN /\ opt.container \in BOOLEAN
    BY DEF ListenerInv, Options
  <1> USE <1>o, <1>t DEF ListenerInv, ListenerRemoved, Goto, May, kernel
  <1>1. CASE block_then_fork
    BY <1>1 DEF block_then_fork
  <1>2. CASE open_log
    BY <1>2 DEF open_log
  <1>3. CASE create_nl_socket
    BY <1>3 DEF create_nl_socket
  <1>4. CASE get_family_id
    BY <1>4 DEF get_family_id
  <1>5. CASE register_cpumask
    BY <1>5 DEF register_cpumask
  <1>6. CASE wait_child
    BY <1>6 DEF wait_child
  <1>7. CASE request_task
    BY <1>7 DEF request_task
  <1>8. CASE request_container
    BY <1>8 DEF request_container
  <1>9. CASE receive
    BY <1>9 DEF receive, EndOfMessage
  <1>10. CASE walk_outer
    BY <1>10 DEF walk_outer, EndOfMessage
  <1>11. CASE walk_nested
    BY <1>11 DEF walk_nested
  <1>12. CASE finish_done
    BY <1>12 DEF finish_done
  <1>13. CASE finish_err
    BY <1>13 DEF finish_err
  <1>14. CASE ChildExit \/ \E t \in Tasks : TaskExit(t)
    BY <1>14 DEF ChildExit, TaskExit
  <1>15. CASE UNCHANGED gd_vars
    BY <1>15 DEF gd_vars
  <1> QED
    BY <1>1, <1>2, <1>3, <1>4, <1>5, <1>6, <1>7, <1>8, <1>9, <1>10, <1>11, <1>12,
       <1>13, <1>14, <1>15 DEF GdNext, Main

(* A program that registered a listener leaves it behind only when it was  *)
(* asked for a container too, or when a write or the deregistration fails. *)
THEOREM ListenerRemovedAlways == GdSpec => []ListenerRemoved
  <1>1. ListenerInv => ListenerRemoved
    BY DEF ListenerInv
  <1> QED
    BY <1>1, ListenerInit_Inv, ListenerNext_Inv, PTL DEF GdSpec

(* Until sigwait has returned, the command that was forked runs, or it has *)
(* ended with SIGCHLD blocked and the signal is still pending.             *)
BeforeWait == {"log", "socket", "family", "register", "sigwait"}
ForkInv ==
  /\ sigchld => child = "zombie"
  /\ gd_pc = "options" => child = "none"
  /\ opt.who = "fork" =>
       /\ gd_pc \in BeforeWait => blocked /\ (child = "running" \/ sigchld)
       /\ gd_pc = "request" => child = "zombie"

LEMMA ForkNext_Inv == ForkInv /\ [GdNext]_gd_vars => ForkInv'
  <1> SUFFICES ASSUME ForkInv, [GdNext]_gd_vars PROVE ForkInv'
    OBVIOUS
  <1>o. opt' = opt
    BY DEF GdNext, Main, block_then_fork, open_log, create_nl_socket, get_family_id,
           register_cpumask, wait_child, request_task, request_container, receive,
           walk_outer, walk_nested, finish_done, finish_err, ChildExit, TaskExit, gd_vars
  <1> USE <1>o DEF ForkInv, BeforeWait, Goto, May, kernel
  <1>1. CASE block_then_fork
    <2>1. child = "none" /\ ~sigchld /\ sigchld' = sigchld
      BY <1>1 DEF block_then_fork
    <2>2. /\ gd_pc' \in {"log", "exit"}
          /\ opt.who = "fork" /\ gd_pc' = "log" => child' = "running"
      BY <1>1 DEF block_then_fork
    <2>3. opt.who = "fork" => blocked'
      BY <1>1, Zenon DEF block_then_fork
    <2> QED BY <2>1, <2>2, <2>3
  <1>2. CASE open_log \/ create_nl_socket \/ get_family_id
    BY <1>2 DEF open_log, create_nl_socket, get_family_id
  <1>3. CASE register_cpumask
    BY <1>3 DEF register_cpumask
  <1>4. CASE wait_child
    <2>1. CASE gd_pc' = "err"
      BY <1>4, <2>1 DEF wait_child
    <2>2. CASE gd_pc' = "request"
      <3>1. opt.who = "fork" => sigchld
        BY <1>4, <2>2 DEF wait_child
      <3>2. sigchld' = FALSE /\ child' = child
        BY <1>4, <2>2 DEF wait_child
      <3> QED BY <2>2, <3>1, <3>2
    <2> QED BY <1>4, <2>1, <2>2 DEF wait_child
  <1>5. CASE request_task \/ request_container
    BY <1>5 DEF request_task, request_container
  <1>6. CASE receive \/ walk_outer \/ walk_nested
    BY <1>6 DEF receive, walk_outer, walk_nested, EndOfMessage
  <1>7. CASE finish_done \/ finish_err
    BY <1>7 DEF finish_done, finish_err
  <1>8. CASE ChildExit
    <2>1. child = "running" /\ child' = "zombie" /\ UNCHANGED <<gd_pc, blocked>>
      BY <1>8 DEF ChildExit
    <2>2. blocked => sigchld'
      BY <1>8, Zenon DEF ChildExit
    <2> QED BY <2>1, <2>2
  <1>9. CASE \E t \in Tasks : TaskExit(t)
    BY <1>9 DEF TaskExit
  <1>10. CASE UNCHANGED gd_vars
    BY <1>10 DEF gd_vars
  <1> QED
    BY <1>1, <1>2, <1>3, <1>4, <1>5, <1>6, <1>7, <1>8, <1>9, <1>10 DEF GdNext, Main

(* The signal sigwait waits for is never lost, and the statistics of a     *)
(* forked command are asked for when it has ended, for any tasks beside it *)
(* and any failing calls.                                                  *)
THEOREM ForkedAwaitedAlways == GdSpec => []ForkedAwaited
  <1>1. GdInit => ForkInv
    BY DEF GdInit, ForkInv, BeforeWait
  <1>2. ForkInv => ForkedAwaited
    BY DEF ForkInv, ForkedAwaited, BeforeWait
  <1> QED
    BY <1>1, <1>2, ForkNext_Inv, PTL DEF GdSpec

(* A message is well formed for a set of offsets when an attribute starts  *)
(* at each of them and the next one where it ends, and an aggregate holds  *)
(* the id and then the statistics of one task.                             *)
AggrAt(m, b) ==
  /\ b + 6 <= Len(m) /\ m[b + 1] = Header("AGGR", 6, m[b + 1].of)
  /\ m[b + 2] = Header("PID", 2, m[b + 1].of)
  /\ m[b + 4] = Header("STATS", 3, m[b + 1].of)

Formed(m, starts) ==
  /\ Len(m) \in Nat /\ starts \subseteq 0 .. (Len(m) - 1) /\ 0 \in starts
  /\ \A b \in starts :
       /\ m[b + 1].length \in Nat /\ b + m[b + 1].length \in starts \cup {Len(m)}
       /\ m[b + 1].type # "data"
       /\ m[b + 1].type = "AGGR" => AggrAt(m, b)

WellFormed(m) == \E starts \in SUBSET Nat : Formed(m, starts)

LEMMA AggrFormed == \A t : WellFormed(Aggr(t))
  <1> SUFFICES ASSUME NEW t PROVE Formed(Aggr(t), {0})
    BY DEF WellFormed
  <1> QED BY DEF Formed, AggrAt, Aggr, Header, Data

LEMMA CgroupFormed == WellFormed(Cgroup)
  <1> SUFFICES Formed(Cgroup, {0})
    BY DEF WellFormed
  <1> QED BY DEF Formed, AggrAt, Cgroup, Header, Data

LEMMA ErrorFormed == WellFormed(NlError)
  <1> SUFFICES Formed(NlError, {0})
    BY DEF WellFormed
  <1> QED BY DEF Formed, AggrAt, NlError, Header, Data

LEMMA ReplyFormed == \A t : WellFormed(Pad \o Aggr(t))
  <1> SUFFICES ASSUME NEW t PROVE Formed(Pad \o Aggr(t), {0, 1})
    BY DEF WellFormed
  <1> DEFINE m == Pad \o Aggr(t)
  <1>1. Len(m) = 7 /\ m[1] = Header("NULL", 1, Child) /\ m[2] = Header("AGGR", 6, t)
        /\ m[3] = Header("PID", 2, t) /\ m[5] = Header("STATS", 3, t)
    BY DEF Pad, Aggr
  <1> HIDE DEF m
  <1>2. Formed(m, {0, 1})
    BY <1>1 DEF Formed, AggrAt, Header
  <1> QED BY <1>2 DEF m

LEMMA Joined ==
  ASSUME NEW S, NEW x \in Seq(S), NEW y \in Seq(S)
  PROVE  /\ x \o y \in Seq(S) /\ Len(x \o y) = Len(x) + Len(y)
         /\ \A i \in 1..Len(x) : (x \o y)[i] = x[i]
  OBVIOUS

LEMMA ExitFormed == \A t : WellFormed(Pad \o Aggr(t) \o Pad \o Aggr(t))
  <1> SUFFICES ASSUME NEW t PROVE Formed(Pad \o Aggr(t) \o Pad \o Aggr(t), {0, 1, 7, 8})
    BY DEF WellFormed
  <1> DEFINE S == {Header("NULL", 1, Child), Header("AGGR", 6, t), Header("PID", 2, t),
                   Header("STATS", 3, t), Data}
             n == Pad \o Aggr(t)  p == n \o Pad  m == p \o Aggr(t)
  <1>s. /\ Pad \in Seq(S) /\ Len(Pad) = 1 /\ Pad[1] = Header("NULL", 1, Child)
        /\ Aggr(t) \in Seq(S) /\ Len(Aggr(t)) = 6 /\ Aggr(t)[1] = Header("AGGR", 6, t)
        /\ Aggr(t)[2] = Header("PID", 2, t) /\ Aggr(t)[4] = Header("STATS", 3, t)
    BY DEF Pad, Aggr
  <1> HIDE DEF S
  <1>a. Pad \in Seq(S) /\ Aggr(t) \in Seq(S)
    BY <1>s
  <1>1. /\ n \in Seq(S) /\ Len(n) = Len(Pad) + Len(Aggr(t))
        /\ \A i \in 1..Len(Pad) : n[i] = Pad[i]
        /\ \A i \in 1..Len(Aggr(t)) : n[Len(Pad) + i] = Aggr(t)[i]
    <2>1. n \in Seq(S)
      BY <1>a, Joined, Zenon
    <2>2. Len(n) = Len(Pad) + Len(Aggr(t))
      BY <1>a, Joined, Zenon
    <2>3. \A i \in 1..Len(Pad) : n[i] = Pad[i]
      BY <1>a, Joined, Zenon
    <2>4. \A i \in 1..Len(Aggr(t)) : n[Len(Pad) + i] = Aggr(t)[i]
      BY <1>a, SMT
    <2> QED BY <2>1, <2>2, <2>3, <2>4
  <1> HIDE DEF n
  <1>p. /\ p \in Seq(S) /\ Len(p) = Len(n) + Len(Pad)
        /\ \A i \in 1..Len(n) : p[i] = n[i]
        /\ \A i \in 1..Len(Pad) : p[Len(n) + i] = Pad[i]
    <2>0. n \in Seq(S)
      BY <1>1
    <2>1. p \in Seq(S)
      BY <1>a, <2>0, Joined, Zenon
    <2>2. Len(p) = Len(n) + Len(Pad)
      BY <1>a, <2>0, Joined, Zenon
    <2>3. \A i \in 1..Len(n) : p[i] = n[i]
      BY <1>a, <2>0, Joined, Zenon
    <2>4. \A i \in 1..Len(Pad) : p[Len(n) + i] = Pad[i]
      BY <1>a, <2>0, SMT
    <2> QED BY <2>1, <2>2, <2>3, <2>4
  <1> HIDE DEF p
  <1>m. /\ m \in Seq(S) /\ Len(m) = Len(p) + Len(Aggr(t))
        /\ \A i \in 1..Len(p) : m[i] = p[i]
        /\ \A i \in 1..Len(Aggr(t)) : m[Len(p) + i] = Aggr(t)[i]
    <2>0. p \in Seq(S)
      BY <1>p
    <2>1. m \in Seq(S)
      BY <1>a, <2>0, Joined, Zenon
    <2>2. Len(m) = Len(p) + Len(Aggr(t))
      BY <1>a, <2>0, Joined, Zenon
    <2>3. \A i \in 1..Len(p) : m[i] = p[i]
      BY <1>a, <2>0, Joined, Zenon
    <2>4. \A i \in 1..Len(Aggr(t)) : m[Len(p) + i] = Aggr(t)[i]
      BY <1>a, <2>0, SMT
    <2> QED BY <2>1, <2>2, <2>3, <2>4
  <1> HIDE DEF m
  <1>l. Len(n) = 7 /\ Len(p) = 8 /\ Len(m) = 14
    BY <1>s, <1>1, <1>p, <1>m
  <1>2. /\ m[1] = Header("NULL", 1, Child) /\ m[2] = Header("AGGR", 6, t)
        /\ m[3] = Header("PID", 2, t) /\ m[5] = Header("STATS", 3, t)
        /\ m[8] = Header("NULL", 1, Child) /\ m[9] = Header("AGGR", 6, t)
        /\ m[10] = Header("PID", 2, t) /\ m[12] = Header("STATS", 3, t)
    <2>1. n[1] = Pad[1] /\ n[2] = Aggr(t)[1] /\ n[3] = Aggr(t)[2] /\ n[5] = Aggr(t)[4]
      BY <1>s, <1>1
    <2>2. /\ p[1] = n[1] /\ p[2] = n[2] /\ p[3] = n[3] /\ p[5] = n[5] /\ p[8] = Pad[1]
      BY <1>s, <1>l, <1>p
    <2>3. /\ m[1] = p[1] /\ m[2] = p[2] /\ m[3] = p[3] /\ m[5] = p[5] /\ m[8] = p[8]
          /\ m[9] = Aggr(t)[1] /\ m[10] = Aggr(t)[2] /\ m[12] = Aggr(t)[4]
      BY <1>s, <1>l, <1>m
    <2> QED BY <1>s, <2>1, <2>2, <2>3
  <1>3. Formed(m, {0, 1, 7, 8})
    BY <1>l, <1>2 DEF Formed, AggrAt, Header
  <1> QED BY <1>3 DEF m, n, p

(* Where the walk may be in a well formed message: at the start of an      *)
(* attribute or at the end, or in an aggregate before its id, before its   *)
(* statistics with the id read, or behind them.                            *)
InOuter == \E starts \in SUBSET Nat :
  Formed(msg, starts) /\ na = len /\ len \in starts \cup {Len(msg)}

InNested == \E starts \in SUBSET Nat : \E b \in starts :
  /\ Formed(msg, starts) /\ AggrAt(msg, b)
  /\ len = b + 6 /\ len \in starts \cup {Len(msg)} /\ aggr_len = 5
  /\ \/ len2 = 0 /\ na = b + 1
     \/ len2 = 2 /\ na = b + 3 /\ rtid = msg[b + 1].of
     \/ len2 = 5

WalkInv ==
  /\ \E messages : queue \in Seq(messages) /\ \A m \in messages : WellFormed(m)
  /\ gd_pc = "outer" => InOuter
  /\ gd_pc = "nested" => InNested
  /\ report[1] = report[2]

LEMMA WalkInit_Inv == GdInit => WalkInv
  <1> SUFFICES ASSUME GdInit PROVE WalkInv
    OBVIOUS
  <1>1. queue \in Seq({}) /\ \A m \in {} : WellFormed(m)
    BY DEF GdInit
  <1> QED BY <1>1 DEF GdInit, WalkInv

(* A reply that is queued or dropped leaves only well formed messages.     *)
LEMMA ReplyKeeps ==
  ASSUME NEW m, WellFormed(m), Reply(m),
         \E messages : queue \in Seq(messages) /\ \A n \in messages : WellFormed(n)
  PROVE  \E messages : queue' \in Seq(messages) /\ \A n \in messages : WellFormed(n)
  <1> PICK messages : queue \in Seq(messages) /\ \A n \in messages : WellFormed(n)
    OBVIOUS
  <1>1. CASE queue' = Append(queue, m)
    <2>1. queue \in Seq(messages \cup {m})
      OBVIOUS
    <2>2. queue' \in Seq(messages \cup {m})
      BY <1>1, <2>1
    <2> QED BY <2>2
  <1>2. CASE queue' = queue
    BY <1>2
  <1> QED BY <1>1, <1>2 DEF Reply

LEMMA WalkNext_Inv == WalkInv /\ [GdNext]_gd_vars => WalkInv'
  <1> SUFFICES ASSUME WalkInv, [GdNext]_gd_vars PROVE WalkInv'
    OBVIOUS
  <1> DEFINE Queued == \E messages : queue \in Seq(messages) /\ \A m \in messages : WellFormed(m)
  <1>q. Queued
    BY DEF WalkInv
  <1>r. ASSUME Queued', gd_pc' \notin {"outer", "nested"}, report' = report PROVE WalkInv'
    BY <1>r DEF WalkInv
  <1>s. ASSUME Queued', UNCHANGED <<gd_pc, msg, len, na, len2, aggr_len, rtid, report>>
        PROVE  WalkInv'
    BY <1>s DEF WalkInv, InOuter, InNested
  <1>1. CASE \/ block_then_fork \/ open_log \/ create_nl_socket \/ get_family_id
             \/ register_cpumask \/ wait_child \/ finish_done \/ finish_err
    <2>1. queue' = queue /\ report' = report /\ gd_pc' \notin {"outer", "nested"}
      BY <1>1 DEF block_then_fork, open_log, create_nl_socket, get_family_id,
         register_cpumask, wait_child, finish_done, finish_err, Goto, kernel, walk
    <2> QED BY <1>q, <1>r, <2>1
  <1>2. CASE request_task
    <2>1. report' = report /\ gd_pc' \notin {"outer", "nested"}
      BY <1>2 DEF request_task, Goto, walk
    <2>2. Queued'
      <3>1. CASE queue' = queue
        BY <1>q, <3>1
      <3>2. CASE Reply(Pad \o Aggr(Child))
        BY <1>q, <3>2, ReplyFormed, ReplyKeeps
      <3>3. ASSUME NEW t \in Tasks, Reply(IF t \in exited THEN NlError ELSE Pad \o Aggr(t))
            PROVE  Queued'
        BY <1>q, <3>3, ReplyFormed, ErrorFormed, ReplyKeeps
      <3> QED BY <1>2, <3>1, <3>2, <3>3 DEF request_task
    <2> QED BY <1>r, <2>1, <2>2
  <1>3. CASE request_container
    <2>1. report' = report /\ gd_pc' \notin {"outer", "nested"}
      BY <1>3 DEF request_container, Goto, walk
    <2>2. Queued'
      <3>1. CASE queue' = queue
        BY <1>q, <3>1
      <3>2. CASE Reply(Cgroup)
        BY <1>q, <3>2, CgroupFormed, ReplyKeeps
      <3> QED BY <1>3, <3>1, <3>2 DEF request_container
    <2> QED BY <1>r, <2>1, <2>2
  <1>4. CASE receive
    <2>1. CASE overflow
      <3>1. queue' = queue /\ report' = report /\ gd_pc' \notin {"outer", "nested"}
        BY <1>4, <2>1 DEF receive, EndOfMessage, Goto
      <3> QED BY <1>q, <1>r, <3>1
    <2>2. CASE ~overflow
      <3> PICK messages : queue \in Seq(messages) /\ \A m \in messages : WellFormed(m)
        BY <1>q
      <3>1. /\ queue # <<>> /\ queue' = Tail(queue) /\ msg' = Head(queue)
            /\ len' = 0 /\ na' = 0 /\ report' = report /\ gd_pc' \in {"done", "outer"}
        BY <1>4, <2>2 DEF receive, Goto
      <3>2. queue' \in Seq(messages) /\ msg' \in messages
        BY <3>1
      <3>3. WellFormed(msg')
        BY <3>2
      <3>4. PICK starts \in SUBSET Nat : Formed(msg', starts)
        BY <3>3 DEF WellFormed
      <3>5. 0 \in starts
        BY <3>4 DEF Formed
      <3>6. InOuter'
        BY <3>1, <3>4, <3>5 DEF InOuter
      <3>7. Queued'
        BY <3>2
      <3> QED BY <3>1, <3>6, <3>7 DEF WalkInv
    <2> QED BY <2>1, <2>2
  <1>5. CASE walk_outer
    <2>1. /\ queue' = queue /\ report' = report /\ msg' = msg /\ rtid' = rtid
          /\ gd_pc = "outer"
      BY <1>5 DEF walk_outer, kernel
    <2>2. PICK starts \in SUBSET Nat :
            Formed(msg, starts) /\ na = len /\ len \in starts \cup {Len(msg)}
      BY <2>1 DEF WalkInv, InOuter
    <2>3. CASE ~(len < Len(msg))
      <3>1. gd_pc' \notin {"outer", "nested"}
        BY <1>5, <2>3 DEF walk_outer, EndOfMessage, Goto
      <3> QED BY <1>q, <1>r, <2>1, <3>1
    <2>4. CASE len < Len(msg)
      <3>1. len \in starts /\ len \in Nat /\ Len(msg) \in Nat
        BY <2>2, <2>4 DEF Formed
      <3>2. /\ msg[len + 1].length \in Nat
            /\ len + msg[len + 1].length \in starts \cup {Len(msg)}
            /\ msg[len + 1].type = "AGGR" => AggrAt(msg, len)
        BY <2>2, <3>1 DEF Formed
      <3>3. len' = len + msg[len + 1].length
        BY <1>5, <2>2, <2>4 DEF walk_outer, At
      <3>4. CASE msg[len + 1].type = "AGGR"
        <4>1. /\ aggr_len' = msg[len + 1].length - 1 /\ len2' = 0 /\ na' = len + 1
              /\ gd_pc' = "nested"
          BY <1>5, <2>2, <2>4, <3>4 DEF walk_outer, At, Goto
        <4>2. msg[len + 1].length = 6
          BY <3>2, <3>4 DEF AggrAt, Header
        <4>3. aggr_len' = 5 /\ len' = len + 6
          BY <3>3, <4>1, <4>2
        <4>4. InNested'
          BY <2>1, <2>2, <3>1, <3>2, <3>3, <3>4, <4>1, <4>3 DEF InNested
        <4> QED BY <1>q, <2>1, <4>1, <4>4 DEF WalkInv
      <3>5. CASE msg[len + 1].type # "AGGR"
        <4>1. na' = len' /\ gd_pc' = "outer"
          BY <1>5, <2>2, <2>4, <3>5 DEF walk_outer, At
        <4>2. InOuter'
          BY <2>1, <2>2, <3>2, <3>3, <4>1 DEF InOuter
        <4> QED BY <1>q, <2>1, <4>1, <4>2 DEF WalkInv
      <3> QED BY <3>4, <3>5
    <2> QED BY <2>3, <2>4
  <1>6. CASE walk_nested
    <2>1. /\ queue' = queue /\ msg' = msg /\ len' = len /\ aggr_len' = aggr_len
          /\ gd_pc = "nested"
      BY <1>6 DEF walk_nested, kernel
    <2>2. PICK starts \in SUBSET Nat : \E b \in starts :
            /\ Formed(msg, starts) /\ AggrAt(msg, b)
            /\ len = b + 6 /\ len \in starts \cup {Len(msg)} /\ aggr_len = 5
            /\ \/ len2 = 0 /\ na = b + 1
               \/ len2 = 2 /\ na = b + 3 /\ rtid = msg[b + 1].of
               \/ len2 = 5
      BY <2>1 DEF WalkInv, InNested
    <2>3. PICK b \in starts :
            /\ Formed(msg, starts) /\ AggrAt(msg, b)
            /\ len = b + 6 /\ len \in starts \cup {Len(msg)} /\ aggr_len = 5
            /\ \/ len2 = 0 /\ na = b + 1
               \/ len2 = 2 /\ na = b + 3 /\ rtid = msg[b + 1].of
               \/ len2 = 5
      BY <2>2
    <2>4. b \in Nat
      OBVIOUS
    <2>5. CASE len2 = 5
      <3>1. na' = len /\ gd_pc' = "outer" /\ report' = report
        BY <1>6, <2>3, <2>5 DEF walk_nested, Goto
      <3>2. InOuter'
        BY <2>1, <2>3, <3>1 DEF InOuter
      <3> QED BY <1>q, <2>1, <3>1, <3>2 DEF WalkInv
    <2>6. CASE len2 = 0 /\ na = b + 1
      <3>1. At(na) = Header("PID", 2, msg[b + 1].of)
        BY <2>3, <2>4, <2>6 DEF At, AggrAt
      <3>2. At(na).type = "PID" /\ At(na).length = 2 /\ At(na).of = msg[b + 1].of
        BY <3>1 DEF Header
      <3>3. /\ rtid' = msg[b + 1].of /\ len2' = 2 /\ na' = b + 3
            /\ gd_pc' = "nested" /\ report' = report
        BY <1>6, <2>1, <2>3, <2>4, <2>6, <3>2 DEF walk_nested, advance
      <3>4. InNested'
        BY <2>1, <2>3, <3>3 DEF InNested
      <3> QED BY <1>q, <2>1, <3>3, <3>4 DEF WalkInv
    <2>7. CASE len2 = 2 /\ na = b + 3 /\ rtid = msg[b + 1].of
      <3>1. At(na) = Header("STATS", 3, msg[b + 1].of)
        <4>1. na + 1 = b + 4
          BY <2>4, <2>7
        <4> QED BY <2>3, <4>1 DEF At, AggrAt
      <3>2. At(na).type = "STATS" /\ At(na).length = 3 /\ At(na).of = msg[b + 1].of
        BY <3>1 DEF Header
      <3>3. report' = <<rtid, msg[b + 1].of>> /\ rtid' = rtid
        <4>1. ~(len2 >= aggr_len)
          BY <2>3, <2>7
        <4>2. report' = <<rtid, At(na).of>> /\ rtid' = rtid
          BY <1>6, <3>2, <4>1 DEF walk_nested
        <4> QED BY <3>2, <4>2
      <3>4. report'[1] = report'[2]
        BY <2>7, <3>3
      <3>5. \/ gd_pc' \in {"exit", "done"}
            \/ gd_pc' = "nested" /\ len2' = 5
        BY <1>6, <2>1, <2>3, <2>7, <3>2 DEF walk_nested, advance, Goto
      <3>6. gd_pc' = "nested" => InNested'
        BY <2>1, <2>3, <3>5 DEF InNested
      <3> QED BY <1>q, <2>1, <3>4, <3>5, <3>6 DEF WalkInv
    <2> QED BY <2>3, <2>5, <2>6, <2>7
  <1>7. CASE ChildExit
    <2>1. Queued'
      <3>1. CASE queue' = queue
        BY <1>q, <3>1
      <3>2. CASE Reply(Aggr(Child))
        BY <1>q, <3>2, AggrFormed, ReplyKeeps
      <3> QED BY <1>7, <3>1, <3>2 DEF ChildExit
    <2> QED BY <1>7, <1>s, <2>1 DEF ChildExit, walk
  <1>8. ASSUME NEW t \in Tasks, TaskExit(t) PROVE WalkInv'
    <2>1. Queued'
      <3>1. CASE queue' = queue
        BY <1>q, <3>1
      <3>2. CASE Reply(Aggr(t))
        BY <1>q, <3>2, AggrFormed, ReplyKeeps
      <3>3. CASE Reply(Pad \o Aggr(t) \o Pad \o Aggr(t))
        BY <1>q, <3>3, ExitFormed, ReplyKeeps
      <3> QED BY <1>8, <3>1, <3>2, <3>3 DEF TaskExit
    <2> QED BY <1>8, <1>s, <2>1 DEF TaskExit, walk
  <1>9. CASE UNCHANGED gd_vars
    BY <1>9, <1>q, <1>s DEF gd_vars
  <1> QED
    BY <1>1, <1>2, <1>3, <1>4, <1>5, <1>6, <1>7, <1>8, <1>9 DEF GdNext, Main

(* The walk over the attributes stays on attribute headers, for any number *)
(* of tasks and messages and any size of the queue.                        *)
THEOREM WalkAlignedAlways == GdSpec => []WalkAligned
  <1>1. WalkInv => WalkAligned
    <2> SUFFICES ASSUME WalkInv PROVE WalkAligned
      OBVIOUS
    <2>1. report[1] = report[2]
      BY DEF WalkInv
    <2>2. ASSUME gd_pc = "outer", len < Len(msg) PROVE na < Len(msg) /\ At(na) # Data
      <3>1. PICK starts \in SUBSET Nat :
              Formed(msg, starts) /\ na = len /\ len \in starts \cup {Len(msg)}
        BY <2>2 DEF WalkInv, InOuter
      <3>2. len \in starts
        BY <2>2, <3>1 DEF Formed
      <3>3. msg[len + 1].type # "data"
        BY <3>1, <3>2 DEF Formed
      <3> QED BY <2>2, <3>1, <3>3 DEF At, Data, Header
    <2>3. ASSUME gd_pc = "nested", len2 < aggr_len PROVE na < Len(msg) /\ At(na) # Data
      <3>1. PICK starts \in SUBSET Nat : \E b \in starts :
              /\ Formed(msg, starts) /\ AggrAt(msg, b) /\ aggr_len = 5
              /\ \/ len2 = 0 /\ na = b + 1
                 \/ len2 = 2 /\ na = b + 3
                 \/ len2 = 5
        BY <2>3 DEF WalkInv, InNested
      <3>2. PICK b \in starts :
              /\ Formed(msg, starts) /\ AggrAt(msg, b) /\ aggr_len = 5
              /\ \/ len2 = 0 /\ na = b + 1
                 \/ len2 = 2 /\ na = b + 3
                 \/ len2 = 5
        BY <3>1
      <3>3. b \in Nat /\ Len(msg) \in Nat /\ b + 6 <= Len(msg)
        BY <3>2 DEF Formed, AggrAt
      <3>4. CASE len2 = 0 /\ na = b + 1
        BY <3>2, <3>3, <3>4 DEF AggrAt, At, Data, Header
      <3>5. CASE len2 = 2 /\ na = b + 3
        <4>1. na + 1 = b + 4
          BY <3>3, <3>5
        <4> QED BY <3>2, <3>3, <3>5, <4>1 DEF AggrAt, At, Data, Header
      <3> QED BY <2>3, <3>2, <3>4, <3>5
    <2> QED BY <2>1, <2>2, <2>3 DEF WalkAligned
  <1> QED
    BY <1>1, WalkInit_Inv, WalkNext_Inv, PTL DEF GdSpec
=============================================================================
