------------------------------ MODULE Connector ------------------------------
(***************************************************************************)
(* The connector test module cn_test.c and the user program ucon.c: two    *)
(* callback ids registered and unregistered with the connector, a timer    *)
(* that sends a numbered message each second and re-arms itself, and the   *)
(* program that receives the messages or sends some of its own.  The       *)
(* connector's table of callbacks and the netlink socket are external: a   *)
(* message to a full socket is dropped and the next recv fails.            *)
(***************************************************************************)
EXTENDS Integers, Sequences

CONSTANTS
  RcvBuf,       \* messages the socket of ucon holds
  MaxCount,     \* bound: timer expiries of one load
  MaxLoads,     \* bound: loads of the module
  MaxSends      \* sends of ucon -s, 10 * 1000 in the code

ASSUME ConnectorBounds ==
  RcvBuf \in Nat /\ MaxCount \in Nat /\ MaxLoads \in Nat /\ MaxSends \in Nat

VARIABLES
  cn_pc,           \* step of cn_test_init, cn_test_fini
  val,             \* cn_test_id.val - 0x456
  callbacks,       \* vals with a callback
  stale,           \* a callback of a module that is gone is registered
  cn_timer,        \* "off", "armed", "running"
  counter, loads,  \* cn_test_timer_counter; loads of the module so far
  lost,            \* messages of this load that reached nobody
  ucon,            \* "off", "poll", "recv", "send", "closed"
  rcvq, overrun,   \* ucon's socket
  last,            \* the message ucon printed last
  sends            \* sends of ucon -s

cn_vars == <<cn_pc, val, callbacks, stale, cn_timer, counter, loads, lost,
             ucon, rcvq, overrun, last, sends>>
module_vars == <<cn_pc, val, callbacks, stale, cn_timer, counter, loads, lost>>
ucon_vars == <<ucon, rcvq, overrun, last, sends>>

None == [load |-> 0, seq |-> 0, lost |-> 0]

ConnectorInit ==
  /\ cn_pc = "out" /\ val = 0 /\ callbacks = {} /\ stale = FALSE
  /\ cn_timer = "off" /\ counter = 0 /\ loads = 0 /\ lost = 0
  /\ ucon = "off" /\ rcvq = <<>> /\ overrun = FALSE /\ last = None /\ sends = 0
-----------------------------------------------------------------------------
(* cn_test_init.  Loading sets the static data; an id that is registered   *)
(* already is refused, and any registration can fail for lack of memory.   *)
InitModule ==
  /\ cn_pc = "out" /\ loads < MaxLoads
  /\ loads' = loads + 1 /\ cn_pc' = "add_first"
  /\ val' = 0 /\ counter' = 0 /\ lost' = 0
  /\ UNCHANGED <<callbacks, stale, cn_timer, ucon_vars>>

AddFirst ==
  /\ cn_pc = "add_first"
  /\ \/ /\ val \notin callbacks
        /\ callbacks' = callbacks \cup {val}
        /\ val' = val + 1 /\ cn_pc' = "add_second"
     \/ cn_pc' = "out" /\ UNCHANGED <<val, callbacks>>
  /\ UNCHANGED <<stale, cn_timer, counter, loads, lost, ucon_vars>>

(* When the second registration fails, the id that is deleted is the one   *)
(* that was not registered; the first callback stays.                      *)
AddSecond ==
  /\ cn_pc = "add_second"
  /\ \/ /\ callbacks' = callbacks \cup {val}
        /\ cn_timer' = "armed" /\ cn_pc' = "loaded"
        /\ UNCHANGED stale
     \/ /\ callbacks' = callbacks \ {val}
        /\ cn_pc' = "out" /\ stale' = TRUE
        /\ UNCHANGED cn_timer
  /\ UNCHANGED <<val, counter, loads, lost, ucon_vars>>

(* Mutant: del_timer, which does not wait for a running handler.           *)
DelTimer_async ==
  /\ cn_pc = "del_timer"
  /\ cn_timer' = IF cn_timer = "running" THEN "running" ELSE "off"
  /\ cn_pc' = "del_second"
  /\ UNCHANGED <<val, callbacks, stale, counter, loads, lost, ucon_vars>>

(* cn_test_fini.  del_timer_sync waits for a running handler, and deletes  *)
(* the timer again when the handler armed it meanwhile.                    *)
FiniModule ==
  /\ cn_pc = "loaded"
  /\ cn_pc' = "del_timer"
  /\ UNCHANGED <<val, callbacks, stale, cn_timer, counter, loads, lost, ucon_vars>>

DelTimer ==
  /\ cn_pc = "del_timer" /\ cn_timer # "running"
  /\ cn_timer' = "off"
  /\ cn_pc' = "del_second"
  /\ UNCHANGED <<val, callbacks, stale, counter, loads, lost, ucon_vars>>

(* Mutant: the id is not set back to the first one.                        *)
DelSecond_same ==
  /\ cn_pc = "del_second"
  /\ callbacks' = callbacks \ {val}
  /\ cn_pc' = "del_first"
  /\ UNCHANGED <<val, stale, cn_timer, counter, loads, lost, ucon_vars>>

DelSecond ==
  /\ cn_pc = "del_second"
  /\ callbacks' = callbacks \ {val}
  /\ val' = val - 1 /\ cn_pc' = "del_first"
  /\ UNCHANGED <<stale, cn_timer, counter, loads, lost, ucon_vars>>

DelFirst ==
  /\ cn_pc = "del_first"
  /\ callbacks' = callbacks \ {val}
  /\ cn_pc' = "out"
  /\ UNCHANGED <<val, stale, cn_timer, counter, loads, lost, ucon_vars>>
-----------------------------------------------------------------------------
(* Mutant: the handler that sends nothing returns without counting.        *)
TimerSend_uncounted ==
  /\ cn_timer = "armed" /\ counter < MaxCount
  /\ \/ /\ ucon \in {"poll", "recv", "send"} /\ Len(rcvq) < RcvBuf
        /\ rcvq' = Append(rcvq, [load |-> loads, seq |-> counter, lost |-> lost])
        /\ cn_timer' = "running" /\ UNCHANGED <<lost, overrun>>
     \/ /\ ucon \in {"poll", "recv", "send"} /\ Len(rcvq) = RcvBuf
        /\ overrun' = TRUE /\ lost' = lost + 1 /\ UNCHANGED rcvq
        /\ cn_timer' = "running"
     \/ lost' = lost + 1 /\ UNCHANGED <<cn_timer, rcvq, overrun>>
  /\ UNCHANGED <<cn_pc, val, callbacks, stale, counter, loads, ucon, last, sends>>

(* cn_test_timer_func, up to the send: nothing is sent without memory; a   *)
(* message reaches an open socket with room, fills it over, or finds no    *)
(* listener.                                                               *)
TimerSend ==
  /\ cn_timer = "armed" /\ counter < MaxCount
  /\ cn_timer' = "running"
  /\ \/ /\ ucon \in {"poll", "recv", "send"} /\ Len(rcvq) < RcvBuf
        /\ rcvq' = Append(rcvq, [load |-> loads, seq |-> counter, lost |-> lost])
        /\ UNCHANGED <<lost, overrun>>
     \/ /\ ucon \in {"poll", "recv", "send"} /\ Len(rcvq) = RcvBuf
        /\ overrun' = TRUE /\ lost' = lost + 1 /\ UNCHANGED rcvq
     \/ lost' = lost + 1 /\ UNCHANGED <<rcvq, overrun>>   \* kzalloc, -ESRCH
  /\ UNCHANGED <<cn_pc, val, callbacks, stale, counter, loads, ucon, last, sends>>

TimerRearm ==
  /\ cn_timer = "running"
  /\ counter' = counter + 1
  /\ cn_timer' = "armed"
  /\ UNCHANGED <<cn_pc, val, callbacks, stale, loads, lost, ucon_vars>>
-----------------------------------------------------------------------------
(* ucon: open and bind, then receive, or with -s send and return.          *)
UconStart ==
  /\ ucon = "off"
  /\ ucon' \in {"poll", "send"}
  /\ UNCHANGED <<module_vars, rcvq, overrun, last, sends>>

(* poll waits without limit; a signal makes it start over.                 *)
UconPoll ==
  /\ ucon = "poll" /\ (rcvq # <<>> \/ overrun)
  /\ ucon' = "recv"
  /\ UNCHANGED <<module_vars, rcvq, overrun, last, sends>>

(* recv fails after an overrun and the program ends; otherwise the message *)
(* is printed.                                                             *)
UconRecv ==
  /\ ucon = "recv"
  /\ \/ overrun /\ ucon' = "closed" /\ rcvq' = <<>> /\ UNCHANGED last
     \/ /\ ~overrun
        /\ last' = Head(rcvq) /\ rcvq' = Tail(rcvq) /\ ucon' = "poll"
  /\ UNCHANGED <<module_vars, overrun, sends>>

(* A message for 0x456: the callback registered for it runs, and only      *)
(* prints.                                                                 *)
UconSend ==
  /\ ucon = "send"
  /\ IF sends < MaxSends THEN sends' = sends + 1 /\ UNCHANGED <<ucon, rcvq>>
     ELSE ucon' = "closed" /\ rcvq' = <<>> /\ UNCHANGED sends
  /\ UNCHANGED <<module_vars, overrun, last>>

ConnectorNext ==
  \/ InitModule \/ AddFirst \/ AddSecond
  \/ FiniModule \/ DelTimer \/ DelSecond \/ DelFirst
  \/ TimerSend \/ TimerRearm
  \/ UconStart \/ UconPoll \/ UconRecv \/ UconSend

ConnectorSpec == ConnectorInit /\ [][ConnectorNext]_cn_vars
-----------------------------------------------------------------------------
Message == [load : Nat, seq : Nat, lost : Nat]

(* The timer only runs in a loaded module whose two ids are registered:    *)
(* cn_test_fini stops a timer that re-arms itself before it takes the ids  *)
(* back, and del_timer_sync leaves no handler behind.                      *)
TimerInModule ==
  cn_timer # "off" => cn_pc \in {"loaded", "del_timer"} /\ callbacks = {0, 1}

(* A load that ends, by a failure or by unloading, leaves no callback that *)
(* would be called in a module that is gone, except after a failing second *)
(* registration, which leaves exactly the first one.                       *)
NoStaleCallback ==
  cn_pc = "out" => callbacks = (IF stale THEN {0} ELSE {})

(* The sequence number of cn_test_timer_func shows every loss: of two      *)
(* messages of one load that ucon prints one after the other, the numbers  *)
(* differ by one more than the messages lost in between.                   *)
GapIsLoss ==
  LET got == <<last>> \o rcvq
  IN \A i \in 1..(Len(got) - 1) :
       got[i].load = got[i + 1].load /\ got[i].load # 0 =>
         got[i + 1].seq - got[i].seq = 1 + got[i + 1].lost - got[i].lost
=============================================================================
