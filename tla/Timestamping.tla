----------------------------- MODULE Timestamping -----------------------------
(***************************************************************************)
(* timestamping.c: configures a socket for the timestamping options of the *)
(* command line, then sends a packet every five seconds and in between     *)
(* reads packets and transmit timestamps.  The clock, the network and the  *)
(* interface's driver are external; the clock counts half seconds, so that *)
(* the loop can run between two full seconds.                              *)
(***************************************************************************)
EXTENDS Integers, Sequences

CONSTANTS
  MaxClock,    \* bound on the clock
  MaxRx        \* packets the socket's receive queue holds

ASSUME TimestampingConstants == MaxClock \in Nat /\ MaxRx \in Nat

VARIABLES
  ts_pc, setup,        \* step of main; calls of the setup still to be made
  opts,                \* timestamping options of the command line
  clock, next,         \* half seconds; tv_sec of the next packet
  rx, txstamps         \* received packets, stamps in the error queue

ts_vars == <<ts_pc, setup, opts, clock, next, rx, txstamps>>

SetupCalls == <<"socket", "SIOCGIFADDR", "SIOCSHWTSTAMP", "bind", "IP_MULTICAST_IF",
                "IP_ADD_MEMBERSHIP", "IP_MULTICAST_LOOP", "SO_TIMESTAMP",
                "SO_TIMESTAMPNS", "SO_TIMESTAMPING", "IP_PKTINFO">>

(* "HARDWARE" stands for the two flags that ask the interface for stamps.  *)
Opts == SUBSET {"SO_TIMESTAMP", "SO_TIMESTAMPNS", "SO_TIMESTAMPING", "HARDWARE"}

TsInit ==
  /\ ts_pc = "setup" /\ setup = SetupCalls
  /\ opts \in {o \in Opts : "HARDWARE" \in o => "SO_TIMESTAMPING" \in o}
  /\ clock \in 0 .. 10 /\ next = 0
  /\ rx = 0 /\ txstamps = 0

(* The first packet is due at the last multiple of five not after the      *)
(* coming second.                                                          *)
first_slot == (((clock \div 2) + 1) \div 5) * 5

Setup ==
  /\ ts_pc = "setup"
  /\ IF setup # <<>>
     THEN setup' = Tail(setup) /\ UNCHANGED <<ts_pc, next>>
     ELSE /\ ts_pc' = "loop" /\ next' = first_slot
          /\ UNCHANGED setup
  /\ UNCHANGED <<opts, clock, rx, txstamps>>

(* A failing call ends the program, except IP_PKTINFO, and SIOCSHWTSTAMP   *)
(* that cannot disable what was not asked for.  Options not given are not  *)
(* set.                                                                    *)
Tolerated(call, errno) ==
  \/ call = "IP_PKTINFO"
  \/ call = "SIOCSHWTSTAMP" /\ errno \in {"EINVAL", "ENOTSUP"} /\ "HARDWARE" \notin opts

Made(call) == call \in {"SO_TIMESTAMP", "SO_TIMESTAMPNS", "SO_TIMESTAMPING"} => call \in opts

Bail(errno) ==
  /\ ts_pc = "setup" /\ setup # <<>>
  /\ Made(Head(setup)) /\ ~Tolerated(Head(setup), errno)
  /\ ts_pc' = "bail"
  /\ UNCHANGED <<setup, opts, clock, next, rx, txstamps>>

(* sendpacket: a sendto that fails is only reported.  The stack queues a   *)
(* timestamp of a packet that was sent if it was asked for them.           *)
sendpacket ==
  txstamps' \in {txstamps} \cup {n \in {txstamps + 1} : "SO_TIMESTAMPING" \in opts}

(* One iteration: wait in select, or send and move the slot.               *)
Iterate ==
  /\ ts_pc = "loop"
  /\ IF 2 * next > clock
     THEN ts_pc' = "select" /\ UNCHANGED <<next, txstamps>>
     ELSE sendpacket /\ next' = next + 5 /\ UNCHANGED ts_pc
  /\ UNCHANGED <<setup, opts, clock, rx>>

Ready == rx > 0 \/ txstamps > 0
recvpacket(q) == IF q > 0 THEN q - 1 ELSE 0

(* Mutant: the error queue is read only when there is no packet.           *)
Select_either ==
  /\ ts_pc = "select"
  /\ Ready \/ 2 * next <= clock
  /\ rx' = recvpacket(rx)
  /\ txstamps' = IF rx > 0 THEN txstamps ELSE recvpacket(txstamps)
  /\ ts_pc' = "loop"
  /\ UNCHANGED <<setup, opts, clock, next>>

(* select ends at the timeout or with data; with data one packet and one   *)
(* entry of the error queue are read, without blocking.                    *)
Select ==
  /\ ts_pc = "select"
  /\ Ready \/ 2 * next <= clock
  /\ rx' = recvpacket(rx) /\ txstamps' = recvpacket(txstamps)
  /\ ts_pc' = "loop"
  /\ UNCHANGED <<setup, opts, clock, next>>

Receive ==
  /\ ts_pc \in {"loop", "select"} /\ rx < MaxRx /\ rx' = rx + 1
  /\ UNCHANGED <<ts_pc, setup, opts, clock, next, txstamps>>

(* Time passes, also while the program does not run.                       *)
HalfSecond ==
  /\ ts_pc # "bail" /\ clock < MaxClock /\ clock' = clock + 1
  /\ UNCHANGED <<ts_pc, setup, opts, next, rx, txstamps>>

TsNext ==
  \/ \E errno \in {"EINVAL", "ENOTSUP", "other"} : Bail(errno)
  \/ Setup \/ Iterate \/ Select \/ Receive \/ HalfSecond

TsSpec == TsInit /\ [][TsNext]_ts_vars
-----------------------------------------------------------------------------
(* The loop sends before it reads and reads one entry of the error queue   *)
(* for each packet: the transmit timestamps are all read all the same,     *)
(* also when the program was held up, sends several packets in a row, and  *)
(* packets never stop coming in.                                           *)
StampsRead == txstamps > 0 ~> txstamps = 0
=============================================================================
