----------------------------- MODULE TxTimestamp -----------------------------
(***************************************************************************)
(* txtimestamp.c: for each address family and each set of timestamping     *)
(* flags it sends packets one at a time and, after each, prints what the   *)
(* socket's error queue holds.  The network stack is external: it queues   *)
(* the timestamps of a packet in the order ENQ, SND, ACK, and those of one *)
(* kind in the order of the packets.                                       *)
(***************************************************************************)
EXTENDS Naturals, Sequences

CONSTANTS
  NumPkts,    \* cfg_num_pkts
  TxFaults    \* calls that may fail: "connect", "send", "recvmsg"

TxFaultKinds == {"connect", "send", "recvmsg"}

ASSUME TxConstants == NumPkts \in Nat \ {0} /\ TxFaults \subseteq TxFaultKinds

VARIABLES
  cfg,        \* protocol, do_ipv4 and do_ipv6, families of the addresses
  late,       \* timestamps may take longer than the program waits
  tx_pc,
  runs,       \* the calls of do_test still to be made: <<family, flags>>
  pkt,        \* i: packets sent
  pending,    \* timestamps the stack has not queued yet
  errq,       \* the error queue
  printed     \* timestamps printed since the packet's USR line

tx_vars == <<cfg, late, tx_pc, runs, pkt, pending, errq, printed>>

Kinds == <<"ENQ", "SND", "ACK">>
Configs == [proto : {"TCP", "UDP", "RAW"}, ipv4 : BOOLEAN, ipv6 : BOOLEAN,
            addrs : {<<"inet">>, <<"inet6">>, <<"inet", "inet6">>, <<"inet6", "inet">>}]

(* resolve_hostname stops at the first address of either family.           *)
resolve_hostname(c, family) == Head(c.addrs) = family

TxInit ==
  /\ cfg \in {c \in Configs : c.ipv4 \/ c.ipv6}     \* parse_opt
  /\ late \in BOOLEAN
  /\ tx_pc = "main" /\ runs = <<>> /\ pkt = 0
  /\ pending = {} /\ errq = <<>> /\ printed = <<>>

do_main(family) ==
  [i \in 1 .. (IF cfg.proto = "TCP" THEN 6 ELSE 3) |->
     <<family, <<{"SND"}, {"ENQ"}, {"ENQ", "SND"}, {"ACK"}, {"SND", "ACK"},
                 {"ENQ", "SND", "ACK"}>>[i]>>]

main ==
  /\ tx_pc = "main"
  /\ runs' = (IF cfg.ipv4 /\ resolve_hostname(cfg, "inet") THEN do_main("inet") ELSE <<>>)
             \o (IF cfg.ipv6 /\ resolve_hostname(cfg, "inet6") THEN do_main("inet6") ELSE <<>>)
  /\ tx_pc' = "socket"
  /\ UNCHANGED <<cfg, late, pkt, pending, errq, printed>>

flags == Head(runs)[2]

(* do_test up to the loop: a socket of its own for every set of flags.     *)
(* The test that skips datagrams over IPv6 compares the family with        *)
(* IPPROTO_IPV6, which is not the family PF_INET6, and so skips nothing.   *)
OpenSocket ==
  /\ tx_pc = "socket"
  /\ IF runs = <<>> THEN tx_pc' = "exit"
     ELSE tx_pc' = "send" \/ ("connect" \in TxFaults /\ tx_pc' = "error")
  /\ pkt' = 0 /\ pending' = {} /\ errq' = <<>> /\ printed' = <<>>
  /\ UNCHANGED <<cfg, late, runs>>

Send ==
  /\ tx_pc = "send"
  /\ IF pkt = NumPkts
     THEN /\ tx_pc' = "socket" /\ runs' = Tail(runs)
          /\ UNCHANGED <<pkt, pending, printed>>
     ELSE /\ \/ tx_pc' = "usleep"
             \/ "send" \in TxFaults /\ tx_pc' = "error"
          /\ pkt' = pkt + 1 /\ printed' = <<>>
          /\ pending' = pending \cup {<<pkt + 1, k>> : k \in flags}
          /\ UNCHANGED runs
  /\ UNCHANGED <<cfg, late, errq>>

(* Mutant: the program polls without having slept.                         *)
Usleep_not ==
  /\ tx_pc = "usleep"
  /\ tx_pc' = "poll"
  /\ UNCHANGED <<cfg, late, runs, pkt, pending, errq, printed>>

(* usleep(50 ms), in which the stack timestamps what is not late.          *)
Usleep ==
  /\ tx_pc = "usleep"
  /\ pending = {} \/ late
  /\ tx_pc' = "poll"
  /\ UNCHANGED <<cfg, late, runs, pkt, pending, errq, printed>>

(* __poll: returns when the queue holds something, fails after 100 ms.     *)
Poll ==
  /\ tx_pc = "poll"
  /\ tx_pc' = IF errq # <<>> THEN "recv" ELSE "error"
  /\ errq # <<>> \/ late
  /\ UNCHANGED <<cfg, late, runs, pkt, pending, errq, printed>>

(* recv_errmsg until EAGAIN.                                               *)
recv_errmsg ==
  /\ tx_pc = "recv"
  /\ \/ /\ errq # <<>> /\ printed' = Append(printed, Head(errq))
        /\ errq' = Tail(errq) /\ UNCHANGED tx_pc
     \/ errq = <<>> /\ tx_pc' = "send" /\ UNCHANGED <<printed, errq>>
     \/ "recvmsg" \in TxFaults /\ tx_pc' = "error" /\ UNCHANGED <<printed, errq>>
  /\ UNCHANGED <<cfg, late, runs, pkt, pending>>

Rank(k) == CHOOSE i \in 1..3 : Kinds[i] = k

(* The stack queues the next timestamp of a packet or of a kind.           *)
Stamp(s) ==
  /\ tx_pc \notin {"exit", "error"} /\ s \in pending
  /\ \A r \in pending :
       /\ r[1] = s[1] => Rank(s[2]) <= Rank(r[2])
       /\ r[2] = s[2] => s[1] <= r[1]
  /\ pending' = pending \ {s} /\ errq' = Append(errq, s)
  /\ UNCHANGED <<cfg, late, tx_pc, runs, pkt, printed>>

TxProgram == main \/ OpenSocket \/ Send \/ Usleep \/ Poll \/ recv_errmsg

TxNext == TxProgram \/ \E s \in pending : Stamp(s)

TxSpec == TxInit /\ [][TxNext]_tx_vars
-----------------------------------------------------------------------------
Elements(s) == {s[i] : i \in 1..Len(s)}

Increasing(s) == \A i, j \in 1..Len(s) : i < j => Rank(s[i][2]) < Rank(s[j][2])

(* While the stack is as fast as the program expects, the timestamps       *)
(* printed under a packet are that packet's, all that were asked for, each *)
(* once and in the order ENQ, SND, ACK: the wait before the poll keeps the *)
(* ACK of one packet from being printed, and its delay computed, under the *)
(* next.                                                                   *)
PrintedPerPacket ==
  ~late /\ tx_pc = "send" /\ pkt > 0 =>
    Elements(printed) = {<<pkt, k>> : k \in flags} /\ Increasing(printed)
=============================================================================
