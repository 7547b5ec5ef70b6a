----------------------------- MODULE ClockProofs -----------------------------
(***************************************************************************)
(* Proofs about the programs that read clocks: testptp.c, which compares   *)
(* two clocks, and txtimestamp.c, which prints a packet's timestamps under *)
(* the packet.                                                             *)
(***************************************************************************)
EXTENDS TestPtp, TxTimestamp, TLAPS

-----------------------------------------------------------------------------
(* testptp.c.  While a sample is taken the offset of the clocks is fixed,  *)
(* and the readings are ordered by the time that passes between them.      *)
Sampling(n) == AtOp("pct_offset", n) /\ "pct_offset" \notin ptp_failed

PtpInv ==
  /\ step \in 1..4 /\ sys \in Int /\ phc \in Int /\ ts \in Int
  /\ t1 \in Int /\ tp \in Int /\ t2 \in Int
  /\ Sampling(2) => t1 <= sys
  /\ Sampling(3) => t1 <= tp + (sys - phc) /\ tp <= phc
  /\ Sampling(4) => t1 <= tp + (sys - phc) /\ tp + (sys - phc) <= t2 /\ t2 <= sys

LEMMA PtpInit_Inv == PtpInit => PtpInv
  BY PtpConstants DEF PtpInit, PtpInv, Sampling, AtOp

(* No operation but -k touches the samples.                                *)
LEMMA OtherOp ==
  ASSUME PtpInv, step' \in 1..4, sys' \in Int, phc' \in Int, ts' \in Int,
         t1' = t1, tp' = tp, t2' = t2,
         step' = 1 \/ (ops' = ops /\ (ops = <<>> \/ Head(ops) # "pct_offset"))
  PROVE  PtpInv'
  <1>1. ~AtOp("pct_offset", 2)' /\ ~AtOp("pct_offset", 3)' /\ ~AtOp("pct_offset", 4)'
    <2>1. CASE step' = 1
      BY <2>1 DEF AtOp
    <2>2. CASE ops' = ops /\ (ops = <<>> \/ Head(ops) # "pct_offset")
      BY <2>2 DEF AtOp
    <2> QED BY <2>1, <2>2
  <1> QED
    BY <1>1 DEF PtpInv, Sampling

LEMMA PtpNext_Inv == PtpInv /\ [PtpNext]_ptp_vars => PtpInv'
  <1> SUFFICES ASSUME PtpInv, [PtpNext]_ptp_vars PROVE PtpInv'
    OBVIOUS
  <1> USE PtpConstants DEF clocks, sample
  <1>t. /\ step \in 1..4 /\ sys \in Int /\ phc \in Int /\ ts \in Int
        /\ t1 \in Int /\ tp \in Int /\ t2 \in Int
    BY DEF PtpInv
  <1>1. CASE Open
    BY <1>t, <1>1, OtherOp DEF Open, NextOp, Return
  <1>2. CASE Query
    BY <1>t, <1>2, OtherOp DEF Query, NextOp
  <1>3. CASE adjtime
    BY <1>t, <1>3, OtherOp DEF adjtime, NextOp
  <1>4. CASE settime_get
    BY <1>t, <1>4, OtherOp DEF settime_get, NextStep, AtOp
  <1>5. CASE settime_set
    BY <1>t, <1>5, OtherOp DEF settime_set, NextOp
  <1>6. CASE extts_enable
    BY <1>t, <1>6, OtherOp DEF extts_enable, NextStep, AtOp
  <1>7. CASE extts_read
    BY <1>t, <1>7, OtherOp DEF extts_read, NextStep, AtOp
  <1>8. CASE extts_disable
    BY <1>t, <1>8, OtherOp DEF extts_disable, NextOp
  <1>9. CASE alarm_start
    BY <1>t, <1>9, OtherOp DEF alarm_start, NextStep, Return, AtOp
  <1>10. CASE pause_enter
    BY <1>t, <1>10, OtherOp DEF pause_enter, NextStep, AtOp
  <1>11. CASE pause_return
    BY <1>t, <1>11, OtherOp DEF pause_return, NextOp, AtOp
  <1>12. CASE Outputs
    BY <1>t, <1>12, OtherOp DEF Outputs, NextOp, Return
  <1>13. CASE SysOffset
    BY <1>13 DEF SysOffset, NextStep, PtpInv, Sampling, AtOp
  <1>14. CASE SysOffsetFails
    <2>1. CASE Return /\ UNCHANGED <<sample, ptp_failed>>
      BY <1>t, <1>14, <2>1, OtherOp DEF SysOffsetFails, Return
    <2>2. CASE step' = 4 /\ t1' = 0 /\ tp' = 0 /\ t2' = 0 /\ Fails("pct_offset")
      BY <1>14, <2>2 DEF SysOffsetFails, Fails, PtpInv, Sampling, AtOp
    <2> QED BY <1>14, <2>1, <2>2 DEF SysOffsetFails
  <1>15. CASE SampleDone
    BY <1>15 DEF SampleDone, NextOp, PtpInv, Sampling, AtOp
  <1>16. CASE Tick1
    BY <1>16 DEF Tick1, PtpInv, Sampling, AtOp
  <1>17. CASE Expire
    BY <1>17 DEF Expire, PtpInv, Sampling, AtOp
  <1>18. CASE UNCHANGED ptp_vars
    BY <1>18 DEF ptp_vars, PtpInv, Sampling, AtOp
  <1> QED
    BY <1>1, <1>2, <1>3, <1>4, <1>5, <1>6, <1>7, <1>8, <1>9, <1>10, <1>11, <1>12,
       <1>13, <1>14, <1>15, <1>16, <1>17, <1>18 DEF PtpNext

(* The middle of two readings is at most half their distance from any      *)
(* value between them, up to the rounding of the division.                 *)
LEMMA Midpoint ==
  \A x, y, z \in Int : x <= z /\ z <= y =>
    /\ 2 * ((y + x) \div 2 - z) <= y - x
    /\ 2 * (z - (y + x) \div 2) <= y - x + 1
  OBVIOUS

(* The offset printed is within half of the delay of the true one, for any *)
(* number of samples and any time between the readings.                    *)
THEOREM OffsetWithinDelayAlways == PtpSpec => []OffsetWithinDelay
  <1>1. PtpInv => OffsetWithinDelay
    <2> SUFFICES ASSUME PtpInv, Sampling(4)
                 PROVE  /\ 2 * (offset - (sys - phc)) <= interval
                        /\ 2 * ((sys - phc) - offset) <= interval + 1
      BY DEF OffsetWithinDelay, Sampling
    <2> DEFINE z == tp + (sys - phc)
    <2>1. z \in Int /\ t1 \in Int /\ t2 \in Int /\ tp \in Int /\ sys \in Int /\ phc \in Int
      BY DEF PtpInv
    <2>2. t1 <= z /\ z <= t2
      BY DEF PtpInv
    <2>3. (t2 + t1) \div 2 \in Int
      BY <2>1
    <2>4. /\ 2 * ((t2 + t1) \div 2 - z) <= t2 - t1
          /\ 2 * (z - (t2 + t1) \div 2) <= t2 - t1 + 1
      BY <2>1, <2>2, Midpoint
    <2> QED BY <2>1, <2>3, <2>4 DEF offset, interval
  <1> QED
    BY <1>1, PtpInit_Inv, PtpNext_Inv, PTL DEF PtpSpec

LEMMA ExttsOff_Next == ExttsOff /\ [PtpNext]_ptp_vars => ExttsOff'
  <1> SUFFICES ASSUME ExttsOff, [PtpNext]_ptp_vars, extts_on', "extts" \notin ptp_failed'
               PROVE  AtOp("extts", 2)' \/ AtOp("extts", 3)'
    BY DEF ExttsOff
  <1> USE DEF ExttsOff, AtOp
  <1>1. CASE extts_enable
    BY <1>1 DEF extts_enable, NextStep
  <1>2. CASE extts_read
    BY <1>2 DEF extts_read, NextStep
  <1>3. CASE extts_disable
    BY <1>3 DEF extts_disable, Fails
  <1>4. CASE Open \/ Query
    BY <1>4 DEF Open, Query
  <1>5. CASE adjtime \/ settime_get \/ settime_set
    BY <1>5 DEF adjtime, settime_get, settime_set
  <1>6. CASE alarm_start \/ pause_enter \/ pause_return
    BY <1>6 DEF alarm_start, pause_enter, pause_return
  <1>7. CASE Outputs
    BY <1>7 DEF Outputs
  <1>8. CASE SysOffset \/ SysOffsetFails \/ SampleDone
    BY <1>8 DEF SysOffset, SysOffsetFails, SampleDone, Fails
  <1>9. CASE Tick1 \/ Expire \/ UNCHANGED ptp_vars
    BY <1>9 DEF Tick1, Expire, ptp_vars
  <1> QED
    BY <1>1, <1>2, <1>3, <1>4, <1>5, <1>6, <1>7, <1>8, <1>9 DEF PtpNext

(* Event timestamps are off again after -e, whatever fails in it but the   *)
(* request that turns them off.                                            *)
THEOREM ExttsOffAlways == PtpSpec => []ExttsOff
  <1>1. PtpInit => ExttsOff
    BY Zenon DEF PtpInit, ExttsOff
  <1> QED
    BY <1>1, ExttsOff_Next, PTL DEF PtpSpec

-----------------------------------------------------------------------------
(* txtimestamp.c.  From the moment a packet is sent until its timestamps   *)
(* are printed, what was asked for is split between the list printed, the  *)
(* error queue and the stack, in this order of rank.                       *)
KindSet == {"ENQ", "SND", "ACK"}
Stamps == Nat \X KindSet
Asked == {<<pkt, k>> : k \in flags}
Below(S, T) == \A a \in S, b \in T : Rank(a[2]) < Rank(b[2])

TxTyped ==
  /\ cfg \in Configs /\ late \in BOOLEAN
  /\ tx_pc \in {"main", "socket", "send", "usleep", "poll", "recv", "exit", "error"}
  /\ runs \in Seq({"inet", "inet6"} \X SUBSET KindSet)
  /\ tx_pc \in {"send", "usleep", "poll", "recv"} => runs # <<>>
  /\ pkt \in Nat /\ pending \subseteq Stamps
  /\ errq \in Seq(Stamps) /\ printed \in Seq(Stamps)

Split ==
  /\ Elements(printed) \cup Elements(errq) \cup pending = Asked
  /\ Increasing(printed) /\ Increasing(errq)
  /\ Below(Elements(printed), Elements(errq))
  /\ Below(Elements(printed) \cup Elements(errq), pending)

TxInv ==
  /\ TxTyped
  /\ ~late /\ tx_pc = "send" => pending = {} /\ errq = <<>>
  /\ ~late /\ tx_pc \in {"usleep", "poll", "recv"} => Split
  /\ ~late /\ tx_pc \in {"poll", "recv"} => pending = {}
  /\ PrintedPerPacket

LEMMA RankIs == Rank("ENQ") = 1 /\ Rank("SND") = 2 /\ Rank("ACK") = 3
  <1>1. Kinds[1] = "ENQ" /\ Kinds[2] = "SND" /\ Kinds[3] = "ACK"
    BY DEF Kinds
  <1>2. \A i \in 1..3 : i = 1 \/ i = 2 \/ i = 3
    OBVIOUS
  <1>3. \A i \in 1..3 : Kinds[i] = "ENQ" <=> i = 1
    BY <1>1, <1>2
  <1>4. \A i \in 1..3 : Kinds[i] = "SND" <=> i = 2
    BY <1>1, <1>2
  <1>5. \A i \in 1..3 : Kinds[i] = "ACK" <=> i = 3
    BY <1>1, <1>2
  <1>6. Rank("ENQ") = 1
    BY <1>3 DEF Rank
  <1>7. Rank("SND") = 2
    BY <1>4 DEF Rank
  <1>8. Rank("ACK") = 3
    BY <1>5 DEF Rank
  <1> QED BY <1>6, <1>7, <1>8

LEMMA RankOrders ==
  /\ \A k \in KindSet : Rank(k) \in Nat
  /\ \A k, l \in KindSet : Rank(k) = Rank(l) => k = l
  BY RankIs DEF KindSet

LEMMA ElementsEmpty == Elements(<<>>) = {} /\ Increasing(<<>>)
  BY DEF Elements, Increasing

LEMMA AppendAbove ==
  ASSUME NEW s \in Seq(Stamps), NEW e \in Stamps
  PROVE  /\ Append(s, e) \in Seq(Stamps)
         /\ Elements(Append(s, e)) = Elements(s) \cup {e}
         /\ Increasing(s) /\ Below(Elements(s), {e}) => Increasing(Append(s, e))
  <1>1. Append(s, e) \in Seq(Stamps) /\ Len(Append(s, e)) = Len(s) + 1
    OBVIOUS
  <1>2. \A i \in 1..Len(s) : Append(s, e)[i] = s[i]
    OBVIOUS
  <1>3. Append(s, e)[Len(s) + 1] = e
    OBVIOUS
  <1>4. Len(s) \in Nat
    OBVIOUS
  <1>5. Elements(Append(s, e)) = Elements(s) \cup {e}
    <2>1. ASSUME NEW x \in Elements(Append(s, e)) PROVE x \in Elements(s) \cup {e}
      <3>1. PICK i \in 1..(Len(s) + 1) : x = Append(s, e)[i]
        BY <2>1, <1>1 DEF Elements
      <3>2. i \in 1..Len(s) \/ i = Len(s) + 1
        BY <3>1, <1>4
      <3> QED BY <3>1, <3>2, <1>2, <1>3 DEF Elements
    <2>2. ASSUME NEW x \in Elements(s) PROVE x \in Elements(Append(s, e))
      <3>1. PICK i \in 1..Len(s) : x = s[i]
        BY <2>2 DEF Elements
      <3>2. i \in 1..(Len(s) + 1) /\ x = Append(s, e)[i]
        BY <3>1, <1>2, <1>4
      <3> QED BY <3>2, <1>1 DEF Elements
    <2>3. e \in Elements(Append(s, e))
      <3>1. Len(s) + 1 \in 1..(Len(s) + 1)
        BY <1>4
      <3> QED BY <3>1, <1>1, <1>3 DEF Elements
    <2> QED BY <2>1, <2>2, <2>3
  <1>6. ASSUME Increasing(s), Below(Elements(s), {e}) PROVE Increasing(Append(s, e))
    <2>1. SUFFICES ASSUME NEW i \in 1..(Len(s) + 1), NEW j \in 1..(Len(s) + 1), i < j
                   PROVE  Rank(Append(s, e)[i][2]) < Rank(Append(s, e)[j][2])
      BY <1>1 DEF Increasing
    <2>2. i \in 1..Len(s) /\ Append(s, e)[i] = s[i]
      BY <2>1, <1>2, <1>4
    <2>3. CASE j \in 1..Len(s)
      BY <1>2, <1>6, <2>1, <2>2, <2>3 DEF Increasing
    <2>4. CASE j = Len(s) + 1
      <3>1. s[i] \in Elements(s)
        BY <2>2 DEF Elements
      <3> QED BY <1>3, <1>6, <2>2, <2>4, <3>1 DEF Below
    <2> QED BY <2>3, <2>4, <1>4
  <1> QED BY <1>1, <1>5, <1>6

LEMMA HeadBelow ==
  ASSUME NEW s \in Seq(Stamps), s # <<>>
  PROVE  /\ Head(s) \in Stamps /\ Tail(s) \in Seq(Stamps)
         /\ Elements(s) = {Head(s)} \cup Elements(Tail(s))
         /\ Increasing(s) => Increasing(Tail(s)) /\ Below({Head(s)}, Elements(Tail(s)))
  <1>1. Head(s) \in Stamps /\ Tail(s) \in Seq(Stamps) /\ Len(Tail(s)) = Len(s) - 1
    OBVIOUS
  <1>2. Head(s) = s[1] /\ Len(s) \in Nat \ {0}
    OBVIOUS
  <1>3. \A i \in 1..(Len(s) - 1) : Tail(s)[i] = s[i + 1]
    OBVIOUS
  <1>4. Elements(s) = {Head(s)} \cup Elements(Tail(s))
    <2>1. ASSUME NEW x \in Elements(s) PROVE x \in {Head(s)} \cup Elements(Tail(s))
      <3>1. PICK i \in 1..Len(s) : x = s[i]
        BY <2>1 DEF Elements
      <3>2. CASE i = 1
        BY <3>1, <3>2, <1>2
      <3>3. CASE i # 1
        <4>1. i - 1 \in 1..(Len(s) - 1) /\ (i - 1) + 1 = i
          BY <3>3, <1>2
        <4>2. x = Tail(s)[i - 1]
          BY <3>1, <4>1, <1>3
        <4> QED BY <4>1, <4>2, <1>1 DEF Elements
      <3> QED BY <3>2, <3>3
    <2>2. Head(s) \in Elements(s)
      <3>1. 1 \in 1..Len(s)
        BY <1>2
      <3> QED BY <3>1, <1>2 DEF Elements
    <2>3. ASSUME NEW x \in Elements(Tail(s)) PROVE x \in Elements(s)
      <3>1. PICK i \in 1..(Len(s) - 1) : x = Tail(s)[i]
        BY <2>3, <1>1 DEF Elements
      <3>2. i + 1 \in 1..Len(s) /\ x = s[i + 1]
        BY <3>1, <1>2, <1>3
      <3> QED BY <3>2 DEF Elements
    <2> QED BY <2>1, <2>2, <2>3
  <1>5. ASSUME Increasing(s) PROVE Increasing(Tail(s))
    <2>1. SUFFICES ASSUME NEW i \in 1..(Len(s) - 1), NEW j \in 1..(Len(s) - 1), i < j
                   PROVE  Rank(Tail(s)[i][2]) < Rank(Tail(s)[j][2])
      BY <1>1 DEF Increasing
    <2>2. i + 1 \in 1..Len(s) /\ j + 1 \in 1..Len(s) /\ i + 1 < j + 1
      BY <1>2, <2>1
    <2>3. Rank(s[i + 1][2]) < Rank(s[j + 1][2])
      BY <1>5, <2>2 DEF Increasing
    <2> QED BY <2>3, <1>3
  <1>6. ASSUME Increasing(s) PROVE Below({Head(s)}, Elements(Tail(s)))
    <2>1. SUFFICES ASSUME NEW x \in Elements(Tail(s)) PROVE Rank(s[1][2]) < Rank(x[2])
      BY <1>2 DEF Below
    <2>2. PICK i \in 1..(Len(s) - 1) : x = Tail(s)[i]
      BY <2>1, <1>1 DEF Elements
    <2>3. 1 \in 1..Len(s) /\ i + 1 \in 1..Len(s) /\ 1 < i + 1
      BY <1>2
    <2>4. Rank(s[1][2]) < Rank(s[i + 1][2])
      BY <1>6, <2>3 DEF Increasing
    <2> QED BY <2>2, <2>4, <1>3
  <1> QED BY <1>1, <1>4, <1>5, <1>6

LEMMA TxInit_Inv == TxInit => TxInv
  BY DEF TxInit, TxInv, TxTyped, PrintedPerPacket, Configs, Stamps

LEMMA DoMainTyped ==
  ASSUME NEW family \in {"inet", "inet6"}
  PROVE  do_main(family) \in Seq({"inet", "inet6"} \X SUBSET KindSet)
  <1> DEFINE all == <<{"SND"}, {"ENQ"}, {"ENQ", "SND"}, {"ACK"}, {"SND", "ACK"},
                      {"ENQ", "SND", "ACK"}>>
             n == IF cfg.proto = "TCP" THEN 6 ELSE 3
  <1>1. \A i \in 1..6 : all[i] \in SUBSET KindSet
    <2>1. \A i \in 1..6 : i = 1 \/ i = 2 \/ i = 3 \/ i = 4 \/ i = 5 \/ i = 6
      OBVIOUS
    <2> QED BY <2>1 DEF KindSet
  <1>2. n \in Nat /\ n <= 6
    OBVIOUS
  <1>3. \A i \in 1..n : i \in 1..6
    BY <1>2
  <1> HIDE DEF n, all
  <1>4. [i \in 1..n |-> <<family, all[i]>>] \in Seq({"inet", "inet6"} \X SUBSET KindSet)
    BY <1>1, <1>2, <1>3
  <1> QED BY <1>4 DEF do_main, n, all

(* The program's steps, and the stack's.                                   *)
LEMMA TxTyped_Next == TxTyped /\ [TxNext]_tx_vars => TxTyped'
  <1> SUFFICES ASSUME TxTyped, [TxNext]_tx_vars PROVE TxTyped'
    OBVIOUS
  <1>1. CASE main
    <2> DEFINE a == IF cfg.ipv4 /\ resolve_hostname(cfg, "inet") THEN do_main("inet") ELSE <<>>
               b == IF cfg.ipv6 /\ resolve_hostname(cfg, "inet6") THEN do_main("inet6") ELSE <<>>
               R == {"inet", "inet6"} \X SUBSET KindSet
    <2>1. a \in Seq(R) /\ b \in Seq(R)
      <3>1. do_main("inet") \in Seq(R) /\ do_main("inet6") \in Seq(R)
        BY DoMainTyped
      <3> HIDE DEF R
      <3>2. <<>> \in Seq(R)
        OBVIOUS
      <3> QED BY <3>1, <3>2
    <2>2. runs' = a \o b
      BY <1>1 DEF main
    <2> HIDE DEF a, b, R
    <2>3. runs' \in Seq(R)
      BY <2>1, <2>2
    <2> QED BY <1>1, <2>3 DEF main, TxTyped, R
  <1>2. CASE OpenSocket
    BY <1>2 DEF OpenSocket, TxTyped
  <1>3. CASE Send
    <2>1. runs \in Seq({"inet", "inet6"} \X SUBSET KindSet) /\ runs # <<>>
      BY <1>3 DEF Send, TxTyped
    <2>2. flags \subseteq KindSet
      <3>1. Head(runs) \in {"inet", "inet6"} \X SUBSET KindSet
        BY <2>1
      <3> QED BY <3>1 DEF flags
    <2>3. {<<pkt + 1, k>> : k \in flags} \subseteq Stamps
      BY <2>2 DEF Stamps, TxTyped
    <2>4. Tail(runs) \in Seq({"inet", "inet6"} \X SUBSET KindSet)
      BY <2>1
    <2>5. <<>> \in Seq(Stamps)
      OBVIOUS
    <2>6. CASE pkt = NumPkts
      BY <1>3, <2>4, <2>6 DEF Send, TxTyped
    <2>7. CASE pkt # NumPkts
      <3>1. pending' \subseteq Stamps
        BY <1>3, <2>3, <2>7 DEF Send, TxTyped
      <3>2. pkt' \in Nat /\ printed' \in Seq(Stamps)
        BY <1>3, <2>5, <2>7 DEF Send, TxTyped
      <3> QED BY <1>3, <2>7, <3>1, <3>2 DEF Send, TxTyped
    <2> QED BY <2>6, <2>7
  <1>4. CASE Usleep
    BY <1>4 DEF Usleep, TxTyped
  <1>5. CASE Poll
    BY <1>5 DEF Poll, TxTyped
  <1>6. CASE recv_errmsg
    <2>1. CASE errq # <<>> /\ printed' = Append(printed, Head(errq)) /\ errq' = Tail(errq)
      <3>1. Head(errq) \in Stamps /\ Tail(errq) \in Seq(Stamps)
        BY <2>1, HeadBelow DEF TxTyped
      <3>2. Append(printed, Head(errq)) \in Seq(Stamps)
        BY <3>1, AppendAbove DEF TxTyped
      <3> QED BY <1>6, <2>1, <3>1, <3>2 DEF recv_errmsg, TxTyped
    <2>2. CASE UNCHANGED <<printed, errq>>
      BY <1>6, <2>2 DEF recv_errmsg, TxTyped
    <2> QED BY <1>6, <2>1, <2>2 DEF recv_errmsg
  <1>7. ASSUME NEW s \in pending, Stamp(s) PROVE TxTyped'
    <2>1. Append(errq, s) \in Seq(Stamps)
      BY AppendAbove DEF TxTyped
    <2> QED BY <1>7, <2>1 DEF Stamp, TxTyped
  <1>8. CASE UNCHANGED tx_vars
    BY <1>8 DEF tx_vars, TxTyped
  <1> QED
    BY <1>1, <1>2, <1>3, <1>4, <1>5, <1>6, <1>7, <1>8 DEF TxNext, TxProgram

LEMMA Split_Read ==
  ASSUME TxTyped, Split, pending = {}, errq # <<>>,
         printed' = Append(printed, Head(errq)), errq' = Tail(errq),
         UNCHANGED <<runs, pkt, pending>>
  PROVE  Split'
  <1> DEFINE h == Head(errq)
             P == Elements(printed)
             E == Elements(Tail(errq))
  <1>1. h \in Stamps /\ Elements(errq) = {h} \cup E
        /\ Increasing(Tail(errq)) /\ Below({h}, E)
    BY HeadBelow DEF TxTyped, Split
  <1>2. Below(P, {h}) /\ Below(P, E)
    BY <1>1 DEF Split, Below
  <1>3. Elements(printed') = P \cup {h} /\ Increasing(printed')
    BY <1>1, <1>2, AppendAbove DEF TxTyped, Split
  <1>4. Asked' = Asked
    BY DEF Asked, flags
  <1>5. Below(P \cup {h}, E)
    BY <1>1, <1>2 DEF Below
  <1>6. (P \cup {h}) \cup E = Asked
    BY <1>1 DEF Split
  <1>7. Elements(errq') = E /\ Increasing(errq')
    BY <1>1
  <1> HIDE DEF h, P, E
  <1>8. Elements(printed') \cup Elements(errq') \cup pending' = Asked'
    BY <1>3, <1>4, <1>6, <1>7
  <1>9. Below(Elements(printed'), Elements(errq'))
    BY <1>3, <1>5, <1>7
  <1>10. Below(Elements(printed') \cup Elements(errq'), pending')
    BY DEF Below
  <1> QED BY <1>3, <1>7, <1>8, <1>9, <1>10 DEF Split, Elements, Increasing, Below

LEMMA Split_Stamp ==
  ASSUME TxTyped, Split, NEW s \in pending, Stamp(s)
  PROVE  Split'
  <1> DEFINE P == Elements(printed)
             E == Elements(errq)
             Q == pending \ {s}
  <1>1. s \in Stamps /\ errq \in Seq(Stamps) /\ errq' = Append(errq, s) /\ pending' = Q
        /\ printed' = printed
    BY DEF TxTyped, Stamp
  <1>2. Asked' = Asked
    BY DEF Asked, flags, Stamp
  <1>3. \A r \in Q : r \in Stamps /\ s[1] = pkt /\ r[1] = pkt /\ r[2] # s[2]
    <2>1. \A r \in pending : r \in Stamps /\ \E k \in flags : r = <<pkt, k>>
      BY DEF TxTyped, Split, Asked
    <2>2. SUFFICES ASSUME NEW r \in Q
                   PROVE  r \in Stamps /\ s[1] = pkt /\ r[1] = pkt /\ r[2] # s[2]
      OBVIOUS
    <2>3. PICK k \in flags : r = <<pkt, k>>
      BY <2>1
    <2>4. PICK l \in flags : s = <<pkt, l>>
      BY <2>1
    <2> QED BY <2>1, <2>3, <2>4
  <1>4. Below({s}, Q)
    <2>1. SUFFICES ASSUME NEW r \in Q PROVE Rank(s[2]) < Rank(r[2])
      BY DEF Below
    <2>2. Rank(s[2]) <= Rank(r[2])
      BY <1>3 DEF Stamp
    <2>3. s[2] \in KindSet /\ r[2] \in KindSet /\ r[2] # s[2]
      BY <1>1, <1>3 DEF Stamps
    <2> QED BY <2>2, <2>3, RankOrders
  <1>5. Below(P \cup E, {s}) /\ Below(P \cup E, Q)
    BY DEF Split, Below
  <1>6. Below(E, {s}) /\ Below(P, E \cup {s}) /\ Below((P \cup (E \cup {s})), Q)
    BY <1>4, <1>5 DEF Split, Below
  <1>7. Elements(errq') = E \cup {s} /\ Increasing(errq')
    BY <1>1, <1>6, AppendAbove DEF Split
  <1>8. P \cup (E \cup {s}) \cup Q = Asked
    BY DEF Split
  <1>9. Elements(printed') = P /\ Increasing(printed')
    BY <1>1 DEF Split
  <1> HIDE DEF P, E, Q
  <1>10. Elements(printed') \cup Elements(errq') \cup pending' = Asked'
    BY <1>1, <1>2, <1>7, <1>8, <1>9
  <1>11. Below(Elements(printed'), Elements(errq'))
         /\ Below(Elements(printed') \cup Elements(errq'), pending')
    BY <1>1, <1>6, <1>7, <1>9
  <1> QED BY <1>7, <1>9, <1>10, <1>11 DEF Split, Elements, Increasing, Below

LEMMA TxNext_Inv == TxInv /\ [TxNext]_tx_vars => TxInv'
  <1> SUFFICES ASSUME TxInv, [TxNext]_tx_vars PROVE TxInv'
    OBVIOUS
  <1>0. TxTyped /\ TxTyped'
    BY TxTyped_Next DEF TxInv
  <1>1. CASE main
    BY <1>0, <1>1 DEF main, TxInv, PrintedPerPacket
  <1>2. CASE OpenSocket
    BY <1>0, <1>2 DEF OpenSocket, TxInv, PrintedPerPacket
  <1>3. CASE Send
    <2>1. CASE pkt = NumPkts
      BY <1>0, <1>3, <2>1 DEF Send, TxInv, PrintedPerPacket
    <2>2. CASE pkt # NumPkts /\ ~late
      <3>1. pending = {} /\ errq = <<>> /\ printed' = <<>> /\ errq' = <<>>
        BY <1>3, <2>2 DEF Send, TxInv
      <3>2. pending' = Asked'
        BY <1>3, <2>2, <3>1 DEF Send, Asked, flags
      <3>3. Elements(printed') = {} /\ Elements(errq') = {}
            /\ Increasing(printed') /\ Increasing(errq')
        BY <3>1, ElementsEmpty
      <3>4. Split'
        BY <3>2, <3>3 DEF Split, Below
      <3> QED BY <1>0, <1>3, <2>2, <3>4 DEF Send, TxInv, PrintedPerPacket
    <2>3. CASE late
      BY <1>0, <1>3, <2>3 DEF Send, TxInv, PrintedPerPacket
    <2> QED BY <2>1, <2>2, <2>3
  <1>4. CASE Usleep
    <2>1. Split => Split'
      BY <1>4 DEF Usleep, Split, Asked, flags, Elements, Increasing
    <2> QED BY <1>0, <1>4, <2>1 DEF Usleep, TxInv, PrintedPerPacket
  <1>5. CASE Poll
    <2>1. Split => Split'
      BY <1>5 DEF Poll, Split, Asked, flags, Elements, Increasing
    <2> QED BY <1>0, <1>5, <2>1 DEF Poll, TxInv, PrintedPerPacket
  <1>6. CASE recv_errmsg
    <2>1. CASE errq # <<>> /\ printed' = Append(printed, Head(errq)) /\ errq' = Tail(errq)
               /\ UNCHANGED tx_pc
      <3>1. CASE late
        BY <1>0, <1>6, <2>1, <3>1 DEF recv_errmsg, TxInv, PrintedPerPacket
      <3>2. CASE ~late
        <4>1. Split /\ pending = {}
          BY <1>6, <3>2 DEF recv_errmsg, TxInv
        <4>2. Split'
          BY <1>0, <1>6, <2>1, <4>1, Split_Read DEF recv_errmsg
        <4> QED BY <1>0, <1>6, <2>1, <4>1, <4>2 DEF recv_errmsg, TxInv, PrintedPerPacket
      <3> QED BY <1>0, <3>1, <3>2 DEF TxTyped
    <2>2. CASE errq = <<>> /\ tx_pc' = "send" /\ UNCHANGED <<printed, errq>>
      <3>1. CASE late
        BY <1>0, <1>6, <2>2, <3>1 DEF recv_errmsg, TxInv, PrintedPerPacket
      <3>2. CASE ~late
        <4>1. Split /\ pending = {}
          BY <1>6, <3>2 DEF recv_errmsg, TxInv
        <4>2. Elements(printed) = Asked /\ Increasing(printed)
          BY <2>2, <4>1, ElementsEmpty DEF Split
        <4>3. PrintedPerPacket'
          BY <1>6, <2>2, <4>2 DEF recv_errmsg, PrintedPerPacket, Asked, flags, Elements,
                                  Increasing
        <4> QED BY <1>0, <1>6, <2>2, <4>1, <4>3 DEF recv_errmsg, TxInv
      <3> QED BY <1>0, <3>1, <3>2 DEF TxTyped
    <2>3. CASE tx_pc' = "error"
      BY <1>0, <2>3 DEF TxInv, PrintedPerPacket
    <2> QED BY <1>6, <2>1, <2>2, <2>3 DEF recv_errmsg
  <1>7. ASSUME NEW s \in pending, Stamp(s) PROVE TxInv'
    <2>1. CASE late
      BY <1>0, <1>7, <2>1 DEF Stamp, TxInv, PrintedPerPacket
    <2>2. CASE ~late
      <3>1. tx_pc \notin {"send", "poll", "recv"}
        BY <1>7, <2>2 DEF TxInv
      <3>2. tx_pc = "usleep" => Split'
        BY <1>0, <1>7, <2>2, Split_Stamp DEF TxInv
      <3> QED BY <1>0, <1>7, <3>1, <3>2 DEF Stamp, TxInv, PrintedPerPacket
    <2> QED BY <1>0, <2>1, <2>2 DEF TxTyped
  <1>8. CASE UNCHANGED tx_vars
    <2>1. Split => Split'
      BY <1>8 DEF tx_vars, Split, Asked, flags, Elements, Increasing
    <2>2. PrintedPerPacket'
      BY <1>8 DEF tx_vars, TxInv, PrintedPerPacket, flags, Elements, Increasing
    <2> QED BY <1>0, <1>8, <2>1, <2>2 DEF tx_vars, TxInv
  <1> QED
    BY <1>1, <1>2, <1>3, <1>4, <1>5, <1>6, <1>7, <1>8 DEF TxNext, TxProgram

(* While the stack is as fast as the program expects, every packet's       *)
(* timestamps are printed under it, each once and in order, whatever the   *)
(* number of packets, the sets of flags and the calls that fail.           *)
THEOREM PrintedPerPacketAlways == TxSpec => []PrintedPerPacket
  <1>1. TxInv => PrintedPerPacket
    BY DEF TxInv
  <1> QED BY TxInit_Inv, TxNext_Inv, <1>1, PTL DEF TxSpec
=============================================================================
