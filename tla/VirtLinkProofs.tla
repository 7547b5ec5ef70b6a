--------------------------- MODULE VirtLinkProofs ---------------------------
(* Invariants of VirtLink and its refinement of two pipes, for any buffer  *)
(* and header size, any number of ring entries and any width of the ring   *)
(* indices, any failures and any number of packets.                        *)
EXTENDS VirtLink, SequenceTheorems, TLAPS

USE LinkAssumption DEF txrx_prepare, mic_virtio_copy, verify_out_len

(* What the loop knows about the direction from the tap to the card ...    *)
TxInv ==
  /\ iov0_len = MAX
  /\ pc \in {"spin", "copy"} => buf0 \in Packets
  /\ pc \notin {"spin", "copy"} => buf0 = NoPacket
  /\ pc \in {"check", "wait", "tap"} /\ "tap" \in revents => tap # <<>>
  /\ Pending(tx_info, tx_avail) <= ENTRIES
  /\ pc = "copy" => Pending(tx_info, tx_avail) > 0

(* ... and from the card to the tap.                                       *)
RxInv ==
  /\ pc = "copyrx" => rxq # <<>> /\ iov1_len = MAX
  /\ pc = "write" => buf1 \in Packets /\ buf1.len = HDR + iov1_len
  /\ pc # "write" => buf1 = NoPacket
  /\ Pending(rx_info, rx_avail) = Len(rxq)
  /\ Len(rxq) <= ENTRIES

(* A ring index stays within its width.                                    *)
LEMMA IncType ==
  ASSUME NEW i \in 0..IDX - 1
  PROVE  Inc(i) \in 0..IDX - 1
BY DEF Inc

(* The distance of two indices is a number of entries ...                  *)
LEMMA PendingType ==
  ASSUME NEW a \in 0..IDX - 1, NEW b \in 0..IDX - 1
  PROVE  Pending(a, b) \in Nat /\ (Pending(a, b) = 0 <=> a = b)
BY DEF Pending

(* ... that grows by one when an entry is made available ...               *)
LEMMA PendingPost ==
  ASSUME NEW a \in 0..IDX - 1, NEW b \in 0..IDX - 1, Pending(a, b) < ENTRIES
  PROVE  Pending(a, Inc(b)) = Pending(a, b) + 1
BY DEF Pending, Inc

(* ... and shrinks by one when one is used, at the wrap as well.           *)
LEMMA PendingUse ==
  ASSUME NEW a \in 0..IDX - 1, NEW b \in 0..IDX - 1, Pending(a, b) > 0
  PROVE  Pending(Inc(a), b) = Pending(a, b) - 1
BY DEF Pending, Inc

(* A packet is a buffer's content, and not the empty one.                  *)
LEMMA PacketTypes ==
  ASSUME NEW p \in Packets
  PROVE  /\ p \in Buffers /\ p # NoPacket
         /\ p.len \in Lens /\ p.len \in HDR + 1 .. HDR + MAX
         /\ p = [p EXCEPT !.len = p.len]
BY DEF Packets, Buffers, NoPacket

(* An empty buffer is a buffer's content.                                  *)
LEMMA NoPacketType == NoPacket \in Buffers /\ NoPacket \notin Packets
BY DEF NoPacket, Buffers, Packets

(* What is delivered is a sequence of buffers' contents.                   *)
LEMMA AppendBuffer ==
  ASSUME NEW s \in Seq(Buffers), NEW b \in Buffers
  PROVE  Append(s, b) \in Seq(Buffers)
BY AppendProperties

(* A packet of the tap or the card has the length it was given.            *)
LEMMA NewPacket ==
  ASSUME NEW n \in 0..MaxPkts, n < MaxPkts, NEW l \in Lens
  PROVE  [id |-> n + 1, len |-> l] \in Packets
BY DEF Packets

(* The tap's packet and the card's packet fit the buffers.                 *)
LEMMA FitsBuffer ==
  ASSUME NEW p \in Packets
  PROVE  [p EXCEPT !.len = Shorter(@, HDR + MAX)] = p
BY PacketTypes DEF Shorter

(* readv_tap reads the first packet of the tap whole, or nothing.          *)
LEMMA ReadWhole ==
  ASSUME readv_tap, FlowTypeOK, TxInv
  PROVE  \/ /\ tap # <<>> /\ Head(tap) \in Packets
            /\ tap' = Tail(tap) /\ buf0' = Head(tap) /\ pc' = "spin"
         \/ UNCHANGED <<tap, buf0>> /\ pc' = "card"
<1>1. CASE /\ "tap" \in revents /\ tap' = Tail(tap) /\ pc' = "spin"
           /\ buf0' = [Head(tap) EXCEPT !.len = Shorter(@, HDR + iov0_len)]
  <2>1. tap # <<>>
    BY <1>1 DEF readv_tap, TxInv
  <2>2. Head(tap) \in Packets
    BY <2>1, HeadTailProperties DEF FlowTypeOK
  <2>3. buf0' = Head(tap)
    BY <1>1, <2>2, FitsBuffer DEF TxInv
  <2> QED BY <1>1, <2>1, <2>2, <2>3
<1> QED BY <1>1 DEF readv_tap, goto

(* copy_from_card takes the first packet of the ring whole, and the length *)
(* it verifies is the packet's; or it fails, with or without the packet.   *)
LEMMA CopyWhole ==
  ASSUME copy_from_card, RingTypeOK, RxInv
  PROVE  /\ rxq # <<>> /\ Head(rxq) \in Packets
         /\ \/ /\ rxq' = Tail(rxq) /\ rx_info' = Inc(rx_info)
               /\ buf1' = Head(rxq) /\ Head(rxq).len = HDR + iov1_len'
               /\ iov1_len' \in 0..MAX /\ pc' = "write"
            \/ /\ "copy" \in faults
               /\ rxq' = Tail(rxq) /\ rx_info' = Inc(rx_info)
               /\ UNCHANGED <<buf1, iov1_len>> /\ pc' = "poll"
            \/ UNCHANGED <<rxq, rx_info, buf1, iov1_len>> /\ pc' = "poll"
<1> DEFINE out_len == Shorter(Head(rxq).len, HDR + iov1_len)
<1>1. rxq # <<>> /\ iov1_len = MAX
  BY DEF copy_from_card, RxInv
<1>2. Head(rxq) \in Packets
  BY <1>1, HeadTailProperties DEF RingTypeOK
<1>3. out_len = Head(rxq).len /\ out_len \in HDR + 1 .. HDR + MAX
  BY <1>1, <1>2, PacketTypes DEF Shorter
<1>4. [Head(rxq) EXCEPT !.len = out_len] = Head(rxq)
  BY <1>2, <1>3, PacketTypes
<1> HIDE DEF out_len
<1>5. CASE /\ buf1' = [Head(rxq) EXCEPT !.len = out_len]
           /\ iov1_len' = out_len - HDR
           /\ verify_out_len(out_len, HDR + iov1_len', "write")
           /\ rxq' = Tail(rxq) /\ rx_info' = Inc(rx_info)
  <2>1. iov1_len' \in 0..MAX /\ out_len = HDR + iov1_len'
    BY <1>3, <1>5
  <2>2. pc' = "write"
    BY <1>5, <2>1 DEF goto
  <2> QED BY <1>1, <1>2, <1>3, <1>4, <1>5, <2>1, <2>2
<1> QED BY <1>1, <1>2, <1>5 DEF copy_from_card, goto, out_len

USE DEF host, txring, rxring, sent, link, goto

(* The types of the two rings are kept.                                    *)
LEMMA RingTypes ==
  ASSUME RingTypeOK, FlowTypeOK, RxInv, [Next]_vars
  PROVE  RingTypeOK'
<1> USE DEF RingTypeOK
<1>1. CASE tap_input
  BY <1>1 DEF tap_input
<1>2. CASE card_driver_ok
  BY <1>2 DEF card_driver_ok
<1>3. CASE card_post_buffer
  BY <1>3, IncType DEF card_post_buffer
<1>4. CASE card_send
  <2>1. PICK l \in Lens : rxq' = Append(rxq, [id |-> card_sent + 1, len |-> l])
    BY <1>4 DEF card_send
  <2>2. [id |-> card_sent + 1, len |-> l] \in Packets
    BY <1>4, NewPacket DEF card_send, FlowTypeOK
  <2>3. rxq' \in Seq(Packets)
    BY <2>1, <2>2, AppendProperties
  <2> QED BY <1>4, <2>3, IncType DEF card_send
<1>5. CASE setup
  BY <1>5 DEF setup
<1>6. CASE poll
  BY <1>6 DEF poll
<1>7. CASE check_status
  BY <1>7 DEF check_status
<1>8. CASE wait_for_card_driver
  BY <1>8 DEF wait_for_card_driver
<1>9. CASE readv_tap
  BY <1>9 DEF readv_tap
<1>10. CASE spin_for_descriptors
  BY <1>10 DEF spin_for_descriptors
<1>11. CASE copy_to_card
  BY <1>11, IncType DEF copy_to_card
<1>12. CASE read_ring
  BY <1>12 DEF read_ring
<1>13. CASE copy_from_card
  <2>1. rxq # <<>>
    BY <1>13 DEF copy_from_card, RxInv
  <2>2. Tail(rxq) \in Seq(Packets)
    BY <2>1, HeadTailProperties
  <2> QED BY <1>13, <2>2, IncType DEF copy_from_card
<1>14. CASE writev_tap
  BY <1>14 DEF writev_tap
<1>15. CASE UNCHANGED vars
  BY <1>15 DEF vars
<1> QED
  BY <1>1, <1>2, <1>3, <1>4, <1>5, <1>6, <1>7, <1>8, <1>9,
     <1>10, <1>11, <1>12, <1>13, <1>14, <1>15
  DEF Next, Host

(* The types of the thread's own variables are kept.                       *)
LEMMA HostTypes ==
  ASSUME HostTypeOK, RingTypeOK, FlowTypeOK, TxInv, RxInv, [Next]_vars
  PROVE  HostTypeOK'
<1> USE DEF HostTypeOK
<1>1. CASE tap_input
  BY <1>1 DEF tap_input
<1>2. CASE card_driver_ok
  BY <1>2 DEF card_driver_ok
<1>3. CASE card_post_buffer
  BY <1>3 DEF card_post_buffer
<1>4. CASE card_send
  BY <1>4 DEF card_send
<1>5. CASE setup
  BY <1>5 DEF setup
<1>6. CASE poll
  BY <1>6 DEF poll
<1>7. CASE check_status
  BY <1>7 DEF check_status
<1>8. CASE wait_for_card_driver
  BY <1>8 DEF wait_for_card_driver
<1>9. CASE readv_tap
  <2>1. buf0' \in Buffers
    BY <1>9, ReadWhole, PacketTypes
  <2> QED BY <1>9, <2>1 DEF readv_tap
<1>10. CASE spin_for_descriptors
  BY <1>10 DEF spin_for_descriptors
<1>11. CASE copy_to_card
  BY <1>11, NoPacketType DEF copy_to_card
<1>12. CASE read_ring
  BY <1>12 DEF read_ring
<1>13. CASE copy_from_card
  <2>1. buf1' \in Buffers /\ iov1_len' \in 0..MAX
    BY <1>13, CopyWhole, PacketTypes
  <2>2. pc' \in {"write", "poll"}
    BY <1>13, CopyWhole
  <2> QED BY <1>13, <2>1, <2>2 DEF copy_from_card
<1>14. CASE writev_tap
  BY <1>14, NoPacketType DEF writev_tap
<1>15. CASE UNCHANGED vars
  BY <1>15 DEF vars
<1> QED
  BY <1>1, <1>2, <1>3, <1>4, <1>5, <1>6, <1>7, <1>8, <1>9,
     <1>10, <1>11, <1>12, <1>13, <1>14, <1>15
  DEF Next, Host

(* The types of what flows are kept.                                      *)
LEMMA FlowTypes ==
  ASSUME HostTypeOK, FlowTypeOK, TxInv, RxInv, [Next]_vars
  PROVE  FlowTypeOK'
<1> USE DEF FlowTypeOK
<1>1. CASE tap_input
  <2>1. PICK l \in Lens : tap' = Append(tap, [id |-> tap_sent + 1, len |-> l])
    BY <1>1 DEF tap_input
  <2>2. [id |-> tap_sent + 1, len |-> l] \in Packets
    BY <1>1, NewPacket DEF tap_input
  <2>3. tap' \in Seq(Packets)
    BY <2>1, <2>2, AppendProperties
  <2>4. tap_sent' \in 0..MaxPkts
    BY <1>1 DEF tap_input
  <2> QED BY <1>1, <2>3, <2>4 DEF tap_input
<1>2. CASE card_driver_ok
  <2>1. driver_ok' \in BOOLEAN /\ event' \in BOOLEAN
    BY <1>2, Zenon DEF card_driver_ok
  <2> QED BY <1>2, <2>1 DEF card_driver_ok
<1>3. CASE card_post_buffer
  BY <1>3 DEF card_post_buffer
<1>4. CASE card_send
  <2>1. event' \in BOOLEAN
    BY <1>4, Zenon DEF card_send
  <2>2. card_sent' \in 0..MaxPkts
    BY <1>4 DEF card_send
  <2> QED BY <1>4, <2>1, <2>2 DEF card_send
<1>5. CASE setup
  BY <1>5 DEF setup
<1>6. CASE poll
  <2>1. event' \in BOOLEAN
    BY <1>6, Zenon DEF poll
  <2> QED BY <1>6, <2>1 DEF poll
<1>7. CASE check_status
  BY <1>7 DEF check_status
<1>8. CASE wait_for_card_driver
  <2>1. event' \in BOOLEAN
    BY <1>8, Zenon DEF wait_for_card_driver
  <2> QED BY <1>8, <2>1 DEF wait_for_card_driver
<1>9. CASE readv_tap
  <2>1. tap' \in Seq(Packets)
    BY <1>9, ReadWhole, HeadTailProperties
  <2> QED BY <1>9, <2>1 DEF readv_tap
<1>10. CASE spin_for_descriptors
  BY <1>10 DEF spin_for_descriptors
<1>11. CASE copy_to_card
  <2>1. buf0 \in Packets
    BY <1>11 DEF copy_to_card, TxInv
  <2> DEFINE p == [buf0 EXCEPT !.len = mic_virtio_copy(@, CardBuf)]
  <2>2. p \in Buffers
    <3>1. Shorter(buf0.len, CardBuf) \in 0..HDR + MAX
      BY <2>1, PacketTypes DEF Shorter
    <3>2. buf0 \in Buffers
      BY <2>1, PacketTypes
    <3> QED BY <3>1, <3>2 DEF Buffers
  <2>3. to_card' = Append(to_card, p) \/ to_card' = to_card
    BY <1>11 DEF copy_to_card
  <2> HIDE DEF p
  <2>4. to_card' \in Seq(Buffers)
    BY <2>2, <2>3, AppendBuffer
  <2> QED BY <1>11, <2>4 DEF copy_to_card
<1>12. CASE read_ring
  BY <1>12 DEF read_ring
<1>13. CASE copy_from_card
  BY <1>13 DEF copy_from_card
<1>14. CASE writev_tap
  <2> DEFINE p == [buf1 EXCEPT !.len = HDR + iov1_len]
  <2>1. p \in Buffers
    BY <1>14, PacketTypes DEF writev_tap, RxInv
  <2>2. to_tap' = Append(to_tap, p) \/ to_tap' = to_tap
    BY <1>14 DEF writev_tap
  <2> HIDE DEF p
  <2>3. to_tap' \in Seq(Buffers)
    BY <2>1, <2>2, AppendBuffer
  <2> QED BY <1>14, <2>3 DEF writev_tap
<1>15. CASE UNCHANGED vars
  BY <1>15 DEF vars
<1> QED
  BY <1>1, <1>2, <1>3, <1>4, <1>5, <1>6, <1>7, <1>8, <1>9,
     <1>10, <1>11, <1>12, <1>13, <1>14, <1>15
  DEF Next, Host

(* What the loop knows about the way to the card is kept.                  *)
LEMMA TxStep ==
  ASSUME HostTypeOK, RingTypeOK, FlowTypeOK, TxInv, [Next]_vars
  PROVE  TxInv'
<1> USE DEF TxInv
<1>1. CASE tap_input
  <2>2. PICK l \in Lens : tap' = Append(tap, [id |-> tap_sent + 1, len |-> l])
    BY <1>1 DEF tap_input
  <2>3. [id |-> tap_sent + 1, len |-> l] \in Packets
    BY <1>1, NewPacket DEF tap_input, FlowTypeOK
  <2>1. tap' # <<>>
    BY <2>2, <2>3, AppendProperties DEF FlowTypeOK
  <2> QED BY <1>1, <2>1 DEF tap_input
<1>2. CASE card_driver_ok
  BY <1>2 DEF card_driver_ok
<1>3. CASE card_post_buffer
  <2>1. Pending(tx_info, tx_avail) \in Nat
    BY PendingType DEF RingTypeOK
  <2>2. Pending(tx_info, Inc(tx_avail)) = Pending(tx_info, tx_avail) + 1
    BY <1>3, PendingPost DEF card_post_buffer, RingTypeOK
  <2>3. UNCHANGED <<iov0_len, pc, buf0, revents, tap, tx_info>>
    BY <1>3 DEF card_post_buffer
  <2>4. tx_avail' = Inc(tx_avail) /\ Pending(tx_info, tx_avail) < ENTRIES
    BY <1>3 DEF card_post_buffer
  <2> QED BY <2>1, <2>2, <2>3, <2>4
<1>4. CASE card_send
  BY <1>4 DEF card_send
<1>5. CASE setup
  BY <1>5 DEF setup
<1>6. CASE poll
  BY <1>6 DEF poll
<1>7. CASE check_status
  BY <1>7 DEF check_status
<1>8. CASE wait_for_card_driver
  BY <1>8 DEF wait_for_card_driver
<1>9. CASE readv_tap
  <2>1. \/ pc' = "spin" /\ buf0' \in Packets
        \/ pc' = "card" /\ buf0' = NoPacket
    BY <1>9, ReadWhole DEF readv_tap
  <2>2. UNCHANGED <<iov0_len, tx_info, tx_avail>>
    BY <1>9 DEF readv_tap
  <2> QED BY <2>1, <2>2
<1>10. CASE spin_for_descriptors
  <2>1. Pending(tx_info, tx_avail) > 0
    BY <1>10, PendingType DEF spin_for_descriptors, RingTypeOK
  <2> QED BY <1>10, <2>1 DEF spin_for_descriptors
<1>11. CASE copy_to_card
  <2>1. /\ Pending(tx_info, tx_avail) \in Nat
        /\ Pending(Inc(tx_info), tx_avail) = Pending(tx_info, tx_avail) - 1
    BY <1>11, PendingType, PendingUse DEF copy_to_card, RingTypeOK
  <2>2. Pending(tx_info', tx_avail') <= ENTRIES
    BY <1>11, <2>1 DEF copy_to_card
  <2>3. pc' \in {"card", "abort"} /\ iov0_len' = MAX /\ buf0' = NoPacket
    BY <1>11 DEF copy_to_card
  <2> QED BY <2>2, <2>3
<1>12. CASE read_ring
  BY <1>12 DEF read_ring
<1>13. CASE copy_from_card
  BY <1>13 DEF copy_from_card
<1>14. CASE writev_tap
  BY <1>14 DEF writev_tap
<1>15. CASE UNCHANGED vars
  BY <1>15 DEF vars
<1> QED
  BY <1>1, <1>2, <1>3, <1>4, <1>5, <1>6, <1>7, <1>8, <1>9,
     <1>10, <1>11, <1>12, <1>13, <1>14, <1>15
  DEF Next, Host

(* What the loop knows about the way to the tap is kept.                   *)
LEMMA RxStep ==
  ASSUME HostTypeOK, RingTypeOK, FlowTypeOK, RxInv, [Next]_vars
  PROVE  RxInv'
<1> USE DEF RxInv
<1>1. CASE tap_input
  BY <1>1 DEF tap_input
<1>2. CASE card_driver_ok
  BY <1>2 DEF card_driver_ok
<1>3. CASE card_post_buffer
  BY <1>3 DEF card_post_buffer
<1>4. CASE card_send
  <2>1. PICK l \in Lens : rxq' = Append(rxq, [id |-> card_sent + 1, len |-> l])
    BY <1>4 DEF card_send
  <2>2. [id |-> card_sent + 1, len |-> l] \in Packets
    BY <1>4, NewPacket DEF card_send, FlowTypeOK
  <2>3. Len(rxq') = Len(rxq) + 1 /\ rxq' # <<>> /\ Len(rxq) \in Nat
    BY <2>1, <2>2, AppendProperties DEF RingTypeOK
  <2>4. Len(rxq) < ENTRIES
    BY <1>4 DEF card_send
  <2>5. Pending(rx_info, Inc(rx_avail)) = Pending(rx_info, rx_avail) + 1
    BY <2>4, PendingPost DEF RingTypeOK
  <2>6. UNCHANGED <<pc, iov1_len, buf1, rx_info>> /\ rx_avail' = Inc(rx_avail)
    BY <1>4 DEF card_send
  <2> QED BY <2>3, <2>4, <2>5, <2>6
<1>5. CASE setup
  BY <1>5 DEF setup
<1>6. CASE poll
  BY <1>6 DEF poll
<1>7. CASE check_status
  BY <1>7 DEF check_status
<1>8. CASE wait_for_card_driver
  BY <1>8 DEF wait_for_card_driver
<1>9. CASE readv_tap
  BY <1>9 DEF readv_tap
<1>10. CASE spin_for_descriptors
  BY <1>10 DEF spin_for_descriptors
<1>11. CASE copy_to_card
  BY <1>11 DEF copy_to_card
<1>12. CASE read_ring
  <2>1. CASE rx_info # rx_avail
    <3>1. Len(rxq) > 0
      BY <2>1, PendingType DEF RingTypeOK
    <3>2. rxq # <<>>
      BY <3>1
    <3> QED BY <1>12, <3>2 DEF read_ring
  <2>2. CASE rx_info = rx_avail
    BY <1>12, <2>2 DEF read_ring
  <2> QED BY <2>1, <2>2
<1>13. CASE copy_from_card
  <2>1. /\ rxq # <<>> /\ Head(rxq) \in Packets
        /\ Len(Tail(rxq)) = Len(rxq) - 1 /\ Len(rxq) \in Nat
    BY <1>13, CopyWhole, HeadTailProperties DEF RingTypeOK
  <2>2. Pending(Inc(rx_info), rx_avail) = Len(rxq) - 1
    BY <2>1, PendingUse DEF RingTypeOK
  <2>3. UNCHANGED rx_avail /\ buf1 = NoPacket
    BY <1>13 DEF copy_from_card
  <2>4. CASE /\ rxq' = Tail(rxq) /\ rx_info' = Inc(rx_info)
             /\ buf1' = Head(rxq) /\ Head(rxq).len = HDR + iov1_len'
             /\ pc' = "write"
    BY <2>1, <2>2, <2>3, <2>4
  <2>5. CASE /\ rxq' = Tail(rxq) /\ rx_info' = Inc(rx_info)
             /\ UNCHANGED <<buf1, iov1_len>> /\ pc' = "poll"
    BY <2>1, <2>2, <2>3, <2>5
  <2>6. CASE UNCHANGED <<rxq, rx_info, buf1, iov1_len>> /\ pc' = "poll"
    BY <2>3, <2>6
  <2> QED BY <1>13, <2>4, <2>5, <2>6, CopyWhole
<1>14. CASE writev_tap
  BY <1>14 DEF writev_tap
<1>15. CASE UNCHANGED vars
  BY <1>15 DEF vars
<1> QED
  BY <1>1, <1>2, <1>3, <1>4, <1>5, <1>6, <1>7, <1>8, <1>9,
     <1>10, <1>11, <1>12, <1>13, <1>14, <1>15
  DEF Next, Host

(* The inductive invariant of the loop.                                    *)
LinkInv == TypeOK /\ TxInv /\ RxInv

LEMMA LinkInvariant == Spec => []LinkInv
<1>1. Init => LinkInv
  <2> SUFFICES ASSUME Init PROVE LinkInv
    OBVIOUS
  <2>1. HostTypeOK
    BY NoPacketType DEF Init, HostTypeOK
  <2>2. RingTypeOK
    BY DEF Init, RingTypeOK
  <2>3. FlowTypeOK
    <3>1. driver_ok \in BOOLEAN /\ event \in BOOLEAN
      BY Zenon DEF Init
    <3> QED BY <3>1 DEF Init, FlowTypeOK
  <2>4. TxInv
    BY DEF Init, TxInv, Pending
  <2>5. RxInv
    BY DEF Init, RxInv, Pending
  <2> QED BY <2>1, <2>2, <2>3, <2>4, <2>5 DEF LinkInv, TypeOK, Init
<1>2. LinkInv /\ [Next]_vars => LinkInv'
  <2> SUFFICES ASSUME LinkInv, [Next]_vars PROVE LinkInv'
    OBVIOUS
  <2>1. faults' = faults
    BY DEF Next, vars
  <2> QED
    BY <2>1, RingTypes, HostTypes, FlowTypes, TxStep, RxStep
    DEF LinkInv, TypeOK
<1> QED BY <1>1, <1>2, PTL DEF Spec

(* The loop's variables keep their types.                                  *)
THEOREM LinkTypeCorrect == Spec => []TypeOK
BY LinkInvariant, PTL DEF LinkInv

(* The index comparisons of virtio_net, virtio_console and                 *)
(* spin_for_descriptors see exactly the entries that are in the rings, for *)
(* any ring size below the number of index values.                         *)
THEOREM RingTestAlways == Spec => []RingTest
<1>1. LinkInv => RingTest
  <2> SUFFICES ASSUME LinkInv PROVE RingTest
    OBVIOUS
  <2> USE DEF LinkInv, TypeOK, RingTypeOK
  <2>1. Pending(rx_info, rx_avail) = Len(rxq)
    BY DEF RxInv
  <2>2. (rx_info # rx_avail) <=> (rxq # <<>>)
    BY <2>1, PendingType, EmptySeq
  <2>3. /\ Pending(tx_info, tx_avail) <= ENTRIES
        /\ pc = "copy" => Pending(tx_info, tx_avail) > 0
    BY DEF TxInv
  <2> QED BY <2>1, <2>2, <2>3 DEF RingTest
<1> QED BY <1>1, LinkInvariant, PTL

(* verify_out_len's assertion never fails if the card's buffers take the   *)
(* largest packet.                                                         *)
THEOREM NoAbortAlways ==
  ASSUME CardBuf >= HDR + MAX
  PROVE  Spec => []NoAbort
<1>1. Init => NoAbort
  BY DEF Init, NoAbort
<1>2. LinkInv /\ NoAbort /\ [Next]_vars => NoAbort'
  <2> SUFFICES ASSUME LinkInv, NoAbort, [Next]_vars PROVE NoAbort'
    OBVIOUS
  <2> USE DEF NoAbort
  <2>1. CASE copy_to_card
    <3>1. buf0.len <= CardBuf
      BY <2>1, PacketTypes DEF copy_to_card, LinkInv, TxInv
    <3>2. /\ mic_virtio_copy(buf0.len, CardBuf) = buf0.len
          /\ HDR + txrx_prepare(buf0.len) = buf0.len
      BY <2>1, <3>1, PacketTypes DEF copy_to_card, LinkInv, TxInv, Shorter
    <3> HIDE DEF mic_virtio_copy, txrx_prepare
    <3> QED BY <2>1, <3>2 DEF copy_to_card
  <2>2. CASE copy_from_card
    BY <2>2, CopyWhole DEF LinkInv, TypeOK
  <2>3. CASE tap_input \/ card_driver_ok \/ card_post_buffer \/ card_send
    BY <2>3 DEF tap_input, card_driver_ok, card_post_buffer, card_send
  <2>4. CASE setup \/ poll \/ check_status \/ wait_for_card_driver
    BY <2>4 DEF setup, poll, check_status, wait_for_card_driver
  <2>5. CASE readv_tap \/ spin_for_descriptors \/ read_ring \/ writev_tap
    BY <2>5 DEF readv_tap, spin_for_descriptors, read_ring, writev_tap
  <2>6. CASE UNCHANGED vars
    BY <2>6 DEF vars
  <2> QED BY <2>1, <2>2, <2>3, <2>4, <2>5, <2>6 DEF Next, Host
<1> QED BY <1>1, <1>2, LinkInvariant, PTL DEF Spec

(* A packet of the card is announced: poll has its event to report, or has *)
(* reported it in the round of the loop that is not over yet.              *)
Announced ==
  rxq # <<>> => event \/ (pc \notin {"setup", "poll", "exit"} /\ "card" \in revents)

LEMMA AnnouncedStep ==
  ASSUME "copy" \notin faults, LinkInv, Announced, pc # "wait", [Next]_vars
  PROVE  Announced'
<1> USE DEF Announced
<1>1. CASE tap_input
  BY <1>1 DEF tap_input
<1>2. CASE card_driver_ok
  BY <1>2 DEF card_driver_ok
<1>3. CASE card_post_buffer
  BY <1>3 DEF card_post_buffer
<1>4. CASE card_send
  BY <1>4 DEF card_send
<1>5. CASE setup
  BY <1>5 DEF setup
<1>6. CASE poll
  <2>1. rxq # <<>> => "card" \in revents'
    BY <1>6 DEF poll
  <2> QED BY <1>6, <2>1 DEF poll
<1>7. CASE check_status
  BY <1>7 DEF check_status
<1>8. CASE wait_for_card_driver
  BY <1>8 DEF wait_for_card_driver
<1>9. CASE readv_tap
  BY <1>9 DEF readv_tap
<1>10. CASE spin_for_descriptors
  BY <1>10 DEF spin_for_descriptors
<1>11. CASE copy_to_card
  BY <1>11 DEF copy_to_card
<1>12. CASE read_ring
  <2>1. rxq # <<>> => rx_info # rx_avail
    BY PendingType, EmptySeq DEF LinkInv, TypeOK, RingTypeOK, RxInv
  <2> QED BY <1>12, <2>1 DEF read_ring
<1>13. CASE copy_from_card
  <2>1. rxq # <<>> /\ pc' \in {"write", "abort"}
    BY <1>13 DEF copy_from_card, LinkInv, RxInv
  <2> QED BY <1>13, <2>1 DEF copy_from_card
<1>14. CASE writev_tap
  BY <1>14 DEF writev_tap
<1>15. CASE UNCHANGED vars
  BY <1>15 DEF vars
<1> QED
  BY <1>1, <1>2, <1>3, <1>4, <1>5, <1>6, <1>7, <1>8, <1>9,
     <1>10, <1>11, <1>12, <1>13, <1>14, <1>15
  DEF Next, Host

(* No wake-up is lost: while copies succeed, a thread that never had to    *)
(* wait for the card's driver does not sleep in poll on a packet of the    *)
(* card, for any ring and any packets.                                     *)
THEOREM NoSleepOnPacketAlways == Spec => NoSleepOnPacket
<1>1. Init => Announced
  BY DEF Init, Announced
<1>2. LinkInv /\ Announced /\ "copy" \notin faults /\ pc # "wait" /\ [Next]_vars
        => Announced'
  BY AnnouncedStep
<1>3. Announced => (pc = "poll" /\ rxq # <<>> => event)
  BY DEF Announced
<1>4. "copy" \notin faults /\ [Next]_vars => ("copy" \notin faults)'
  BY DEF Next, vars
<1> QED BY <1>1, <1>2, <1>3, <1>4, LinkInvariant, PTL DEF Spec, NoSleepOnPacket

(* A packet in front of a sequence.                                        *)
LEMMA ConsProperties ==
  ASSUME NEW S, NEW b \in S, NEW s \in Seq(S)
  PROVE  /\ <<b>> \o s \in Seq(S) /\ <<b>> \o s # <<>>
         /\ Head(<<b>> \o s) = b /\ Tail(<<b>> \o s) = s
<1>1. <<b>> \in Seq(S) /\ Len(<<b>>) = 1 /\ <<b>>[1] = b
  OBVIOUS
<1>2. /\ <<b>> \o s \in Seq(S) /\ Len(<<b>> \o s) = 1 + Len(s) /\ Len(s) \in Nat
      /\ (<<b>> \o s)[1] = b
      /\ \A i \in 1..Len(s) : (<<b>> \o s)[i + 1] = s[i]
  <2> DEFINE h == <<b>>
  <2>1. h \in Seq(S) /\ Len(h) = 1 /\ h[1] = b
    BY <1>1
  <2> HIDE DEF h
  <2>2. Len(s) \in Nat
    BY LenProperties
  <2>3. /\ h \o s \in Seq(S) /\ Len(h \o s) = 1 + Len(s)
        /\ \A i \in 1..1 + Len(s) : (h \o s)[i] = IF i <= 1 THEN h[i] ELSE s[i - 1]
    <3>1. /\ h \o s \in Seq(S)
          /\ Len(h \o s) = Len(h) + Len(s)
          /\ \A i \in 1 .. Len(h) + Len(s) :
               (h \o s)[i] = IF i <= Len(h) THEN h[i] ELSE s[i - Len(h)]
      BY <2>1, ConcatProperties, Zenon
    <3> QED BY <2>1, <3>1, Zenon
  <2>4. (h \o s)[1] = b
    BY <2>1, <2>2, <2>3
  <2>5. \A i \in 1..Len(s) : (h \o s)[i + 1] = s[i]
    BY <2>2, <2>3
  <2> QED BY <2>2, <2>3, <2>4, <2>5 DEF h
<1>3. <<b>> \o s # <<>>
  BY <1>2
<1>4. Head(<<b>> \o s) = b
  BY <1>2, <1>3
<1>5. Tail(<<b>> \o s) = s
  <2> DEFINE t == Tail(<<b>> \o s)
  <2>1. /\ t \in Seq(S) /\ Len(t) = Len(s)
        /\ \A i \in 1..Len(t) : t[i] = (<<b>> \o s)[i + 1]
    BY <1>2, <1>3, HeadTailProperties
  <2>2. \A i \in 1..Len(t) : t[i] = s[i]
    BY <1>2, <2>1
  <2> HIDE DEF t
  <2>3. t = s
    BY <2>1, <2>2, SeqEqual
  <2> QED BY <2>3 DEF t
<1> QED BY <1>2, <1>3, <1>4, <1>5

(* A sequence is its head in front of its tail.                            *)
LEMMA ConsHeadTail ==
  ASSUME NEW S, NEW s \in Seq(S), s # <<>>
  PROVE  <<Head(s)>> \o Tail(s) = s
<1>1. Head(s) \in S /\ Tail(s) \in Seq(S) /\ Len(Tail(s)) = Len(s) - 1
  BY HeadTailProperties
<1> DEFINE t == <<Head(s)>> \o Tail(s)
<1>2. /\ t \in Seq(S) /\ t # <<>> /\ Head(t) = Head(s) /\ Tail(t) = Tail(s)
  BY <1>1, ConsProperties
<1> HIDE DEF t
<1>3. Len(t) = Len(s) /\ Len(s) \in Nat
  BY <1>2, HeadTailProperties, LenProperties
<1>4. \A i \in 1..Len(t) : t[i] = s[i]
  <2> TAKE i \in 1..Len(t)
  <2>1. CASE i = 1
    BY <2>1, <1>2
  <2>2. CASE i > 1
    <3>1. t[i] = Tail(t)[i-1] /\ s[i] = Tail(s)[i-1]
      BY <2>2, <1>2, <1>3, HeadTailProperties
    <3> QED BY <3>1, <1>2
  <2> QED BY <2>1, <2>2, <1>3
<1>5. t = s
  BY <1>2, <1>3, <1>4, SeqEqual
<1> QED BY <1>5 DEF t

(* Appending to the second part appends to the whole.                      *)
LEMMA ConcatAppend ==
  ASSUME NEW S, NEW h \in Seq(S), NEW s \in Seq(S), NEW p \in S
  PROVE  h \o Append(s, p) = Append(h \o s, p)
<1>1. <<p>> \in Seq(S) /\ h \o s \in Seq(S)
  BY ConcatProperties
<1>2. Append(s, p) = s \o <<p>> /\ Append(h \o s, p) = (h \o s) \o <<p>>
  BY <1>1, AppendIsConcat
<1>3. h \o (s \o <<p>>) = (h \o s) \o <<p>>
  BY <1>1, ConcatAssociative
<1> QED BY <1>2, <1>3

(* The buffer holds nothing or a packet.                                   *)
LEMMA HeldTypes ==
  ASSUME NEW b, b = NoPacket \/ b \in Packets
  PROVE  /\ Held(b) \in Seq(Packets)
         /\ b = NoPacket => Held(b) = <<>>
         /\ b \in Packets => Held(b) = <<b>>
BY NoPacketType DEF Held

(* The loop implements a pipe from the tap to the card: readv moves the    *)
(* first packet into the buffer, and mic_virtio_copy delivers or loses it. *)
THEOREM TxRefines ==
  ASSUME CardBuf >= HDR + MAX
  PROVE  Spec => TxPipe
<1> DEFINE q == Held(buf0) \o tap
<1> DEFINE lossy == "copy" \in faults
<1>1. Init => Tx!Init
  <2> SUFFICES ASSUME Init PROVE q = <<>> /\ to_card = <<>>
    BY DEF Tx!Init
  <2>1. Held(buf0) = <<>> /\ tap = <<>> /\ to_card = <<>>
    BY DEF Init, Held
  <2> QED BY <2>1
<1>2. LinkInv /\ [Next]_vars => [Tx!Next]_<<q, to_card, lossy>>
  <2> SUFFICES ASSUME LinkInv, [Next]_vars
               PROVE  Tx!Next \/ UNCHANGED <<q, to_card, lossy>>
    OBVIOUS
  <2>5. UNCHANGED lossy
    BY DEF Next, vars
  <2> SUFFICES Tx!Put \/ Tx!Deliver \/ Tx!Lose \/ UNCHANGED <<q, to_card>>
    BY <2>5 DEF Tx!Next
  <2>0. /\ tap \in Seq(Packets) /\ TxInv /\ FlowTypeOK
        /\ buf0 = NoPacket \/ buf0 \in Packets
    BY DEF LinkInv, TypeOK, FlowTypeOK, TxInv
  <2>1. CASE tap_input
    <3>1. PICK l \in Lens : tap' = Append(tap, [id |-> tap_sent + 1, len |-> l])
      BY <2>1 DEF tap_input
    <3> DEFINE p == [id |-> tap_sent + 1, len |-> l]
    <3>2. p \in Packets
      BY <2>0, <2>1, NewPacket DEF tap_input, FlowTypeOK
    <3>3. tap' = Append(tap, p) /\ buf0' = buf0 /\ to_card' = to_card
      BY <2>1, <3>1 DEF tap_input
    <3> HIDE DEF p
    <3>4. Held(buf0) \o Append(tap, p) = Append(q, p)
      BY <2>0, <3>2, HeldTypes, ConcatAppend
    <3>5. q' = Append(q, p)
      BY <3>3, <3>4
    <3>6. Tx!Put
      BY <3>2, <3>3, <3>5 DEF Tx!Put
    <3> QED BY <3>6
  <2>2. CASE readv_tap
    <3>1. to_card' = to_card /\ buf0 = NoPacket
      BY <2>0, <2>2 DEF readv_tap, TxInv
    <3>2. CASE /\ tap # <<>> /\ Head(tap) \in Packets
               /\ tap' = Tail(tap) /\ buf0' = Head(tap)
      <4>1. q = tap
        BY <2>0, <3>1, HeldTypes, ConcatEmptySeq
      <4>2. Held(Head(tap)) = <<Head(tap)>>
        BY <3>2, HeldTypes
      <4>3. q' = <<Head(tap)>> \o Tail(tap)
        BY <3>2, <4>2
      <4>4. q' = tap
        BY <2>0, <3>2, <4>3, ConsHeadTail
      <4> QED BY <3>1, <4>1, <4>4
    <3>3. CASE UNCHANGED <<tap, buf0>>
      BY <3>1, <3>3
    <3> QED BY <2>0, <2>2, <3>2, <3>3, ReadWhole
  <2>3. CASE copy_to_card
    <3>1. buf0 \in Packets
      BY <2>0, <2>3 DEF copy_to_card, TxInv
    <3>2. q = <<buf0>> \o tap
      BY <3>1, HeldTypes
    <3>3. q # <<>> /\ Head(q) = buf0 /\ Tail(q) = tap
      BY <2>0, <3>1, <3>2, ConsProperties
    <3>4. buf0' = NoPacket /\ tap' = tap
      BY <2>3 DEF copy_to_card
    <3>5. q' = Tail(q)
      BY <2>0, <3>3, <3>4, HeldTypes, ConcatEmptySeq
    <3>6. [buf0 EXCEPT !.len = mic_virtio_copy(@, CardBuf)] = buf0
      BY <3>1, PacketTypes DEF Shorter
    <3>7. \/ to_card' = Append(to_card, buf0)
          \/ "copy" \in faults /\ to_card' = to_card
      BY <2>3, <3>6 DEF copy_to_card
    <3> HIDE DEF q
    <3>8. CASE to_card' = Append(to_card, buf0)
      BY <3>3, <3>5, <3>8 DEF Tx!Deliver, q
    <3>9. CASE "copy" \in faults /\ to_card' = to_card
      BY <3>3, <3>5, <3>9 DEF Tx!Lose, q
    <3> QED BY <3>7, <3>8, <3>9
  <2>4. CASE ~tap_input /\ ~readv_tap /\ ~copy_to_card
    <3>1. CASE card_driver_ok \/ card_post_buffer \/ card_send
      BY <3>1 DEF card_driver_ok, card_post_buffer, card_send
    <3>2. CASE setup \/ poll \/ check_status \/ wait_for_card_driver
      BY <3>2 DEF setup, poll, check_status, wait_for_card_driver
    <3>3. CASE spin_for_descriptors \/ read_ring \/ writev_tap
      BY <3>3 DEF spin_for_descriptors, read_ring, writev_tap
    <3>4. CASE copy_from_card
      BY <3>4 DEF copy_from_card
    <3>5. CASE UNCHANGED vars
      BY <3>5 DEF vars
    <3> QED BY <2>4, <3>1, <3>2, <3>3, <3>4, <3>5 DEF Next, Host
  <2> QED BY <2>1, <2>2, <2>3, <2>4
<1> QED BY <1>1, <1>2, LinkInvariant, PTL DEF Spec, TxPipe, Tx!Spec

(* The loop implements a pipe from the card to the tap: a packet leaves    *)
(* the ring whole, and writev delivers or loses it; a failing copy loses   *)
(* it or leaves it in the ring.                                            *)
THEOREM RxRefines == Spec => RxPipe
<1> DEFINE q == Held(buf1) \o rxq
<1> DEFINE lossy == faults \cap {"copy", "write"} # {}
<1>1. Init => Rx!Init
  <2> SUFFICES ASSUME Init PROVE q = <<>> /\ to_tap = <<>>
    BY DEF Rx!Init
  <2>1. Held(buf1) = <<>> /\ rxq = <<>> /\ to_tap = <<>>
    BY DEF Init, Held
  <2> QED BY <2>1
<1>2. LinkInv /\ [Next]_vars => [Rx!Next]_<<q, to_tap, lossy>>
  <2> SUFFICES ASSUME LinkInv, [Next]_vars
               PROVE  Rx!Next \/ UNCHANGED <<q, to_tap, lossy>>
    OBVIOUS
  <2>5. UNCHANGED lossy
    BY DEF Next, vars
  <2> SUFFICES Rx!Put \/ Rx!Deliver \/ Rx!Lose \/ UNCHANGED <<q, to_tap>>
    BY <2>5 DEF Rx!Next
  <2>0. /\ rxq \in Seq(Packets) /\ RxInv /\ RingTypeOK /\ FlowTypeOK
        /\ buf1 = NoPacket \/ buf1 \in Packets
    BY DEF LinkInv, TypeOK, RingTypeOK, RxInv
  <2>1. CASE card_send
    <3>1. PICK l \in Lens : rxq' = Append(rxq, [id |-> card_sent + 1, len |-> l])
      BY <2>1 DEF card_send
    <3> DEFINE p == [id |-> card_sent + 1, len |-> l]
    <3>2. p \in Packets
      BY <2>0, <2>1, NewPacket DEF card_send, FlowTypeOK
    <3>3. rxq' = Append(rxq, p) /\ buf1' = buf1 /\ to_tap' = to_tap
      BY <2>1, <3>1 DEF card_send
    <3> HIDE DEF p
    <3>4. Held(buf1) \o Append(rxq, p) = Append(q, p)
      BY <2>0, <3>2, HeldTypes, ConcatAppend
    <3>5. q' = Append(q, p)
      BY <3>3, <3>4
    <3>6. Rx!Put
      BY <3>2, <3>3, <3>5 DEF Rx!Put
    <3> QED BY <3>6
  <2>2. CASE copy_from_card
    <3>1. to_tap' = to_tap /\ buf1 = NoPacket
      BY <2>0, <2>2 DEF copy_from_card, RxInv
    <3>2. rxq # <<>> /\ Head(rxq) \in Packets
      BY <2>0, <2>2, CopyWhole
    <3>3. q = rxq
      BY <2>0, <3>1, HeldTypes, ConcatEmptySeq
    <3>4. CASE rxq' = Tail(rxq) /\ buf1' = Head(rxq)
      <4>1. Held(Head(rxq)) = <<Head(rxq)>>
        BY <3>2, HeldTypes
      <4>2. q' = <<Head(rxq)>> \o Tail(rxq)
        BY <3>4, <4>1
      <4>3. q' = rxq
        BY <2>0, <3>2, <4>2, ConsHeadTail
      <4> QED BY <3>1, <3>3, <4>3
    <3>5. CASE "copy" \in faults /\ rxq' = Tail(rxq) /\ UNCHANGED buf1
      <4>1. Tail(rxq) \in Seq(Packets)
        BY <2>0, <3>2, HeadTailProperties
      <4>2. q' = Tail(q)
        BY <3>1, <3>3, <3>5, <4>1, HeldTypes, ConcatEmptySeq
      <4> HIDE DEF q
      <4> QED BY <3>1, <3>2, <3>3, <3>5, <4>2 DEF Rx!Lose, q
    <3>6. CASE UNCHANGED <<rxq, buf1>>
      BY <3>1, <3>6
    <3> QED BY <2>0, <2>2, <3>4, <3>5, <3>6, CopyWhole
  <2>3. CASE writev_tap
    <3>1. buf1 \in Packets /\ buf1.len = HDR + iov1_len
      BY <2>0, <2>3 DEF writev_tap, RxInv
    <3>2. q = <<buf1>> \o rxq
      BY <3>1, HeldTypes
    <3>3. q # <<>> /\ Head(q) = buf1 /\ Tail(q) = rxq
      BY <2>0, <3>1, <3>2, ConsProperties
    <3>4. buf1' = NoPacket /\ rxq' = rxq
      BY <2>3 DEF writev_tap
    <3>5. q' = Tail(q)
      BY <2>0, <3>3, <3>4, HeldTypes, ConcatEmptySeq
    <3>6. [buf1 EXCEPT !.len = HDR + iov1_len] = buf1
      BY <3>1, PacketTypes
    <3>7. \/ to_tap' = Append(to_tap, buf1)
          \/ "write" \in faults /\ to_tap' = to_tap
      BY <2>3, <3>6 DEF writev_tap
    <3> HIDE DEF q
    <3>8. CASE to_tap' = Append(to_tap, buf1)
      BY <3>3, <3>5, <3>8 DEF Rx!Deliver, q
    <3>9. CASE "write" \in faults /\ to_tap' = to_tap
      BY <3>3, <3>5, <3>9 DEF Rx!Lose, q
    <3> QED BY <3>7, <3>8, <3>9
  <2>4. CASE ~card_send /\ ~copy_from_card /\ ~writev_tap
    <3>1. CASE tap_input \/ card_driver_ok \/ card_post_buffer
      BY <3>1 DEF tap_input, card_driver_ok, card_post_buffer
    <3>2. CASE setup \/ poll \/ check_status \/ wait_for_card_driver
      BY <3>2 DEF setup, poll, check_status, wait_for_card_driver
    <3>3. CASE readv_tap \/ spin_for_descriptors \/ read_ring
      BY <3>3 DEF readv_tap, spin_for_descriptors, read_ring
    <3>4. CASE copy_to_card
      BY <3>4 DEF copy_to_card
    <3>5. CASE UNCHANGED vars
      BY <3>5 DEF vars
    <3> QED BY <2>4, <3>1, <3>2, <3>3, <3>4, <3>5 DEF Next, Host
  <2> QED BY <2>1, <2>2, <2>3, <2>4
<1> QED BY <1>1, <1>2, LinkInvariant, PTL DEF Spec, RxPipe, Rx!Spec
=============================================================================
