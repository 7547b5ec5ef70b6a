------------------------------ MODULE VirtLink ------------------------------
(***************************************************************************)
(* The threads virtio_net and virtio_console of a card's backend process   *)
(* (Documentation/mic/mpssd/mpssd.c).  Both run the same loop between a    *)
(* descriptor of the host (tap device, pseudoterminal) and a pair of rings *)
(* shared with the card; they differ in the header in front of a packet    *)
(* and in the size of the buffer.                                          *)
(*                                                                         *)
(* The rings' indices are 16 bit counters in the code, counters modulo     *)
(* IDX here.  The host driver (copies, poll) and the card are outside the  *)
(* repository: poll reports an event of the card once.                     *)
(***************************************************************************)
EXTENDS Integers, Sequences

CONSTANTS
  HDR,       \* sizeof(struct virtio_net_hdr), 0 for the console
  MAX,       \* MAX_NET_PKT_SIZE, PAGE_SIZE for the console
  IDX,       \* number of values of a ring index
  ENTRIES,   \* MIC_VRING_ENTRIES
  CardBuf,   \* size of the buffers that the card makes available
  Lens,      \* lengths of packets in use
  FaultSets, \* the sets of failures considered, see FaultKinds
  MaxPkts    \* bound: packets in each direction

FaultKinds == {"setup", "read", "copy", "write"}

ASSUME LinkAssumption ==
  /\ HDR \in Nat /\ MAX \in Nat /\ CardBuf \in Nat /\ MaxPkts \in Nat
  /\ IDX \in Nat /\ ENTRIES \in Nat /\ 0 < ENTRIES /\ ENTRIES < IDX
  /\ Lens \subseteq HDR + 1 .. HDR + MAX
  /\ FaultSets \subseteq SUBSET FaultKinds

Packets == [id : 1..MaxPkts, len : Lens]
NoPacket == [id |-> 0, len |-> 0]

VARIABLES
  faults,                \* the failures of this behaviour, chosen at its start
  pc,
  driver_ok,             \* VIRTIO_CONFIG_S_DRIVER_OK in desc->status
  event,                 \* poll has an event of the card to report
  revents,               \* what the last poll reported
  tap, tap_sent,         \* packets to read from the tap, sent so far
  tx_avail, tx_info,     \* buffers of the card: avail->idx, info->avail_idx
  rxq, card_sent,        \* packets in the receive ring, sent so far
  rx_avail, rx_info,     \* the receive ring's avail->idx, info->avail_idx
  iov0_len, iov1_len,    \* length of the data part of the two iovecs
  buf0, buf1,            \* the packets in the two buffers
  to_card, to_tap        \* packets delivered

host == <<pc, revents, iov0_len, iov1_len, buf0, buf1>>
txring == <<tx_avail, tx_info>>
rxring == <<rxq, rx_avail, rx_info>>
sent == <<tap_sent, card_sent>>
link == <<host, driver_ok, event, tap, txring, rxring, sent, to_card, to_tap>>
vars == <<link, faults>>

(* The 16 bit increment of a ring index, and the distance of two.          *)
Inc(i) == IF i = IDX - 1 THEN 0 ELSE i + 1
Pending(info, avail) ==
  IF info <= avail THEN avail - info ELSE avail - info + IDX

Shorter(a, b) == IF a <= b THEN a ELSE b

(* The length txrx_prepare gives the data part for len bytes to copy.      *)
txrx_prepare(len) == len - HDR

(* The bytes copied for len bytes on one side and room on the other.       *)
mic_virtio_copy(len, room) == Shorter(len, room)

Buffers == [id : 0..MaxPkts, len : 0..HDR + MAX]

HostTypeOK ==
  /\ pc \in {"setup", "exit", "poll", "check", "wait", "tap", "spin", "copy",
             "card", "copyrx", "write", "abort"}
  /\ revents \subseteq {"tap", "card"}
  /\ iov0_len \in 0..MAX /\ iov1_len \in 0..MAX
  /\ buf0 \in Buffers /\ buf1 \in Buffers

RingTypeOK ==
  /\ tx_avail \in 0..IDX - 1 /\ tx_info \in 0..IDX - 1
  /\ rx_avail \in 0..IDX - 1 /\ rx_info \in 0..IDX - 1
  /\ rxq \in Seq(Packets)

FlowTypeOK ==
  /\ driver_ok \in BOOLEAN /\ event \in BOOLEAN
  /\ tap \in Seq(Packets)
  /\ tap_sent \in 0..MaxPkts /\ card_sent \in 0..MaxPkts
  /\ to_card \in Seq(Buffers) /\ to_tap \in Seq(Buffers)

(* The types of the threads' variables: lengths fit the buffers and ring   *)
(* indices wrap.                                                           *)
TypeOK == HostTypeOK /\ RingTypeOK /\ FlowTypeOK /\ faults \in FaultSets

Init ==
  /\ faults \in FaultSets
  /\ pc = "setup" /\ revents = {}
  /\ iov0_len = MAX /\ iov1_len = MAX
  /\ buf0 = NoPacket /\ buf1 = NoPacket
  /\ driver_ok = FALSE /\ event = FALSE
  /\ tap = <<>> /\ tap_sent = 0 /\ card_sent = 0
  /\ tx_avail = 0 /\ tx_info = 0
  /\ rxq = <<>> /\ rx_avail = 0 /\ rx_info = 0
  /\ to_card = <<>> /\ to_tap = <<>>
-----------------------------------------------------------------------------
(* The network of the host, and the card.                                  *)

tap_input ==
  /\ tap_sent < MaxPkts
  /\ tap_sent' = tap_sent + 1
  /\ \E l \in Lens : tap' = Append(tap, [id |-> tap_sent + 1, len |-> l])
  /\ UNCHANGED <<host, driver_ok, event, txring, rxring, card_sent, to_card,
                 to_tap>>

card_driver_ok ==
  /\ ~driver_ok
  /\ driver_ok' = TRUE /\ event' = TRUE
  /\ UNCHANGED <<host, tap, txring, rxring, sent, to_card, to_tap>>

card_post_buffer ==
  /\ driver_ok /\ Pending(tx_info, tx_avail) < ENTRIES
  /\ tx_avail' = Inc(tx_avail)
  /\ UNCHANGED <<host, driver_ok, event, tap, tx_info, rxring, sent, to_card,
                 to_tap>>

card_send ==
  /\ driver_ok /\ Len(rxq) < ENTRIES /\ card_sent < MaxPkts
  /\ card_sent' = card_sent + 1
  /\ \E l \in Lens : rxq' = Append(rxq, [id |-> card_sent + 1, len |-> l])
  /\ rx_avail' = Inc(rx_avail)
  /\ event' = TRUE
  /\ UNCHANGED <<host, driver_ok, tap, txring, rx_info, tap_sent, to_card,
                 to_tap>>
-----------------------------------------------------------------------------
(* The loop of virtio_net and virtio_console.                              *)

goto(l) == pc' = l

(* The assertion on the length copied and the length of the iovec.         *)
verify_out_len(out_len, iovec_len, next) ==
  goto(IF out_len = iovec_len THEN next ELSE "abort")

(* The tap or pseudoterminal, and init_vr; a failure ends the thread.      *)
setup ==
  /\ pc = "setup"
  /\ goto("poll") \/ ("setup" \in faults /\ goto("exit"))
  /\ UNCHANGED <<revents, iov0_len, iov1_len, buf0, buf1, driver_ok, event,
                 tap, txring, rxring, sent, to_card, to_tap>>

poll ==
  /\ pc = "poll" /\ (event \/ tap # <<>>)
  /\ revents' = {f \in {"tap"} : tap # <<>>} \cup {f \in {"card"} : event}
  /\ event' = FALSE
  /\ goto("check")
  /\ UNCHANGED <<iov0_len, iov1_len, buf0, buf1, driver_ok, tap, txring,
                 rxring, sent, to_card, to_tap>>

check_status ==
  /\ pc = "check"
  /\ goto(IF driver_ok THEN "tap" ELSE "wait")
  /\ UNCHANGED <<revents, iov0_len, iov1_len, buf0, buf1, driver_ok, event,
                 tap, txring, rxring, sent, to_card, to_tap>>

wait_for_card_driver ==
  /\ pc = "wait" /\ event
  /\ event' = FALSE
  /\ goto(IF driver_ok THEN "tap" ELSE "wait")
  /\ UNCHANGED <<revents, iov0_len, iov1_len, buf0, buf1, driver_ok, tap,
                 txring, rxring, sent, to_card, to_tap>>

readv_tap ==
  /\ pc = "tap"
  /\ \/ /\ "tap" \in revents
        /\ tap' = Tail(tap)
        /\ buf0' = [Head(tap) EXCEPT !.len = Shorter(@, HDR + iov0_len)]
        /\ goto("spin")
     \/ /\ "tap" \notin revents \/ "read" \in faults
        /\ goto("card") /\ UNCHANGED <<tap, buf0>>
  /\ UNCHANGED <<revents, iov0_len, iov1_len, buf1, driver_ok, event, txring,
                 rxring, sent, to_card, to_tap>>

spin_for_descriptors ==
  /\ pc = "spin" /\ tx_info # tx_avail
  /\ goto("copy")
  /\ UNCHANGED <<revents, iov0_len, iov1_len, buf0, buf1, driver_ok, event,
                 tap, txring, rxring, sent, to_card, to_tap>>

(* Mutant: the iovec keeps the length of the packet that was sent.         *)
copy_to_card_no_reset ==
  /\ pc = "copy"
  /\ tx_info' = Inc(tx_info)
  /\ LET out_len == mic_virtio_copy(buf0.len, CardBuf) IN
       /\ to_card' = Append(to_card, [buf0 EXCEPT !.len = out_len])
       /\ verify_out_len(out_len, HDR + txrx_prepare(buf0.len), "card")
  /\ iov0_len' = txrx_prepare(buf0.len) /\ buf0' = NoPacket
  /\ UNCHANGED <<revents, iov1_len, buf1, driver_ok, event, tap, tx_avail,
                 rxring, sent, to_tap>>

(* txrx_prepare, mic_virtio_copy and verify_out_len on the transmit ring;  *)
(* then the length of the iovec is set for the next packet.                *)
copy_to_card ==
  /\ pc = "copy"
  /\ \/ LET out_len == mic_virtio_copy(buf0.len, CardBuf) IN
          /\ tx_info' = Inc(tx_info)
          /\ to_card' = Append(to_card, [buf0 EXCEPT !.len = out_len])
          /\ verify_out_len(out_len, HDR + txrx_prepare(buf0.len), "card")
     \/ /\ "copy" \in faults
        /\ tx_info' \in {tx_info, Inc(tx_info)}
        /\ goto("card") /\ UNCHANGED to_card
  /\ iov0_len' = MAX /\ buf0' = NoPacket
  /\ UNCHANGED <<revents, iov1_len, buf1, driver_ok, event, tap, tx_avail,
                 rxring, sent, to_tap>>

(* Mutant: the ring is looked at once for every event.                     *)
read_ring_once ==
  /\ pc = "card"
  /\ IF "card" \in revents /\ rx_info # rx_avail
     THEN goto("copyrx") /\ iov1_len' = txrx_prepare(MAX + HDR) /\ revents' = revents \ {"card"}
     ELSE goto("poll") /\ UNCHANGED <<iov1_len, revents>>
  /\ UNCHANGED <<iov0_len, buf0, buf1, driver_ok, event, tap,
                 txring, rxring, sent, to_card, to_tap>>

(* Mutant: the length of the previous packet stays in the iovec.           *)
read_ring_no_prepare ==
  /\ pc = "card"
  /\ goto(IF "card" \in revents /\ rx_info # rx_avail THEN "copyrx" ELSE "poll")
  /\ UNCHANGED <<revents, iov0_len, iov1_len, buf0, buf1, driver_ok, event,
                 tap, txring, rxring, sent, to_card, to_tap>>

(* The test of the inner loop and txrx_prepare on the receive ring.        *)
read_ring ==
  /\ pc = "card"
  /\ IF "card" \in revents /\ rx_info # rx_avail
     THEN goto("copyrx") /\ iov1_len' = txrx_prepare(MAX + HDR)
     ELSE goto("poll") /\ UNCHANGED iov1_len
  /\ UNCHANGED <<revents, iov0_len, buf0, buf1, driver_ok, event, tap,
                 txring, rxring, sent, to_card, to_tap>>

(* Mutant: the output length is not set before it is verified.             *)
copy_from_card_unset ==
  /\ pc = "copyrx"
  /\ LET out_len == mic_virtio_copy(Head(rxq).len, HDR + iov1_len) IN
       /\ buf1' = [Head(rxq) EXCEPT !.len = out_len]
       /\ verify_out_len(out_len, HDR + iov1_len, "write")
  /\ rxq' = Tail(rxq) /\ rx_info' = Inc(rx_info)
  /\ UNCHANGED <<revents, iov0_len, iov1_len, buf0, driver_ok, event, tap,
                 txring, rx_avail, sent, to_card, to_tap>>

(* mic_virtio_copy and verify_out_len on the receive ring.  If the copy    *)
(* fails the loop is left, with or without the packet in the ring.         *)
copy_from_card ==
  /\ pc = "copyrx"
  /\ \/ LET out_len == mic_virtio_copy(Head(rxq).len, HDR + iov1_len) IN
          /\ buf1' = [Head(rxq) EXCEPT !.len = out_len]
          /\ iov1_len' = out_len - HDR
          /\ verify_out_len(out_len, HDR + iov1_len', "write")
          /\ rxq' = Tail(rxq) /\ rx_info' = Inc(rx_info)
     \/ /\ "copy" \in faults
        /\ \/ rxq' = Tail(rxq) /\ rx_info' = Inc(rx_info)
           \/ UNCHANGED <<rxq, rx_info>>
        /\ goto("poll") /\ UNCHANGED <<iov1_len, buf1>>
  /\ UNCHANGED <<revents, iov0_len, buf0, driver_ok, event, tap, txring,
                 rx_avail, sent, to_card, to_tap>>

writev_tap ==
  /\ pc = "write"
  /\ \/ to_tap' = Append(to_tap, [buf1 EXCEPT !.len = HDR + iov1_len])
     \/ "write" \in faults /\ UNCHANGED to_tap
  /\ buf1' = NoPacket
  /\ goto("card")
  /\ UNCHANGED <<revents, iov0_len, iov1_len, buf0, driver_ok, event, tap,
                 txring, rxring, sent, to_card>>

Host ==
  \/ setup \/ poll \/ check_status \/ wait_for_card_driver \/ readv_tap
  \/ spin_for_descriptors \/ copy_to_card \/ read_ring \/ copy_from_card
  \/ writev_tap

Next ==
  /\ tap_input \/ card_driver_ok \/ card_post_buffer \/ card_send \/ Host
  /\ UNCHANGED faults

Spec == Init /\ [][Next]_vars

(* The thread is scheduled, and a card whose driver is up gives buffers    *)
(* back.                                                                   *)
FairSpec ==
  /\ Spec
  /\ WF_link(Host) /\ WF_link(card_driver_ok) /\ WF_link(card_post_buffer)
-----------------------------------------------------------------------------
(* The index comparison with which the loops decide whether the receive    *)
(* ring holds a packet, and spin_for_descriptors whether the transmit ring *)
(* holds a buffer, is right also after the 16 bit indices have wrapped.    *)
RingTest ==
  /\ (rx_info # rx_avail) <=> (rxq # <<>>)
  /\ Pending(rx_info, rx_avail) = Len(rxq)
  /\ Pending(tx_info, tx_avail) <= ENTRIES
  /\ pc = "copy" => Pending(tx_info, tx_avail) > 0

(* verify_out_len's assertion never fails: the lengths set by txrx_prepare *)
(* and after the receive copy agree with what the driver copied, as long   *)
(* as the card's buffers take a packet.                                    *)
NoAbort == pc # "abort"

Held(buf) == IF buf = NoPacket THEN <<>> ELSE <<buf>>

Tx == INSTANCE Pipe WITH queue <- Held(buf0) \o tap, out <- to_card,
                         lossy <- "copy" \in faults

Rx == INSTANCE Pipe WITH queue <- Held(buf1) \o rxq, out <- to_tap,
                         lossy <- faults \cap {"copy", "write"} # {}

(* What is read from the tap reaches the card unchanged, in order and at   *)
(* most once; only a copy that fails loses a packet.                       *)
TxPipe == Tx!Spec

(* What the card sends reaches the tap unchanged, in order and at most     *)
(* once; only a copy or a write that fails loses a packet.                 *)
RxPipe == Rx!Spec

(* The thread never sleeps in poll on a packet of the card: as long as no  *)
(* copy fails and it never had to wait for the card's driver, either poll  *)
(* has the packet's event to report or the inner loop empties the ring     *)
(* before the next poll, wherever the card sends between those steps.      *)
NoSleepOnPacket ==
  "copy" \notin faults /\ [](pc # "wait")
    => [](pc = "poll" /\ rxq # <<>> => event)

(* If nothing fails, every packet of the tap reaches the card and every    *)
(* packet of the card the tap, although one thread serves both directions  *)
(* and sleeps in spin_for_descriptors and poll, unless it had to wait for  *)
(* the card's driver: wait_for_card_driver takes the event of the first    *)
(* packet.                                                                 *)
AllDelivered ==
  faults = {} /\ [](pc # "wait") =>
    /\ Len(to_card) < tap_sent ~> Len(to_card) = tap_sent
    /\ Len(to_tap) < card_sent ~> Len(to_tap) = card_sent
=============================================================================
