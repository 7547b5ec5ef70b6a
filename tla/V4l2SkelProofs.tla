--------------------------- MODULE V4l2SkelProofs ---------------------------
(* Invariants of V4l2Skel, for any number of buffers, any set of timings,  *)
(* any failures and any number of frames.                                  *)
EXTENDS V4l2Skel, FiniteSetTheorems, TLAPS

USE SkelAssumption

(* What streams, runs: the handler runs and buffers are listed only while  *)
(* the engine is started, which ends before vb2 takes the buffers back.    *)
EngineInv ==
  /\ started => streaming
  /\ irq # "idle" => started
  /\ buf_list # {} => started
  /\ ioctl = "cancel" => ~started
  /\ irq \in {"captured", "removed"} => sequence < MaxFrames

(* A pending allocation asks for a buffer; one for read() has seen the     *)
(* format's field, and no handler can have changed it.  Who streams has    *)
(* buffers.                                                                *)
SetupInv ==
  /\ ioctl = "setup" => want.n >= 1
  /\ ioctl = "setup" /\ want.fileio => 
       field = format.field /\ ~streaming /\ ~vb2_is_busy
  /\ streaming => vb2_is_busy
  /\ fileio => vb2_is_busy

(* skel->field was set before the first buffer exists.                     *)
FieldInv ==
  /\ vb2_is_busy \/ ioctl = "setup" => field # "any"
  /\ irq = "stamped" => stamp.field # "any"

(* The counter is the number of the next frame.                            *)
CountInv ==
  /\ CountsFrames
  /\ irq = "stamped" => sequence = stamp.sequence + 1
  /\ started /\ irq # "stamped" =>
       sequence = IF last.field = "any" THEN 0 ELSE last.sequence + 1

(* What skel->field is while buffers exist, and that the handler knows it  *)
(* when no buffers were created during the stream.                         *)
ParityInv ==
  /\ ioctl = "setup" /\ field # format.field =>
       format.field = "alternate" /\ field \in Parities
  /\ ioctl # "setup" /\ vb2_is_busy =>
       IF format.field = "alternate" THEN field \in Parities
                                     ELSE field = format.field
  /\ streaming /\ ioctl = "setup" => disturbed
  /\ irq = "stamped" /\ ~disturbed => field = stamp.field
  /\ started /\ ~disturbed /\ format.field = "alternate" => field # last.field

(* Every format has a field that a frame can have, and a size.             *)
LEMMA FormatType ==
  ASSUME NEW i \in {0, 1}, NEW s \in {"525", "625"}, NEW t \in Timings
  PROVE  /\ fill_pix_format(i, s, t) \in Formats
         /\ fill_pix_format(i, s, t).field # "any"
         /\ fill_pix_format(i, s, t).sizeimage \in Nat
<1> DEFINE h == CASE i = 0 /\ s = "525" -> 480
                  [] i = 0 /\ s # "525" -> 576
                  [] i = 1 /\ t.interlaced -> t.height \div 2
                  [] OTHER -> t.height
           w == IF i = 0 THEN 720 ELSE t.width
           f == CASE i = 0 -> "interlaced"
                  [] i = 1 /\ t.interlaced -> "alternate"
                  [] OTHER -> "none"
<1>1. t.width \in Nat /\ t.height \in Nat /\ t.interlaced \in BOOLEAN
  OBVIOUS
<1>2. h \in Nat /\ w \in Nat
  BY <1>1
<1>3. f \in FieldValues /\ f # "any"
  BY <1>1 DEF FieldValues
<1>4. fill_pix_format(i, s, t) =
        [width |-> w, height |-> h, field |-> f, sizeimage |-> w * 2 * h]
  BY Zenon DEF fill_pix_format
<1> HIDE DEF h, w, f
<1>5. w * 2 * h \in Nat
  BY <1>2
<1> QED BY <1>2, <1>3, <1>4, <1>5 DEF Formats

(* The number of buffers to allocate is positive.                          *)
LEMMA SomeBuffers ==
  ASSUME NEW n \in Nat, n >= 1, NEW new \in SUBSET Buffers,
         Cardinality(new) = nbuffers(n)
  PROVE  new # {}
<1>1. IsFiniteSet(Allocated)
  BY FS_Subset DEF Allocated
<1>2. Cardinality(Allocated) \in Nat
  BY <1>1, FS_CardinalityType
<1>3. nbuffers(n) # 0
  BY <1>2 DEF nbuffers
<1> QED BY <1>3, FS_EmptySet

(* Starting keeps the types, gives no buffer away and begins a new count.  *)
LEMMA StartTypes ==
  ASSUME QueueTypeOK, NEW queue \in SUBSET Buffers, NEW ok \in BOOLEAN,
         start_streaming(queue, ok)
  PROVE  /\ state' \in [Buffers -> States]
         /\ buf_list' \subseteq Buffers
         /\ started' \in BOOLEAN
<1>1. state' \in [Buffers -> States] /\ buf_list' \subseteq Buffers
  BY DEF start_streaming, return_all_buffers, QueueTypeOK, States
<1>2. started' \in BOOLEAN
  <2>1. started' = TRUE \/ started' = started
    BY DEF start_streaming
  <2> QED BY <2>1, Zenon DEF QueueTypeOK
<1> QED BY <1>1, <1>2

LEMMA StartFrames ==
  ASSUME FrameTypeOK, NEW queue \in SUBSET Buffers, NEW ok \in BOOLEAN,
         start_streaming(queue, ok)
  PROVE  sequence' \in 0..MaxFrames /\ last' \in Frames /\ disturbed' \in BOOLEAN
<1>1. NoFrame \in Frames
  BY DEF NoFrame, Frames, FieldValues
<1>2. sequence' \in 0..MaxFrames /\ last' \in Frames
  BY <1>1 DEF start_streaming, FrameTypeOK
<1>3. disturbed' = FALSE \/ disturbed' = disturbed
  BY DEF start_streaming
<1> QED BY <1>2, <1>3, Zenon DEF FrameTypeOK

LEMMA StartAllocated ==
  ASSUME QueueTypeOK, NEW queue \in SUBSET Allocated, NEW ok \in BOOLEAN,
         ListOwned, start_streaming(queue, ok)
  PROVE  Allocated' = Allocated
<1>1. buf_list \subseteq Allocated
  BY DEF ListOwned, Active, Allocated, QueueTypeOK
<1>2. PICK st \in {"active", "queued"}, list \in SUBSET Allocated :
        state' = [b \in Buffers |-> IF b \in list THEN st ELSE state[b]]
  <2>1. CASE ok
    BY <2>1 DEF start_streaming
  <2>2. CASE ~ok
    <3>1. buf_list \cup queue \in SUBSET Allocated
      BY <1>1
    <3> QED BY <2>2, <3>1 DEF start_streaming, return_all_buffers
  <2> QED BY <2>1, <2>2
<1>3. \A b \in Buffers : state'[b] = "free" <=> state[b] = "free"
  BY <1>2 DEF Allocated
<1> QED BY <1>3 DEF Allocated

(* Queueing, streaming and the handler allocate and free nothing.          *)
LEMMA KeepAllocated ==
  ASSUME QueueTypeOK, FrameTypeOK, ListOwned,
         \/ \E b \in Buffers, ok \in BOOLEAN : qbuf(b, ok)
         \/ \E ok \in BOOLEAN : streamon(ok)
         \/ stop_streaming \/ queue_cancel
         \/ \E b \in Buffers : dqbuf(b)
         \/ irq_done
  PROVE  Allocated' = Allocated
<1>1. ASSUME NEW b \in Buffers, NEW ok \in BOOLEAN, qbuf(b, ok)
      PROVE  Allocated' = Allocated
  <2>1. Queued \cup {b} \in SUBSET Allocated
    BY <1>1 DEF qbuf, Queued, Allocated
  <2>2. CASE start_streaming(Queued \cup {b}, ok)
    BY <2>1, <2>2, StartAllocated
  <2>3. CASE state' = [state EXCEPT ![b] = "active"] \/ state' = [state EXCEPT ![b] = "queued"]
    BY <1>1, <2>3 DEF qbuf, Allocated, QueueTypeOK
  <2> QED BY <1>1, <2>2, <2>3 DEF qbuf
<1>2. ASSUME NEW ok \in BOOLEAN, streamon(ok)
      PROVE  Allocated' = Allocated
  <2>1. Queued \in SUBSET Allocated
    BY DEF Queued, Allocated
  <2>2. CASE start_streaming(Queued, ok)
    BY <2>1, <2>2, StartAllocated
  <2>3. CASE UNCHANGED state
    BY <2>3 DEF Allocated
  <2> QED BY <1>2, <2>2, <2>3 DEF streamon
<1>3. CASE stop_streaming
  <2>1. \A b \in buf_list : state[b] = "active"
    BY DEF ListOwned, Active
  <2> QED BY <1>3, <2>1 DEF stop_streaming, return_all_buffers, Allocated, QueueTypeOK
<1>4. CASE queue_cancel
  BY <1>4 DEF queue_cancel, Allocated, QueueTypeOK
<1>5. ASSUME NEW b \in Buffers, dqbuf(b)
      PROVE  Allocated' = Allocated
  BY <1>5 DEF dqbuf, Allocated, QueueTypeOK
<1>6. CASE irq_done
  <2>1. new_buf \in Buffers /\ state[new_buf] = "active"
    BY <1>6 DEF irq_done, ListOwned, Active, InHandler
  <2> QED BY <1>6, <2>1 DEF irq_done, Allocated, QueueTypeOK
<1> QED BY <1>1, <1>2, <1>3, <1>4, <1>5, <1>6

(* The source's types are kept, and the format is the source's.            *)
LEMMA SourceTypes ==
  ASSUME SourceTypeOK, FormatCurrent, [Next]_vars
  PROVE  SourceTypeOK' /\ FormatCurrent'
<1> USE DEF SourceTypeOK, FormatCurrent, source, vb2
<1>1. CASE skeleton_s_fmt_vid_cap
  BY <1>1, FormatType DEF skeleton_s_fmt_vid_cap
<1>2. ASSUME NEW s \in {"525", "625"}, skeleton_s_std(s)
      PROVE  SourceTypeOK' /\ FormatCurrent'
  BY <1>2, FormatType DEF skeleton_s_std
<1>3. ASSUME NEW t \in Timings, skeleton_s_dv_timings(t)
      PROVE  SourceTypeOK' /\ FormatCurrent'
  BY <1>3, FormatType DEF skeleton_s_dv_timings
<1>4. ASSUME NEW i \in {0, 1}, skeleton_s_input(i)
      PROVE  SourceTypeOK' /\ FormatCurrent'
  BY <1>4, FormatType DEF skeleton_s_input
<1>5. ASSUME NEW n \in 0..Cardinality(Buffers), reqbufs(n)
      PROVE  SourceTypeOK' /\ FormatCurrent'
  BY <1>5 DEF reqbufs, enter_queue_setup
<1>6. ASSUME NEW n \in 1..Cardinality(Buffers), NEW t \in Timings, NEW i \in {0, 1}, create_bufs(n, fill_pix_format(i, std, t).sizeimage)
      PROVE  SourceTypeOK' /\ FormatCurrent'
  BY <1>6 DEF create_bufs, enter_queue_setup
<1>7. CASE read_init
  BY <1>7 DEF read_init, enter_queue_setup
<1>8. ASSUME NEW new \in SUBSET (Buffers \ Allocated), queue_setup(new)
      PROVE  SourceTypeOK' /\ FormatCurrent'
  BY <1>8 DEF queue_setup, allocate
<1>9. ASSUME NEW b \in Buffers, NEW ok \in BOOLEAN, qbuf(b, ok)
      PROVE  SourceTypeOK' /\ FormatCurrent'
  BY <1>9 DEF qbuf, start_streaming, return_all_buffers
<1>10. ASSUME NEW ok \in BOOLEAN, streamon(ok)
      PROVE  SourceTypeOK' /\ FormatCurrent'
  BY <1>10 DEF streamon, start_streaming, return_all_buffers
<1>11. CASE stop_streaming
  BY <1>11 DEF stop_streaming, return_all_buffers
<1>12. CASE queue_cancel
  BY <1>12 DEF queue_cancel
<1>13. ASSUME NEW b \in Buffers, dqbuf(b)
      PROVE  SourceTypeOK' /\ FormatCurrent'
  BY <1>13 DEF dqbuf
<1>14. ASSUME NEW b \in Buffers, irq_captured(b)
      PROVE  SourceTypeOK' /\ FormatCurrent'
  BY <1>14 DEF irq_captured
<1>15. CASE irq_list_del
  BY <1>15 DEF irq_list_del
<1>16. CASE irq_stamp
  BY <1>16 DEF irq_stamp
<1>17. CASE irq_done
  BY <1>17 DEF irq_done
<1>18. CASE UNCHANGED vars
  BY <1>18 DEF vars
<1> QED
  BY <1>1, <1>2, <1>3, <1>4, <1>5, <1>6, <1>7, <1>8, <1>9,
     <1>10, <1>11, <1>12, <1>13, <1>14, <1>15, <1>16, <1>17, <1>18
  DEF Next, Ioctls, skeleton_irq

(* The types of buffers and ioctls are kept.                               *)
LEMMA QueueTypes ==
  ASSUME SourceTypeOK, FormatCurrent, QueueTypeOK, FrameTypeOK, [Next]_vars
  PROVE  QueueTypeOK'
<1> USE DEF QueueTypeOK, source, vb2, States, NoWant
<1>1. CASE skeleton_s_fmt_vid_cap
  BY <1>1 DEF skeleton_s_fmt_vid_cap
<1>2. ASSUME NEW s \in {"525", "625"}, skeleton_s_std(s)
      PROVE  QueueTypeOK'
  BY <1>2 DEF skeleton_s_std
<1>3. ASSUME NEW t \in Timings, skeleton_s_dv_timings(t)
      PROVE  QueueTypeOK'
  BY <1>3 DEF skeleton_s_dv_timings
<1>4. ASSUME NEW i \in {0, 1}, skeleton_s_input(i)
      PROVE  QueueTypeOK'
  BY <1>4 DEF skeleton_s_input
<1>5. ASSUME NEW n \in 0..Cardinality(Buffers), reqbufs(n)
      PROVE  QueueTypeOK'
  <2>1. fileio' \in BOOLEAN
    BY <1>5, Zenon DEF reqbufs
  <2>2. n \in Nat /\ format.sizeimage \in Nat
    BY <1>5, FormatType, FS_CardinalityType DEF SourceTypeOK, FormatCurrent
  <2>3. want' \in [n : Nat, bytes : Nat, fileio : BOOLEAN] /\ ioctl' \in {"idle", "setup", "cancel"}
    <3>1. CASE n = 0
      BY <1>5, <3>1 DEF reqbufs
    <3>2. CASE n # 0
      <4>1. want' = [n |-> n, bytes |-> format.sizeimage, fileio |-> FALSE] /\ ioctl' = "setup"
        BY <1>5, <3>2 DEF reqbufs, enter_queue_setup
      <4> QED BY <2>2, <4>1
    <3> QED BY <3>1, <3>2
  <2> QED BY <1>5, <2>1, <2>3 DEF reqbufs
<1>6. ASSUME NEW n \in 1..Cardinality(Buffers), NEW t \in Timings, NEW i \in {0, 1}, create_bufs(n, fill_pix_format(i, std, t).sizeimage)
      PROVE  QueueTypeOK'
  BY <1>6, FormatType DEF create_bufs, enter_queue_setup, SourceTypeOK
<1>7. CASE read_init
  BY <1>7, FormatType DEF read_init, enter_queue_setup, SourceTypeOK, FormatCurrent
<1>8. ASSUME NEW new \in SUBSET (Buffers \ Allocated), queue_setup(new)
      PROVE  QueueTypeOK'
  BY <1>8 DEF queue_setup, allocate
<1>9. ASSUME NEW b \in Buffers, NEW ok \in BOOLEAN, qbuf(b, ok)
      PROVE  QueueTypeOK'
  <2>1. Queued \cup {b} \in SUBSET Buffers
    BY DEF Queued
  <2>2. CASE start_streaming(Queued \cup {b}, ok)
    BY <1>9, <2>1, <2>2, StartTypes DEF qbuf
  <2>3. CASE ~start_streaming(Queued \cup {b}, ok)
    BY <1>9, <2>3 DEF qbuf
  <2> QED BY <2>2, <2>3
<1>10. ASSUME NEW ok \in BOOLEAN, streamon(ok)
      PROVE  QueueTypeOK'
  <2>1. Queued \in SUBSET Buffers
    BY DEF Queued
  <2>2. streaming' \in BOOLEAN
    <3>1. streaming' = ok \/ streaming' = TRUE
      BY <1>10 DEF streamon
    <3> QED BY <3>1, Zenon
  <2>3. CASE start_streaming(Queued, ok)
    BY <1>10, <2>1, <2>2, <2>3, StartTypes DEF streamon
  <2>4. CASE ~start_streaming(Queued, ok)
    BY <1>10, <2>2, <2>4 DEF streamon
  <2> QED BY <2>3, <2>4
<1>11. CASE stop_streaming
  BY <1>11 DEF stop_streaming, return_all_buffers
<1>12. CASE queue_cancel
  BY <1>12 DEF queue_cancel
<1>13. ASSUME NEW b \in Buffers, dqbuf(b)
      PROVE  QueueTypeOK'
  BY <1>13 DEF dqbuf
<1>14. ASSUME NEW b \in Buffers, irq_captured(b)
      PROVE  QueueTypeOK'
  BY <1>14 DEF irq_captured
<1>15. CASE irq_list_del
  BY <1>15 DEF irq_list_del
<1>16. CASE irq_stamp
  BY <1>16 DEF irq_stamp
<1>17. CASE irq_done
  BY <1>17 DEF irq_done
<1>18. CASE UNCHANGED vars
  BY <1>18 DEF vars
<1> QED
  BY <1>1, <1>2, <1>3, <1>4, <1>5, <1>6, <1>7, <1>8, <1>9,
     <1>10, <1>11, <1>12, <1>13, <1>14, <1>15, <1>16, <1>17, <1>18
  DEF Next, Ioctls, skeleton_irq

(* The types of fields and frames are kept.                                *)
LEMMA FrameTypes ==
  ASSUME SourceTypeOK, FormatCurrent, QueueTypeOK, FrameTypeOK, EngineInv, [Next]_vars
  PROVE  FrameTypeOK'
<1> USE DEF FrameTypeOK, source, vb2, handler, NoFrame, Frames
<1>1. CASE skeleton_s_fmt_vid_cap
  BY <1>1 DEF skeleton_s_fmt_vid_cap
<1>2. ASSUME NEW s \in {"525", "625"}, skeleton_s_std(s)
      PROVE  FrameTypeOK'
  BY <1>2 DEF skeleton_s_std
<1>3. ASSUME NEW t \in Timings, skeleton_s_dv_timings(t)
      PROVE  FrameTypeOK'
  BY <1>3 DEF skeleton_s_dv_timings
<1>4. ASSUME NEW i \in {0, 1}, skeleton_s_input(i)
      PROVE  FrameTypeOK'
  BY <1>4 DEF skeleton_s_input
<1>5. ASSUME NEW n \in 0..Cardinality(Buffers), reqbufs(n)
      PROVE  FrameTypeOK'
  BY <1>5, FormatType DEF reqbufs, enter_queue_setup, SourceTypeOK, Formats
<1>6. ASSUME NEW n \in 1..Cardinality(Buffers), NEW t \in Timings, NEW i \in {0, 1}, create_bufs(n, fill_pix_format(i, std, t).sizeimage)
      PROVE  FrameTypeOK'
  BY <1>6, FormatType DEF create_bufs, enter_queue_setup, SourceTypeOK, Formats
<1>7. CASE read_init
  BY <1>7, FormatType DEF read_init, enter_queue_setup, SourceTypeOK, Formats
<1>8. ASSUME NEW new \in SUBSET (Buffers \ Allocated), queue_setup(new)
      PROVE  FrameTypeOK'
  BY <1>8 DEF queue_setup, allocate, FieldValues, Parities
<1>9. ASSUME NEW b \in Buffers, NEW ok \in BOOLEAN, qbuf(b, ok)
      PROVE  FrameTypeOK'
  <2>1. Queued \cup {b} \in SUBSET Buffers
    BY DEF Queued
  <2>2. CASE start_streaming(Queued \cup {b}, ok)
    BY <1>9, <2>1, <2>2, StartFrames DEF qbuf
  <2>3. CASE ~start_streaming(Queued \cup {b}, ok)
    BY <1>9, <2>3 DEF qbuf
  <2> QED BY <2>2, <2>3
<1>10. ASSUME NEW ok \in BOOLEAN, streamon(ok)
      PROVE  FrameTypeOK'
  <2>1. Queued \in SUBSET Buffers
    BY DEF Queued
  <2>2. CASE start_streaming(Queued, ok)
    BY <1>10, <2>1, <2>2, StartFrames DEF streamon
  <2>3. CASE ~start_streaming(Queued, ok)
    BY <1>10, <2>3 DEF streamon
  <2> QED BY <2>2, <2>3
<1>11. CASE stop_streaming
  BY <1>11 DEF stop_streaming, return_all_buffers
<1>12. CASE queue_cancel
  BY <1>12 DEF queue_cancel
<1>13. ASSUME NEW b \in Buffers, dqbuf(b)
      PROVE  FrameTypeOK'
  BY <1>13 DEF dqbuf
<1>14. ASSUME NEW b \in Buffers, irq_captured(b)
      PROVE  FrameTypeOK'
  BY <1>14 DEF irq_captured
<1>15. CASE irq_list_del
  BY <1>15 DEF irq_list_del
<1>16. CASE irq_stamp
  BY <1>16 DEF irq_stamp, EngineInv
<1>17. CASE irq_done
  BY <1>17 DEF irq_done, next_field, FieldValues, Parities
<1>18. CASE UNCHANGED vars
  BY <1>18 DEF vars
<1> QED
  BY <1>1, <1>2, <1>3, <1>4, <1>5, <1>6, <1>7, <1>8, <1>9,
     <1>10, <1>11, <1>12, <1>13, <1>14, <1>15, <1>16, <1>17, <1>18
  DEF Next, Ioctls, skeleton_irq

(* When the engine is started, and what it needs.                          *)
LEMMA Engine ==
  ASSUME SourceTypeOK, FormatCurrent, QueueTypeOK, FrameTypeOK, EngineInv, [Next]_vars
  PROVE  EngineInv'
<1> USE DEF EngineInv, source, vb2, handler
<1>1. CASE skeleton_s_fmt_vid_cap
  BY <1>1 DEF skeleton_s_fmt_vid_cap
<1>2. ASSUME NEW s \in {"525", "625"}, skeleton_s_std(s)
      PROVE  EngineInv'
  BY <1>2 DEF skeleton_s_std
<1>3. ASSUME NEW t \in Timings, skeleton_s_dv_timings(t)
      PROVE  EngineInv'
  BY <1>3 DEF skeleton_s_dv_timings
<1>4. ASSUME NEW i \in {0, 1}, skeleton_s_input(i)
      PROVE  EngineInv'
  BY <1>4 DEF skeleton_s_input
<1>5. ASSUME NEW n \in 0..Cardinality(Buffers), reqbufs(n)
      PROVE  EngineInv'
  BY <1>5 DEF reqbufs, enter_queue_setup
<1>6. ASSUME NEW n \in 1..Cardinality(Buffers), NEW t \in Timings, NEW i \in {0, 1}, create_bufs(n, fill_pix_format(i, std, t).sizeimage)
      PROVE  EngineInv'
  BY <1>6 DEF create_bufs, enter_queue_setup
<1>7. CASE read_init
  BY <1>7 DEF read_init, enter_queue_setup
<1>8. ASSUME NEW new \in SUBSET (Buffers \ Allocated), queue_setup(new)
      PROVE  EngineInv'
  BY <1>8 DEF queue_setup, allocate
<1>9. ASSUME NEW b \in Buffers, NEW ok \in BOOLEAN, qbuf(b, ok)
      PROVE  EngineInv'
  BY <1>9 DEF qbuf, start_streaming, return_all_buffers
<1>10. ASSUME NEW ok \in BOOLEAN, streamon(ok)
      PROVE  EngineInv'
  BY <1>10 DEF streamon, start_streaming, return_all_buffers
<1>11. CASE stop_streaming
  BY <1>11 DEF stop_streaming, return_all_buffers
<1>12. CASE queue_cancel
  BY <1>12 DEF queue_cancel
<1>13. ASSUME NEW b \in Buffers, dqbuf(b)
      PROVE  EngineInv'
  BY <1>13 DEF dqbuf
<1>14. ASSUME NEW b \in Buffers, irq_captured(b)
      PROVE  EngineInv'
  BY <1>14 DEF irq_captured
<1>15. CASE irq_list_del
  BY <1>15 DEF irq_list_del
<1>16. CASE irq_stamp
  BY <1>16 DEF irq_stamp
<1>17. CASE irq_done
  BY <1>17 DEF irq_done
<1>18. CASE UNCHANGED vars
  BY <1>18 DEF vars
<1> QED
  BY <1>1, <1>2, <1>3, <1>4, <1>5, <1>6, <1>7, <1>8, <1>9,
     <1>10, <1>11, <1>12, <1>13, <1>14, <1>15, <1>16, <1>17, <1>18
  DEF Next, Ioctls, skeleton_irq

(* What the driver owns.                                                   *)
LEMMA Owned ==
  ASSUME SourceTypeOK, FormatCurrent, QueueTypeOK, FrameTypeOK, EngineInv, ListOwned, [Next]_vars
  PROVE  ListOwned'
<1> USE DEF ListOwned, Active, InHandler, source, vb2, handler
<1>1. CASE skeleton_s_fmt_vid_cap
  BY <1>1 DEF skeleton_s_fmt_vid_cap
<1>2. ASSUME NEW s \in {"525", "625"}, skeleton_s_std(s)
      PROVE  ListOwned'
  BY <1>2 DEF skeleton_s_std
<1>3. ASSUME NEW t \in Timings, skeleton_s_dv_timings(t)
      PROVE  ListOwned'
  BY <1>3 DEF skeleton_s_dv_timings
<1>4. ASSUME NEW i \in {0, 1}, skeleton_s_input(i)
      PROVE  ListOwned'
  BY <1>4 DEF skeleton_s_input
<1>5. ASSUME NEW n \in 0..Cardinality(Buffers), reqbufs(n)
      PROVE  ListOwned'
  BY <1>5 DEF reqbufs, enter_queue_setup, EngineInv, QueueTypeOK, FrameTypeOK
<1>6. ASSUME NEW n \in 1..Cardinality(Buffers), NEW t \in Timings, NEW i \in {0, 1}, create_bufs(n, fill_pix_format(i, std, t).sizeimage)
      PROVE  ListOwned'
  BY <1>6 DEF create_bufs, enter_queue_setup
<1>7. CASE read_init
  BY <1>7 DEF read_init, enter_queue_setup
<1>8. ASSUME NEW new \in SUBSET (Buffers \ Allocated), queue_setup(new)
      PROVE  ListOwned'
  BY <1>8 DEF queue_setup, allocate, QueueTypeOK, Allocated
<1>9. ASSUME NEW b \in Buffers, NEW ok \in BOOLEAN, qbuf(b, ok)
      PROVE  ListOwned'
  BY <1>9 DEF qbuf, start_streaming, return_all_buffers, EngineInv, QueueTypeOK, Queued
<1>10. ASSUME NEW ok \in BOOLEAN, streamon(ok)
      PROVE  ListOwned'
  BY <1>10 DEF streamon, start_streaming, return_all_buffers, EngineInv, QueueTypeOK, Queued
<1>11. CASE stop_streaming
  BY <1>11 DEF stop_streaming, return_all_buffers, EngineInv, QueueTypeOK, FrameTypeOK
<1>12. CASE queue_cancel
  BY <1>12 DEF queue_cancel, EngineInv, QueueTypeOK, FrameTypeOK
<1>13. ASSUME NEW b \in Buffers, dqbuf(b)
      PROVE  ListOwned'
  BY <1>13 DEF dqbuf, EngineInv, QueueTypeOK, FrameTypeOK
<1>14. ASSUME NEW b \in Buffers, irq_captured(b)
      PROVE  ListOwned'
  BY <1>14 DEF irq_captured, EngineInv, QueueTypeOK, FrameTypeOK
<1>15. CASE irq_list_del
  <2>1. new_buf \in buf_list /\ Active' = buf_list
    BY <1>15 DEF irq_list_del
  <2>2. buf_list' = buf_list \ {new_buf} /\ InHandler' = {new_buf} /\ irq' = "removed"
    BY <1>15 DEF irq_list_del
  <2> HIDE DEF Active, InHandler
  <2> QED BY <2>1, <2>2
<1>16. CASE irq_stamp
  BY <1>16 DEF irq_stamp
<1>17. CASE irq_done
  BY <1>17 DEF irq_done, EngineInv, QueueTypeOK, FrameTypeOK
<1>18. CASE UNCHANGED vars
  BY <1>18 DEF vars
<1> QED
  BY <1>1, <1>2, <1>3, <1>4, <1>5, <1>6, <1>7, <1>8, <1>9,
     <1>10, <1>11, <1>12, <1>13, <1>14, <1>15, <1>16, <1>17, <1>18
  DEF Next, Ioctls, skeleton_irq

(* Buffers fit the format: it changes only while there are none.           *)
LEMMA Fit ==
  ASSUME SourceTypeOK, FormatCurrent, QueueTypeOK, FrameTypeOK, ListOwned, BuffersFit, [Next]_vars
  PROVE  BuffersFit'
<1> USE DEF BuffersFit, vb2_is_busy, source, vb2, QueueTypeOK
<1>1. CASE skeleton_s_fmt_vid_cap
  BY <1>1 DEF skeleton_s_fmt_vid_cap, Allocated
<1>2. ASSUME NEW s \in {"525", "625"}, skeleton_s_std(s)
      PROVE  BuffersFit'
  BY <1>2 DEF skeleton_s_std, Allocated
<1>3. ASSUME NEW t \in Timings, skeleton_s_dv_timings(t)
      PROVE  BuffersFit'
  BY <1>3 DEF skeleton_s_dv_timings, Allocated
<1>4. ASSUME NEW i \in {0, 1}, skeleton_s_input(i)
      PROVE  BuffersFit'
  BY <1>4 DEF skeleton_s_input, Allocated
<1>5. ASSUME NEW n \in 0..Cardinality(Buffers), reqbufs(n)
      PROVE  BuffersFit'
  BY <1>5 DEF reqbufs, enter_queue_setup, Allocated
<1>6. ASSUME NEW n \in 1..Cardinality(Buffers), NEW t \in Timings, NEW i \in {0, 1}, create_bufs(n, fill_pix_format(i, std, t).sizeimage)
      PROVE  BuffersFit'
  BY <1>6 DEF create_bufs, enter_queue_setup, Allocated
<1>7. CASE read_init
  BY <1>7 DEF read_init, enter_queue_setup, Allocated
<1>8. ASSUME NEW new \in SUBSET (Buffers \ Allocated), queue_setup(new)
      PROVE  BuffersFit'
  BY <1>8 DEF queue_setup, allocate, Allocated, SourceTypeOK, Formats
<1>9. ASSUME NEW b \in Buffers, NEW ok \in BOOLEAN, qbuf(b, ok)
      PROVE  BuffersFit'
  BY <1>9, KeepAllocated DEF qbuf, start_streaming, return_all_buffers
<1>10. ASSUME NEW ok \in BOOLEAN, streamon(ok)
      PROVE  BuffersFit'
  BY <1>10, KeepAllocated DEF streamon, start_streaming, return_all_buffers
<1>11. CASE stop_streaming
  BY <1>11, KeepAllocated DEF stop_streaming, return_all_buffers
<1>12. CASE queue_cancel
  BY <1>12, KeepAllocated DEF queue_cancel
<1>13. ASSUME NEW b \in Buffers, dqbuf(b)
      PROVE  BuffersFit'
  BY <1>13, KeepAllocated DEF dqbuf
<1>14. ASSUME NEW b \in Buffers, irq_captured(b)
      PROVE  BuffersFit'
  BY <1>14 DEF irq_captured, Allocated
<1>15. CASE irq_list_del
  BY <1>15 DEF irq_list_del, Allocated
<1>16. CASE irq_stamp
  BY <1>16 DEF irq_stamp, Allocated
<1>17. CASE irq_done
  BY <1>17, KeepAllocated DEF irq_done
<1>18. CASE UNCHANGED vars
  BY <1>18 DEF vars, Allocated
<1> QED
  BY <1>1, <1>2, <1>3, <1>4, <1>5, <1>6, <1>7, <1>8, <1>9,
     <1>10, <1>11, <1>12, <1>13, <1>14, <1>15, <1>16, <1>17, <1>18
  DEF Next, Ioctls, skeleton_irq

(* A read() that was refused allocates nothing.                            *)
LEMMA Setup ==
  ASSUME SourceTypeOK, FormatCurrent, QueueTypeOK, FrameTypeOK, ListOwned, EngineInv, SetupInv, ReadNotAlternate, [Next]_vars
  PROVE  SetupInv' /\ ReadNotAlternate'
<1> USE DEF SetupInv, ReadNotAlternate, EngineInv, vb2_is_busy, source, vb2, QueueTypeOK
<1>1. CASE skeleton_s_fmt_vid_cap
  BY <1>1 DEF skeleton_s_fmt_vid_cap, Allocated
<1>2. ASSUME NEW s \in {"525", "625"}, skeleton_s_std(s)
      PROVE  SetupInv' /\ ReadNotAlternate'
  BY <1>2 DEF skeleton_s_std, Allocated
<1>3. ASSUME NEW t \in Timings, skeleton_s_dv_timings(t)
      PROVE  SetupInv' /\ ReadNotAlternate'
  BY <1>3 DEF skeleton_s_dv_timings, Allocated
<1>4. ASSUME NEW i \in {0, 1}, skeleton_s_input(i)
      PROVE  SetupInv' /\ ReadNotAlternate'
  BY <1>4 DEF skeleton_s_input, Allocated
<1>5. ASSUME NEW n \in 0..Cardinality(Buffers), reqbufs(n)
      PROVE  SetupInv' /\ ReadNotAlternate'
  <2>1. ~fileio' /\ ~streaming'
    BY <1>5 DEF reqbufs
  <2>2. CASE n = 0
    <3>1. ioctl' = "idle"
      BY <1>5, <2>2 DEF reqbufs
    <3> QED BY <2>1, <3>1
  <2>3. CASE n # 0
    <3>1. want' = [n |-> n, bytes |-> format.sizeimage, fileio |-> FALSE]
      BY <1>5, <2>3 DEF reqbufs, enter_queue_setup
    <3>2. want'.n >= 1 /\ ~want'.fileio
      BY <2>3, <3>1, FS_CardinalityType
    <3> QED BY <2>1, <3>2
  <2> QED BY <2>2, <2>3
<1>6. ASSUME NEW n \in 1..Cardinality(Buffers), NEW t \in Timings, NEW i \in {0, 1}, create_bufs(n, fill_pix_format(i, std, t).sizeimage)
      PROVE  SetupInv' /\ ReadNotAlternate'
  <2>1. want' = [n |-> n, bytes |-> fill_pix_format(i, std, t).sizeimage, fileio |-> FALSE]
    BY <1>6 DEF create_bufs, enter_queue_setup
  <2>2. want'.n >= 1 /\ ~want'.fileio
    BY <2>1, FS_CardinalityType
  <2>3. Allocated' = Allocated /\ UNCHANGED <<streaming, fileio, format>>
    BY <1>6 DEF create_bufs, Allocated
  <2> QED BY <2>2, <2>3
<1>7. CASE read_init
  BY <1>7 DEF read_init, enter_queue_setup, Allocated
<1>8. ASSUME NEW new \in SUBSET (Buffers \ Allocated), queue_setup(new)
      PROVE  SetupInv' /\ ReadNotAlternate'
  <2>1. ioctl = "setup" /\ ioctl' = "idle" /\ UNCHANGED <<streaming, format>>
    BY <1>8 DEF queue_setup
  <2>2. CASE UNCHANGED <<state, fileio>>
    BY <2>1, <2>2 DEF Allocated
  <2>3. CASE Cardinality(new) = nbuffers(want.n) /\ allocate(new)
             /\ ~(field = "alternate" /\ want.fileio)
    <3>1. new # {}
      BY <2>1, <2>3, SomeBuffers
    <3>2. Allocated' = Allocated \cup new
      BY <2>3 DEF allocate, Allocated
    <3>3. Allocated' # {}
      BY <3>1, <3>2
    <3>4. fileio' => format'.field # "alternate"
      BY <2>1, <2>3 DEF allocate
    <3> QED BY <2>1, <3>3, <3>4
  <2> QED BY <1>8, <2>2, <2>3 DEF queue_setup
<1>9. ASSUME NEW b \in Buffers, NEW ok \in BOOLEAN, qbuf(b, ok)
      PROVE  SetupInv' /\ ReadNotAlternate'
  BY <1>9, KeepAllocated DEF qbuf, start_streaming, return_all_buffers
<1>10. ASSUME NEW ok \in BOOLEAN, streamon(ok)
      PROVE  SetupInv' /\ ReadNotAlternate'
  BY <1>10, KeepAllocated DEF streamon, start_streaming, return_all_buffers
<1>11. CASE stop_streaming
  BY <1>11, KeepAllocated DEF stop_streaming, return_all_buffers
<1>12. CASE queue_cancel
  BY <1>12, KeepAllocated DEF queue_cancel
<1>13. ASSUME NEW b \in Buffers, dqbuf(b)
      PROVE  SetupInv' /\ ReadNotAlternate'
  BY <1>13, KeepAllocated DEF dqbuf
<1>14. ASSUME NEW b \in Buffers, irq_captured(b)
      PROVE  SetupInv' /\ ReadNotAlternate'
  BY <1>14 DEF irq_captured, Allocated
<1>15. CASE irq_list_del
  BY <1>15 DEF irq_list_del, Allocated
<1>16. CASE irq_stamp
  BY <1>16 DEF irq_stamp, Allocated
<1>17. CASE irq_done
  BY <1>17, KeepAllocated DEF irq_done
<1>18. CASE UNCHANGED vars
  BY <1>18 DEF vars, Allocated
<1> QED
  BY <1>1, <1>2, <1>3, <1>4, <1>5, <1>6, <1>7, <1>8, <1>9,
     <1>10, <1>11, <1>12, <1>13, <1>14, <1>15, <1>16, <1>17, <1>18
  DEF Next, Ioctls, skeleton_irq

(* The field of a frame is never unset.                                    *)
LEMMA FieldSet ==
  ASSUME SourceTypeOK, FormatCurrent, QueueTypeOK, FrameTypeOK, ListOwned, FieldInv, [Next]_vars
  PROVE  FieldInv'
<1> USE DEF FieldInv, vb2_is_busy, source, vb2, handler, QueueTypeOK
<1>1. CASE skeleton_s_fmt_vid_cap
  BY <1>1 DEF skeleton_s_fmt_vid_cap, Allocated
<1>2. ASSUME NEW s \in {"525", "625"}, skeleton_s_std(s)
      PROVE  FieldInv'
  BY <1>2 DEF skeleton_s_std, Allocated
<1>3. ASSUME NEW t \in Timings, skeleton_s_dv_timings(t)
      PROVE  FieldInv'
  BY <1>3 DEF skeleton_s_dv_timings, Allocated
<1>4. ASSUME NEW i \in {0, 1}, skeleton_s_input(i)
      PROVE  FieldInv'
  BY <1>4 DEF skeleton_s_input, Allocated
<1>5. ASSUME NEW n \in 0..Cardinality(Buffers), reqbufs(n)
      PROVE  FieldInv'
  <2>1. format.field # "any"
    BY FormatType DEF SourceTypeOK, FormatCurrent
  <2>2. UNCHANGED <<irq, stamp>>
    BY <1>5 DEF reqbufs, enter_queue_setup
  <2> QED BY <1>5, <2>1, <2>2 DEF reqbufs, enter_queue_setup, Allocated
<1>6. ASSUME NEW n \in 1..Cardinality(Buffers), NEW t \in Timings, NEW i \in {0, 1}, create_bufs(n, fill_pix_format(i, std, t).sizeimage)
      PROVE  FieldInv'
  <2>1. format.field # "any"
    BY FormatType DEF SourceTypeOK, FormatCurrent
  <2>2. UNCHANGED <<irq, stamp>>
    BY <1>6 DEF create_bufs, enter_queue_setup
  <2> QED BY <1>6, <2>1, <2>2 DEF create_bufs, enter_queue_setup, Allocated
<1>7. CASE read_init
  <2>1. format.field # "any"
    BY FormatType DEF SourceTypeOK, FormatCurrent
  <2>2. UNCHANGED <<irq, stamp>>
    BY <1>7 DEF read_init, enter_queue_setup
  <2> QED BY <1>7, <2>1, <2>2 DEF read_init, enter_queue_setup, Allocated
<1>8. ASSUME NEW new \in SUBSET (Buffers \ Allocated), queue_setup(new)
      PROVE  FieldInv'
  BY <1>8 DEF queue_setup, allocate, Allocated
<1>9. ASSUME NEW b \in Buffers, NEW ok \in BOOLEAN, qbuf(b, ok)
      PROVE  FieldInv'
  BY <1>9, KeepAllocated DEF qbuf, start_streaming, return_all_buffers
<1>10. ASSUME NEW ok \in BOOLEAN, streamon(ok)
      PROVE  FieldInv'
  BY <1>10, KeepAllocated DEF streamon, start_streaming, return_all_buffers
<1>11. CASE stop_streaming
  BY <1>11, KeepAllocated DEF stop_streaming, return_all_buffers
<1>12. CASE queue_cancel
  BY <1>12, KeepAllocated DEF queue_cancel
<1>13. ASSUME NEW b \in Buffers, dqbuf(b)
      PROVE  FieldInv'
  BY <1>13, KeepAllocated DEF dqbuf
<1>14. ASSUME NEW b \in Buffers, irq_captured(b)
      PROVE  FieldInv'
  BY <1>14 DEF irq_captured, Allocated
<1>15. CASE irq_list_del
  BY <1>15 DEF irq_list_del, Allocated
<1>16. CASE irq_stamp
  BY <1>16 DEF irq_stamp, Allocated, ListOwned, Active, InHandler
<1>17. CASE irq_done
  BY <1>17, KeepAllocated DEF irq_done, next_field, Parities
<1>18. CASE UNCHANGED vars
  BY <1>18 DEF vars, Allocated
<1> QED
  BY <1>1, <1>2, <1>3, <1>4, <1>5, <1>6, <1>7, <1>8, <1>9,
     <1>10, <1>11, <1>12, <1>13, <1>14, <1>15, <1>16, <1>17, <1>18
  DEF Next, Ioctls, skeleton_irq

(* The counter is the number of the next frame.                            *)
LEMMA Count ==
  ASSUME SourceTypeOK, FormatCurrent, QueueTypeOK, FrameTypeOK, EngineInv, FieldInv, CountInv, [Next]_vars
  PROVE  CountInv'
<1> USE DEF CountInv, CountsFrames, source, vb2, handler
<1>1. CASE skeleton_s_fmt_vid_cap
  BY <1>1 DEF skeleton_s_fmt_vid_cap
<1>2. ASSUME NEW s \in {"525", "625"}, skeleton_s_std(s)
      PROVE  CountInv'
  BY <1>2 DEF skeleton_s_std
<1>3. ASSUME NEW t \in Timings, skeleton_s_dv_timings(t)
      PROVE  CountInv'
  BY <1>3 DEF skeleton_s_dv_timings
<1>4. ASSUME NEW i \in {0, 1}, skeleton_s_input(i)
      PROVE  CountInv'
  BY <1>4 DEF skeleton_s_input
<1>5. ASSUME NEW n \in 0..Cardinality(Buffers), reqbufs(n)
      PROVE  CountInv'
  BY <1>5 DEF reqbufs, enter_queue_setup, EngineInv
<1>6. ASSUME NEW n \in 1..Cardinality(Buffers), NEW t \in Timings, NEW i \in {0, 1}, create_bufs(n, fill_pix_format(i, std, t).sizeimage)
      PROVE  CountInv'
  BY <1>6 DEF create_bufs, enter_queue_setup
<1>7. CASE read_init
  BY <1>7 DEF read_init, enter_queue_setup
<1>8. ASSUME NEW new \in SUBSET (Buffers \ Allocated), queue_setup(new)
      PROVE  CountInv'
  BY <1>8 DEF queue_setup, allocate
<1>9. ASSUME NEW b \in Buffers, NEW ok \in BOOLEAN, qbuf(b, ok)
      PROVE  CountInv'
  <2>1. UNCHANGED <<irq, stamp>>
    BY <1>9 DEF qbuf
  <2>2. CASE UNCHANGED <<started, sequence, last>>
    BY <2>1, <2>2
  <2>3. CASE ~started /\ sequence' = 0 /\ last' = NoFrame
    BY <2>1, <2>3 DEF EngineInv, NoFrame
  <2>4. CASE ~started /\ UNCHANGED <<started, last>>
    BY <2>1, <2>4 DEF EngineInv
  <2> QED BY <1>9, <2>2, <2>3, <2>4 DEF qbuf, start_streaming
<1>10. ASSUME NEW ok \in BOOLEAN, streamon(ok)
      PROVE  CountInv'
  <2>1. ~started /\ UNCHANGED <<irq, stamp>>
    BY <1>10 DEF streamon, EngineInv
  <2>2. CASE sequence' = 0 /\ last' = NoFrame
    BY <2>1, <2>2 DEF EngineInv, NoFrame
  <2>3. CASE UNCHANGED <<started, last>>
    BY <2>1, <2>3 DEF EngineInv
  <2> QED BY <1>10, <2>2, <2>3 DEF streamon, start_streaming
<1>11. CASE stop_streaming
  BY <1>11 DEF stop_streaming, return_all_buffers, EngineInv
<1>12. CASE queue_cancel
  BY <1>12 DEF queue_cancel, EngineInv
<1>13. ASSUME NEW b \in Buffers, dqbuf(b)
      PROVE  CountInv'
  BY <1>13 DEF dqbuf
<1>14. ASSUME NEW b \in Buffers, irq_captured(b)
      PROVE  CountInv'
  BY <1>14 DEF irq_captured
<1>15. CASE irq_list_del
  BY <1>15 DEF irq_list_del
<1>16. CASE irq_stamp
  BY <1>16 DEF irq_stamp, FrameTypeOK, EngineInv
<1>17. CASE irq_done
  BY <1>17 DEF irq_done, FieldInv, FrameTypeOK, Frames
<1>18. CASE UNCHANGED vars
  BY <1>18 DEF vars
<1> QED
  BY <1>1, <1>2, <1>3, <1>4, <1>5, <1>6, <1>7, <1>8, <1>9,
     <1>10, <1>11, <1>12, <1>13, <1>14, <1>15, <1>16, <1>17, <1>18
  DEF Next, Ioctls, skeleton_irq

(* The field is the handler's alone while it runs undisturbed.             *)
LEMMA Parity ==
  ASSUME SourceTypeOK, FormatCurrent, QueueTypeOK, FrameTypeOK, ListOwned, EngineInv, FieldInv, SetupInv, ParityInv, [Next]_vars
  PROVE  ParityInv'
<1> USE DEF ParityInv, EngineInv, SetupInv, vb2_is_busy, source, vb2, handler, Parities
<1>1. CASE skeleton_s_fmt_vid_cap
  BY <1>1 DEF skeleton_s_fmt_vid_cap, Allocated
<1>2. ASSUME NEW s \in {"525", "625"}, skeleton_s_std(s)
      PROVE  ParityInv'
  BY <1>2 DEF skeleton_s_std, Allocated
<1>3. ASSUME NEW t \in Timings, skeleton_s_dv_timings(t)
      PROVE  ParityInv'
  BY <1>3 DEF skeleton_s_dv_timings, Allocated
<1>4. ASSUME NEW i \in {0, 1}, skeleton_s_input(i)
      PROVE  ParityInv'
  BY <1>4 DEF skeleton_s_input, Allocated
<1>5. ASSUME NEW n \in 0..Cardinality(Buffers), reqbufs(n)
      PROVE  ParityInv'
  BY <1>5 DEF reqbufs, enter_queue_setup, Allocated
<1>6. ASSUME NEW n \in 1..Cardinality(Buffers), NEW t \in Timings, NEW i \in {0, 1}, create_bufs(n, fill_pix_format(i, std, t).sizeimage)
      PROVE  ParityInv'
  BY <1>6 DEF create_bufs, enter_queue_setup, Allocated
<1>7. CASE read_init
  BY <1>7 DEF read_init, enter_queue_setup, Allocated
<1>8. ASSUME NEW new \in SUBSET (Buffers \ Allocated), queue_setup(new)
      PROVE  ParityInv'
  BY <1>8 DEF queue_setup, allocate, Allocated
<1>9. ASSUME NEW b \in Buffers, NEW ok \in BOOLEAN, qbuf(b, ok)
      PROVE  ParityInv'
  <2>1. Allocated' = Allocated
    BY <1>9, KeepAllocated
  <2>2. b \in Allocated
    BY <1>9 DEF qbuf, Allocated
  <2>3. field # "any" /\ ioctl = "idle" /\ UNCHANGED <<format, field, ioctl, irq, stamp, streaming>>
    BY <1>9, <2>2 DEF qbuf, FieldInv
  <2>4. CASE UNCHANGED <<started, last, disturbed>>
    BY <2>1, <2>3, <2>4
  <2>5. CASE ~started /\ last' = NoFrame
    <3>1. irq = "idle" /\ last'.field = "any"
      BY <2>5 DEF NoFrame
    <3> QED BY <2>1, <2>3, <2>5, <3>1
  <2> QED BY <1>9, <2>4, <2>5 DEF qbuf, start_streaming
<1>10. ASSUME NEW ok \in BOOLEAN, streamon(ok)
      PROVE  ParityInv'
  <2>1. Allocated' = Allocated
    BY <1>10, KeepAllocated
  <2>2. /\ vb2_is_busy /\ field # "any" /\ ioctl = "idle" /\ ~started /\ irq = "idle"
        /\ UNCHANGED <<format, field, ioctl, irq, stamp>>
    BY <1>10 DEF streamon, FieldInv
  <2>3. CASE UNCHANGED <<started, last, disturbed>>
    BY <2>1, <2>2, <2>3
  <2>4. CASE last' = NoFrame
    <3>1. last'.field = "any"
      BY <2>4 DEF NoFrame
    <3> QED BY <2>1, <2>2, <3>1
  <2> QED BY <1>10, <2>3, <2>4 DEF streamon, start_streaming
<1>11. CASE stop_streaming
  BY <1>11, KeepAllocated DEF stop_streaming, return_all_buffers
<1>12. CASE queue_cancel
  BY <1>12, KeepAllocated DEF queue_cancel
<1>13. ASSUME NEW b \in Buffers, dqbuf(b)
      PROVE  ParityInv'
  BY <1>13, KeepAllocated DEF dqbuf
<1>14. ASSUME NEW b \in Buffers, irq_captured(b)
      PROVE  ParityInv'
  BY <1>14 DEF irq_captured, Allocated
<1>15. CASE irq_list_del
  BY <1>15 DEF irq_list_del, Allocated
<1>16. CASE irq_stamp
  BY <1>16 DEF irq_stamp, Allocated
<1>17. CASE irq_done
  BY <1>17, KeepAllocated DEF irq_done, next_field
<1>18. CASE UNCHANGED vars
  BY <1>18 DEF vars, Allocated
<1> QED
  BY <1>1, <1>2, <1>3, <1>4, <1>5, <1>6, <1>7, <1>8, <1>9,
     <1>10, <1>11, <1>12, <1>13, <1>14, <1>15, <1>16, <1>17, <1>18
  DEF Next, Ioctls, skeleton_irq

(* The invariant that is kept as a whole.                                  *)
Inv ==
  /\ TypeOK /\ FormatCurrent /\ EngineInv /\ ListOwned /\ BuffersFit
  /\ SetupInv /\ ReadNotAlternate /\ FieldInv /\ CountInv /\ ParityInv

LEMMA InitInv == Init => Inv
<1> SUFFICES ASSUME Init PROVE Inv
  OBVIOUS
<1>1. timings \in Timings /\ format = fill_pix_format(input, std, timings)
      /\ input = 0 /\ std = "625"
  BY DEF Init
<1>2. SourceTypeOK /\ FormatCurrent
  <2>1. tvnorms \in BOOLEAN /\ tvnorms = (input = 0)
    BY <1>1, Zenon DEF Init
  <2> QED BY <1>1, <2>1, FormatType DEF SourceTypeOK, FormatCurrent
<1>3. QueueTypeOK
  <2>1. streaming \in BOOLEAN /\ started \in BOOLEAN /\ fileio \in BOOLEAN
    BY Zenon DEF Init
  <2> QED BY <2>1 DEF Init, QueueTypeOK, NoWant, States
<1>4. FrameTypeOK
  <2>1. disturbed \in BOOLEAN
    BY Zenon DEF Init
  <2> QED BY <2>1 DEF Init, FrameTypeOK, NoFrame, Frames, FieldValues
<1>5. Allocated = {} /\ ~vb2_is_busy
  BY DEF Init, Allocated, vb2_is_busy
<1>6. ListOwned
  BY DEF Init, ListOwned, Active, InHandler
<1> QED
  BY <1>2, <1>3, <1>4, <1>5, <1>6
  DEF Init, Inv, TypeOK, EngineInv, BuffersFit, SetupInv, ReadNotAlternate,
      FieldInv, CountInv, CountsFrames, ParityInv

LEMMA StepInv == Inv /\ [Next]_vars => Inv'
<1> SUFFICES ASSUME Inv, [Next]_vars PROVE Inv'
  OBVIOUS
<1> USE DEF Inv, TypeOK
<1>1. SourceTypeOK' /\ FormatCurrent'
  BY SourceTypes
<1>2. QueueTypeOK' /\ FrameTypeOK'
  BY QueueTypes, FrameTypes
<1>3. EngineInv' /\ ListOwned'
  BY Engine, Owned
<1>4. BuffersFit' /\ SetupInv' /\ ReadNotAlternate'
  BY Fit, Setup
<1>5. FieldInv' /\ CountInv' /\ ParityInv'
  BY FieldSet, Count, Parity
<1> QED BY <1>1, <1>2, <1>3, <1>4, <1>5

LEMMA SkelInv == Spec => []Inv
BY InitInv, StepInv, PTL DEF Spec

(* The driver's variables keep their types.                                *)
THEOREM SkelTypeCorrect == Spec => []TypeOK
<1>1. Inv => TypeOK
  BY DEF Inv
<1> QED BY <1>1, SkelInv, PTL

(* Whatever is changed and allocated, buffers fit the current format, and  *)
(* buffer_prepare accepts every one.                                       *)
THEOREM BuffersAlwaysFit == Spec => [](FormatCurrent /\ BuffersFit)
<1>1. Inv => FormatCurrent /\ BuffersFit
  BY DEF Inv
<1> QED BY <1>1, SkelInv, PTL

(* Each buffer given to the driver is on its list or in its handler until  *)
(* it is given back, exactly once, however ioctls and interrupts mix.      *)
THEOREM OwnershipExact == Spec => []ListOwned
<1>1. Inv => ListOwned
  BY DEF Inv
<1> QED BY <1>1, SkelInv, PTL

(* Nothing is left with the driver when stop_streaming returns.            *)
THEOREM StopReturnsAll == Spec => []AllReturned
<1>1. Inv => AllReturned
  BY DEF Inv, AllReturned, EngineInv, ListOwned, InHandler
<1> QED BY <1>1, SkelInv, PTL

(* read() is never served alternating fields.                              *)
THEOREM ReadNeverAlternates == Spec => []ReadNotAlternate
<1>1. Inv => ReadNotAlternate
  BY DEF Inv
<1> QED BY <1>1, SkelInv, PTL

(* The buffers of every stream are numbered from zero without a gap.       *)
THEOREM FramesInOrder == Spec => []CountsFrames
<1>1. Inv => CountsFrames
  BY DEF Inv, CountInv
<1> QED BY <1>1, SkelInv, PTL

(* The handler reports the field of the format, and alternating fields in  *)
(* turn, in every stream during which queue_setup does not run: the field  *)
(* the handler toggles is then written by nobody else.                     *)
THEOREM FieldsAlternateAlways == Spec => []FieldsAlternate
<1>1. Inv => FieldsAlternate
  BY DEF Inv, FieldsAlternate, FieldRight, ParityInv, EngineInv, SetupInv
<1> QED BY <1>1, SkelInv, PTL

-----------------------------------------------------------------------------
(* The number of buffers.                                                  *)

(* queue_setup asks for what is missing to three buffers.                  *)
LEMMA AllocateEnough ==
  ASSUME QueueTypeOK, NEW new \in SUBSET (Buffers \ Allocated),
         Cardinality(new) = nbuffers(want.n), Allocated' = Allocated \cup new
  PROVE  Cardinality(Allocated') >= 3
<1>1. IsFiniteSet(Allocated) /\ IsFiniteSet(new)
  BY FS_Subset DEF Allocated
<1>2. Cardinality(Allocated) \in Nat /\ want.n \in Nat
  BY <1>1, FS_CardinalityType DEF QueueTypeOK
<1>3. Cardinality(Allocated) + nbuffers(want.n) >= 3
  BY <1>2 DEF nbuffers
<1>4. Allocated \cap new = {}
  OBVIOUS
<1>5. Cardinality(Allocated \cap new) = 0
  BY <1>4, FS_EmptySet
<1>6. Cardinality(Allocated \cup new) =
        Cardinality(Allocated) + Cardinality(new) - Cardinality(Allocated \cap new)
  BY <1>1, FS_Union
<1>7. nbuffers(want.n) \in Int
  BY <1>2 DEF nbuffers
<1> QED BY <1>2, <1>3, <1>5, <1>6, <1>7

LEMMA Enough == Inv /\ EnoughBuffers /\ [Next]_vars => EnoughBuffers'
<1> SUFFICES ASSUME Inv, EnoughBuffers, [Next]_vars PROVE EnoughBuffers'
  OBVIOUS
<1> USE DEF Inv, TypeOK, EnoughBuffers, vb2_is_busy, source, vb2
<1>1. CASE UNCHANGED state
  BY <1>1 DEF Allocated
<1>2. ASSUME NEW n \in 0..Cardinality(Buffers), reqbufs(n)
      PROVE  EnoughBuffers'
  <2>1. Allocated' = {}
    BY <1>2 DEF reqbufs, Allocated
  <2> QED BY <2>1
<1>3. ASSUME NEW new \in SUBSET (Buffers \ Allocated), queue_setup(new)
      PROVE  EnoughBuffers'
  <2>1. CASE UNCHANGED state
    BY <2>1, <1>1
  <2>2. CASE Cardinality(new) = nbuffers(want.n) /\ allocate(new)
    <3>1. Allocated' = Allocated \cup new
      BY <2>2 DEF allocate, Allocated, QueueTypeOK
    <3>2. Cardinality(Allocated') >= 3
      BY <2>2, <3>1, AllocateEnough
    <3> QED BY <3>2
  <2> QED BY <1>3, <2>1, <2>2 DEF queue_setup
<1>4. CASE Allocated' = Allocated
  BY <1>4
<1>5. ASSUME NEW b \in Buffers, NEW ok \in BOOLEAN, qbuf(b, ok)
      PROVE  EnoughBuffers'
  BY <1>4, <1>5, KeepAllocated
<1>6. ASSUME NEW ok \in BOOLEAN, streamon(ok) PROVE EnoughBuffers'
  BY <1>4, <1>6, KeepAllocated
<1>7. CASE stop_streaming \/ queue_cancel \/ irq_done
  BY <1>4, <1>7, KeepAllocated
<1>8. ASSUME NEW b \in Buffers, dqbuf(b) PROVE EnoughBuffers'
  BY <1>4, <1>8, KeepAllocated
<1>9. CASE skeleton_s_fmt_vid_cap
  BY <1>1, <1>9 DEF skeleton_s_fmt_vid_cap
<1>10. ASSUME NEW s \in {"525", "625"}, skeleton_s_std(s) PROVE EnoughBuffers'
  BY <1>1, <1>10 DEF skeleton_s_std
<1>11. ASSUME NEW t \in Timings, skeleton_s_dv_timings(t) PROVE EnoughBuffers'
  BY <1>1, <1>11 DEF skeleton_s_dv_timings
<1>12. ASSUME NEW i \in {0, 1}, skeleton_s_input(i) PROVE EnoughBuffers'
  BY <1>1, <1>12 DEF skeleton_s_input
<1>13. ASSUME NEW n \in 1..Cardinality(Buffers), NEW t \in Timings, NEW i \in {0, 1},
              create_bufs(n, fill_pix_format(i, std, t).sizeimage)
       PROVE  EnoughBuffers'
  BY <1>1, <1>13 DEF create_bufs
<1>14. CASE read_init
  BY <1>1, <1>14 DEF read_init
<1>15. ASSUME NEW b \in Buffers, irq_captured(b) PROVE EnoughBuffers'
  BY <1>1, <1>15 DEF irq_captured
<1>16. CASE irq_list_del \/ irq_stamp
  BY <1>1, <1>16 DEF irq_list_del, irq_stamp
<1>17. CASE UNCHANGED vars
  BY <1>1, <1>17 DEF vars
<1> QED
  BY <1>2, <1>3, <1>5, <1>6, <1>7, <1>8, <1>9, <1>10, <1>11, <1>12, <1>13,
     <1>14, <1>15, <1>16, <1>17
  DEF Next, Ioctls, skeleton_irq

(* Whenever there are buffers there are three, so that streaming, which    *)
(* needs two, can start.                                                   *)
THEOREM EnoughBuffersAlways == Spec => []EnoughBuffers
<1>1. Init => EnoughBuffers
  BY DEF Init, EnoughBuffers, vb2_is_busy, Allocated
<1> QED BY <1>1, Enough, SkelInv, PTL DEF Spec

-----------------------------------------------------------------------------
(* The driver implements CaptureDriver.                                    *)
Own == buf_list \cup InHandler
Given == IF ~started THEN 0 ELSE IF irq = "stamped" THEN sequence - 1 ELSE sequence

(* vb2 starts the driver with two buffers at least, or not at all.         *)
LEMMA StartStep ==
  ASSUME Inv, ~started, NEW queue \in SUBSET Buffers, NEW ok \in BOOLEAN,
         Cardinality(queue) >= min_buffers_needed, start_streaming(queue, ok),
         UNCHANGED <<irq, new_buf>>
  PROVE  Driver!Start \/ UNCHANGED <<Own, started, Given>>
<1>1. buf_list = {} /\ irq = "idle" /\ InHandler = {} /\ InHandler' = {}
  BY DEF Inv, EngineInv, InHandler
<1>2. CASE ok
  <2>1. started' = TRUE /\ buf_list' = queue /\ sequence' = 0
    BY <1>1, <1>2 DEF start_streaming
  <2>2. Own' = queue /\ Given' = 0
    BY <1>1, <2>1 DEF Own, Given
  <2>3. Cardinality(Own') >= min_buffers_needed /\ Own' \in SUBSET Buffers
    BY <2>2
  <2>4. ~started /\ started' = TRUE /\ Given' = 0
    BY <2>1, <2>2
  <2>5. Driver!Start
    BY <2>3, <2>4 DEF Driver!Start, Own, Given
  <2> QED BY <2>5
<1>3. CASE ~ok
  <2>1. started' = started /\ buf_list' = {}
    BY <1>3 DEF start_streaming, return_all_buffers
  <2> QED BY <1>1, <2>1 DEF Own, Given
<1> QED BY <1>2, <1>3

LEMMA QueuedCount ==
  ASSUME QueueTypeOK, NEW b \in Buffers, state[b] = "dequeued"
  PROVE  /\ Cardinality(Queued \cup {b}) = Cardinality(Queued) + 1
         /\ Queued \cup {b} \in SUBSET Buffers
<1>1. IsFiniteSet(Queued) /\ b \notin Queued
  BY FS_Subset DEF Queued
<1>2. Queued \subseteq Buffers
  BY DEF Queued
<1> QED BY <1>1, <1>2, FS_AddElement

LEMMA DriverStep == Inv /\ [Next]_vars => [Driver!Next]_<<Own, started, Given>>
<1> SUFFICES ASSUME Inv, [Next]_vars
             PROVE  Driver!Next \/ UNCHANGED <<Own, started, Given>>
  OBVIOUS
<1>0. QueueTypeOK /\ FrameTypeOK /\ EngineInv /\ ListOwned
  BY DEF Inv, TypeOK
<1>1. UNCHANGED <<buf_list, irq, new_buf, started, sequence>> =>
        UNCHANGED <<Own, started, Given>>
  BY DEF Own, Given, InHandler
<1>2. CASE skeleton_s_fmt_vid_cap \/ read_init \/ queue_cancel
  BY <1>1, <1>2 DEF skeleton_s_fmt_vid_cap, read_init, queue_cancel, vb2, handler
<1>3. ASSUME NEW s \in {"525", "625"}, skeleton_s_std(s)
      PROVE  UNCHANGED <<Own, started, Given>>
  BY <1>1, <1>3 DEF skeleton_s_std, vb2, handler
<1>4. ASSUME NEW t \in Timings, skeleton_s_dv_timings(t)
      PROVE  UNCHANGED <<Own, started, Given>>
  BY <1>1, <1>4 DEF skeleton_s_dv_timings, vb2, handler
<1>5. ASSUME NEW i \in {0, 1}, skeleton_s_input(i)
      PROVE  UNCHANGED <<Own, started, Given>>
  BY <1>1, <1>5 DEF skeleton_s_input, vb2, handler
<1>6. ASSUME NEW n \in 0..Cardinality(Buffers), reqbufs(n)
      PROVE  UNCHANGED <<Own, started, Given>>
  BY <1>1, <1>6 DEF reqbufs, handler
<1>7. ASSUME NEW n \in 1..Cardinality(Buffers), NEW t \in Timings, NEW i \in {0, 1},
             create_bufs(n, fill_pix_format(i, std, t).sizeimage)
      PROVE  UNCHANGED <<Own, started, Given>>
  BY <1>1, <1>7 DEF create_bufs, vb2
<1>8. ASSUME NEW new \in SUBSET (Buffers \ Allocated), queue_setup(new)
      PROVE  UNCHANGED <<Own, started, Given>>
  BY <1>1, <1>8 DEF queue_setup, handler
<1>9. ASSUME NEW b \in Buffers, NEW ok \in BOOLEAN, qbuf(b, ok)
      PROVE  Driver!Next \/ UNCHANGED <<Own, started, Given>>
  <2>1. state[b] = "dequeued" /\ UNCHANGED <<irq, new_buf>>
    BY <1>9 DEF qbuf
  <2>2. CASE started /\ buf_list' = buf_list \cup {b} /\ UNCHANGED <<started, sequence>>
    <3>1. b \notin Own
      BY <1>0, <2>1 DEF Own, ListOwned, Active
    <3>2. Own' = Own \cup {b} /\ Given' = Given
      BY <2>1, <2>2 DEF Own, Given, InHandler
    <3>3. Driver!Queue(b)
      BY <2>2, <3>1, <3>2 DEF Driver!Queue, Own, Given
    <3> QED BY <3>3 DEF Driver!Next
  <2>3. CASE UNCHANGED <<buf_list, started, sequence>>
    BY <1>1, <2>1, <2>3
  <2>4. CASE ~started /\ Cardinality(Queued) + 1 >= min_buffers_needed
             /\ start_streaming(Queued \cup {b}, ok)
    <3>1. Cardinality(Queued \cup {b}) >= min_buffers_needed
          /\ Queued \cup {b} \in SUBSET Buffers
      BY <1>0, <2>1, <2>4, QueuedCount
    <3> QED BY <2>1, <2>4, <3>1, StartStep DEF Driver!Next
  <2> QED BY <1>9, <2>2, <2>3, <2>4 DEF qbuf
<1>10. ASSUME NEW ok \in BOOLEAN, streamon(ok)
       PROVE  Driver!Next \/ UNCHANGED <<Own, started, Given>>
  <2>1. ~started /\ UNCHANGED <<irq, new_buf>> /\ Queued \in SUBSET Buffers
    BY <1>0, <1>10 DEF streamon, EngineInv, Queued
  <2>2. CASE Cardinality(Queued) >= min_buffers_needed /\ start_streaming(Queued, ok)
    BY <2>1, <2>2, StartStep DEF Driver!Next
  <2>3. CASE UNCHANGED <<buf_list, started, sequence>>
    BY <1>1, <2>1, <2>3
  <2> QED BY <1>10, <2>2, <2>3 DEF streamon
<1>11. CASE stop_streaming
  <2>1. started' = FALSE /\ irq = "idle" /\ irq' = "idle" /\ buf_list' = {}
    BY <1>11 DEF stop_streaming, return_all_buffers, handler
  <2>2. Own' = {} /\ Given' = 0
    BY <2>1 DEF Own, Given, InHandler
  <2>3. CASE started
    <3>1. Driver!Stop
      BY <2>1, <2>2, <2>3 DEF Driver!Stop, Own, Given
    <3> QED BY <3>1 DEF Driver!Next
  <2>4. CASE ~started
    <3>1. Own = {} /\ Given = 0 /\ started = FALSE
      BY <1>0, <2>1, <2>4 DEF Own, Given, InHandler, EngineInv, QueueTypeOK
    <3> QED BY <2>1, <2>2, <3>1
  <2> QED BY <2>3, <2>4
<1>12. ASSUME NEW b \in Buffers, dqbuf(b)
       PROVE  UNCHANGED <<Own, started, Given>>
  BY <1>1, <1>12 DEF dqbuf, handler
<1>13. ASSUME NEW b \in Buffers, irq_captured(b)
       PROVE  UNCHANGED <<Own, started, Given>>
  BY <1>13 DEF irq_captured, vb2, Own, Given, InHandler
<1>14. CASE irq_list_del
  <2>1. new_buf \in buf_list /\ InHandler = {} /\ InHandler' = {new_buf}
        /\ buf_list' = buf_list \ {new_buf}
    BY <1>0, <1>14 DEF irq_list_del, ListOwned, InHandler
  <2>2. Own' = Own
    BY <2>1 DEF Own
  <2>3. UNCHANGED <<started, Given>>
    BY <1>14 DEF irq_list_del, vb2, Given
  <2> QED BY <2>2, <2>3
<1>15. CASE irq_stamp
  <2>1. Own' = Own
    BY <1>15 DEF irq_stamp, Own, InHandler
  <2>2. UNCHANGED <<started, Given>>
    BY <1>0, <1>15 DEF irq_stamp, vb2, Given, FrameTypeOK
  <2> QED BY <2>1, <2>2
<1>16. CASE irq_done
  <2>1. started /\ started' = started /\ irq = "stamped" /\ irq' = "idle"
        /\ buf_list' = buf_list /\ sequence' = sequence
    BY <1>0, <1>16 DEF irq_done, EngineInv
  <2>2. InHandler = {new_buf} /\ InHandler' = {} /\ new_buf \notin buf_list
    BY <1>0, <2>1 DEF InHandler, ListOwned
  <2>3. new_buf \in Own /\ Own' = Own \ {new_buf}
    BY <2>1, <2>2 DEF Own
  <2>4. Given' = Given + 1
    BY <1>0, <2>1 DEF Given, FrameTypeOK
  <2>5. new_buf \in Buffers
    BY <1>0, <2>2 DEF ListOwned, Active
  <2>6. Driver!Done(new_buf)
    BY <2>1, <2>3, <2>4 DEF Driver!Done, Own, Given
  <2> QED BY <2>5, <2>6 DEF Driver!Next
<1>17. CASE UNCHANGED vars
  BY <1>1, <1>17 DEF vars, vb2, handler
<1> QED
  BY <1>2, <1>3, <1>4, <1>5, <1>6, <1>7, <1>8, <1>9, <1>10, <1>11, <1>12,
     <1>13, <1>14, <1>15, <1>16, <1>17
  DEF Next, Ioctls, skeleton_irq

(* Every behaviour of the driver, with the handler running beside the      *)
(* ioctls, is one that vb2 expects: two buffers to start with, each buffer *)
(* given back once and counted, none kept after stop_streaming or after a  *)
(* start_streaming that failed.                                            *)
THEOREM DriverRefines == Spec => DriverContract
<1>1. Init => Driver!Init
  BY DEF Init, Driver!Init, InHandler
<1>2. Inv /\ [Next]_vars => [Driver!Next]_<<Own, started, Given>>
  BY DriverStep
<1> QED BY <1>1, <1>2, SkelInv, PTL DEF Spec, DriverContract, Driver!Spec, Own, Given
=============================================================================
