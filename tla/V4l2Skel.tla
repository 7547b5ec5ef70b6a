------------------------------ MODULE V4l2Skel ------------------------------
(***************************************************************************)
(* The capture driver Documentation/video4linux/v4l2-pci-skeleton.c:       *)
(* formats, buffers and streaming, with the interrupt handler running      *)
(* beside the ioctls.  The ioctls are serialised by skel->lock; list       *)
(* operations are atomic because of skel->qlock, the rest of the handler   *)
(* is not.                                                                 *)
(*                                                                         *)
(* The videobuf2 framework and the DMA engine are outside the repository.  *)
(* The code leaves stopping the engine open ("TODO: stop DMA"); here it    *)
(* waits for a handler that is running, as stop_streaming needs it.        *)
(***************************************************************************)
EXTENDS Integers, FiniteSets

CONSTANTS
  Buffers,     \* buffers that can be allocated
  NoBuffer,
  Timings,     \* HDTV timings: records of width, height and interlaced
  Faults,      \* the failures that may happen, see FaultKinds
  MaxFrames    \* bound: frames of a stream

(* "start": the DMA engine does not start; "nomem": no memory for buffers. *)
FaultKinds == {"start", "nomem"}

(* V4L2_DV_BT_CEA_1280X720P60, the timings set by skeleton_probe.          *)
timings_def == [width |-> 1280, height |-> 720, interlaced |-> FALSE]

ASSUME SkelAssumption ==
  /\ NoBuffer \notin Buffers /\ IsFiniteSet(Buffers)
  /\ Timings \subseteq [width : Nat, height : Nat, interlaced : BOOLEAN]
  /\ timings_def \in Timings
  /\ Faults \subseteq FaultKinds /\ MaxFrames \in Nat

VARIABLES
  input, std, timings,  \* 0 for S-Video, 1 for HDMI; standard; HDMI timings
  tvnorms,              \* standards are announced
  format,
  size, state,          \* of every buffer: plane size, vb2 state
  streaming, started,   \* q->streaming, q->start_streaming_called
  fileio,               \* the buffers are used by read()
  buf_list,             \* buffers queued for DMA
  field, sequence,
  ioctl, want,          \* step of a running ioctl, its argument
  irq, new_buf, stamp,  \* step of a running handler, its buffer
  last,                 \* the frame before this one in the stream
  disturbed             \* buffers were created during the stream

source == <<input, std, timings, tvnorms, format>>
vb2 == <<size, state, streaming, started, fileio>>
handler == <<irq, new_buf, stamp, last, disturbed>>
vars == <<source, vb2, buf_list, field, sequence, ioctl, want, handler>>

Parities == {"top", "bottom"}
FieldValues == Parities \cup {"any", "interlaced", "alternate", "none"}
Formats == [width : Nat, height : Nat, field : FieldValues, sizeimage : Nat]
Frames == [sequence : Nat, field : FieldValues]
NoFrame == [sequence |-> 0, field |-> "any"]
NoWant == [n |-> 0, bytes |-> 0, fileio |-> FALSE]
States == {"free", "dequeued", "queued", "active", "done"}

(* skeleton_fill_pix_format: two bytes for a pixel.                        *)
fill_pix_format(i, s, t) ==
  LET h == CASE i = 0 /\ s = "525" -> 480
             [] i = 0 /\ s # "525" -> 576
             [] i = 1 /\ t.interlaced -> t.height \div 2
             [] OTHER -> t.height
      w == IF i = 0 THEN 720 ELSE t.width
      f == CASE i = 0 -> "interlaced"
             [] i = 1 /\ t.interlaced -> "alternate"
             [] OTHER -> "none"
  IN [width |-> w, height |-> h, field |-> f, sizeimage |-> w * 2 * h]

Allocated == {b \in Buffers : state[b] # "free"}
Queued == {b \in Buffers : state[b] = "queued"}
vb2_is_busy == Allocated # {}

(* q->min_buffers_needed                                                   *)
min_buffers_needed == 2

SourceTypeOK ==
  /\ input \in {0, 1} /\ std \in {"525", "625"} /\ timings \in Timings
  /\ tvnorms \in BOOLEAN /\ format \in Formats

QueueTypeOK ==
  /\ size \in [Buffers -> Nat] /\ state \in [Buffers -> States]
  /\ streaming \in BOOLEAN /\ started \in BOOLEAN /\ fileio \in BOOLEAN
  /\ buf_list \subseteq Buffers
  /\ ioctl \in {"idle", "setup", "cancel"}
  /\ want \in [n : Nat, bytes : Nat, fileio : BOOLEAN]

FrameTypeOK ==
  /\ field \in FieldValues /\ sequence \in 0..MaxFrames
  /\ irq \in {"idle", "captured", "removed", "stamped"}
  /\ new_buf \in Buffers \cup {NoBuffer}
  /\ stamp \in Frames /\ last \in Frames /\ disturbed \in BOOLEAN

(* The types of the driver's state and of what vb2 keeps for it.           *)
TypeOK == SourceTypeOK /\ QueueTypeOK /\ FrameTypeOK

(* skeleton_probe                                                          *)
Init ==
  /\ input = 0 /\ std = "625" /\ timings = timings_def /\ tvnorms = TRUE
  /\ format = fill_pix_format(input, std, timings)
  /\ size = [b \in Buffers |-> 0] /\ state = [b \in Buffers |-> "free"]
  /\ streaming = FALSE /\ started = FALSE /\ fileio = FALSE
  /\ buf_list = {}
  /\ field = "any" /\ sequence = 0
  /\ ioctl = "idle" /\ want = NoWant
  /\ irq = "idle" /\ new_buf = NoBuffer /\ stamp = NoFrame /\ last = NoFrame
  /\ disturbed = FALSE

-----------------------------------------------------------------------------
(* Ioctls that change the format.  An ioctl that is refused changes        *)
(* nothing and has no action.                                              *)

skeleton_s_fmt_vid_cap ==
  /\ ioctl = "idle" /\ ~vb2_is_busy
  /\ format' = fill_pix_format(input, std, timings)
  /\ UNCHANGED <<input, std, timings, tvnorms, vb2, buf_list, field, sequence, ioctl, want, handler>>

(* Mutant: the standard may change under allocated buffers.                *)
skeleton_s_std_busy(s) ==
  /\ ioctl = "idle" /\ input = 0 /\ s # std
  /\ std' = s
  /\ format' = fill_pix_format(input, s, timings)
  /\ UNCHANGED <<input, timings, tvnorms, vb2, buf_list, field, sequence, ioctl, want, handler>>

skeleton_s_std(s) ==
  /\ ioctl = "idle" /\ input = 0 /\ s # std /\ ~vb2_is_busy
  /\ std' = s
  /\ format' = fill_pix_format(input, s, timings)
  /\ UNCHANGED <<input, timings, tvnorms, vb2, buf_list, field, sequence, ioctl, want, handler>>

skeleton_s_dv_timings(t) ==
  /\ ioctl = "idle" /\ input = 1 /\ t # timings /\ ~vb2_is_busy
  /\ timings' = t
  /\ format' = fill_pix_format(input, std, t)
  /\ UNCHANGED <<input, std, tvnorms, vb2, buf_list, field, sequence, ioctl, want, handler>>

skeleton_s_input(i) ==
  /\ ioctl = "idle" /\ ~vb2_is_busy
  /\ input' = i /\ tvnorms' = (i = 0)
  /\ format' = fill_pix_format(i, std, timings)
  /\ UNCHANGED <<std, timings, vb2, buf_list, field, sequence, ioctl, want, handler>>

-----------------------------------------------------------------------------
(* Allocation.  REQBUFS, CREATE_BUFS and the first read() call             *)
(* queue_setup, whose two writes of skel->field are seen by a handler.     *)

enter_queue_setup(n, bytes, rd) ==
  /\ ioctl' = "setup"
  /\ want' = [n |-> n, bytes |-> bytes, fileio |-> rd]
  /\ field' = format.field

(* vb2 frees the buffers of an earlier call first.                         *)
reqbufs(n) ==
  /\ ioctl = "idle" /\ ~streaming
  /\ size' = [b \in Buffers |-> 0] /\ state' = [b \in Buffers |-> "free"]
  /\ fileio' = FALSE
  /\ IF n = 0 THEN UNCHANGED <<ioctl, want, field>>
              ELSE enter_queue_setup(n, format.sizeimage, FALSE)
  /\ UNCHANGED <<source, streaming, started, buf_list, sequence, handler>>

create_bufs(n, bytes) ==
  /\ ioctl = "idle" /\ ~fileio
  /\ enter_queue_setup(n, bytes, FALSE)
  /\ disturbed' = (disturbed \/ streaming)
  /\ UNCHANGED <<source, vb2, buf_list, sequence, irq, new_buf, stamp, last>>

read_init ==
  /\ ioctl = "idle" /\ ~vb2_is_busy /\ ~streaming
  /\ enter_queue_setup(1, format.sizeimage, TRUE)
  /\ UNCHANGED <<source, vb2, buf_list, sequence, handler>>

(* At least three buffers.                                                 *)
nbuffers(n) ==
  IF Cardinality(Allocated) + n < 3 THEN 3 - Cardinality(Allocated) ELSE n

allocate(new) ==
  /\ size' = [b \in Buffers |-> IF b \in new THEN want.bytes ELSE size[b]]
  /\ state' = [b \in Buffers |-> IF b \in new THEN "dequeued" ELSE state[b]]
  /\ fileio' = want.fileio

(* The rest of queue_setup, then vb2 allocates what it asked for.          *)
queue_setup(new) ==
  /\ ioctl = "setup"
  /\ ioctl' = "idle" /\ want' = NoWant
  /\ LET refused == field = "alternate" /\ want.fileio
         small == want.bytes < format.sizeimage
         none == Cardinality(Buffers \ Allocated) < nbuffers(want.n)
     IN /\ field' = IF field = "alternate" /\ ~refused THEN "top" ELSE field
        /\ \/ /\ ~refused /\ ~small
              /\ Cardinality(new) = nbuffers(want.n) /\ allocate(new)
           \/ /\ new = {}
              /\ refused \/ small \/ none \/ "nomem" \in Faults
              /\ UNCHANGED <<size, state, fileio>>
  /\ UNCHANGED <<source, streaming, started, buf_list, sequence, handler>>

-----------------------------------------------------------------------------
(* Streaming.                                                              *)

(* buffer_prepare refuses a buffer that is too small for the image.        *)
buffer_prepare(b) == size[b] >= format.sizeimage

return_all_buffers(list, st) ==
  /\ state' = [b \in Buffers |-> IF b \in list THEN st ELSE state[b]]
  /\ buf_list' = {}

(* Mutant: start_streaming fails and keeps the buffers on its list.        *)
start_streaming_keep(queue, ok) ==
  /\ sequence' = 0
  /\ state' = [b \in Buffers |->
                 IF b \in queue THEN IF ok THEN "active" ELSE "queued" ELSE state[b]]
  /\ buf_list' = buf_list \cup queue
  /\ last' = NoFrame /\ disturbed' = FALSE
  /\ started' = ok /\ (ok \/ "start" \in Faults)

(* Mutant: the sequence counter is not reset.                              *)
start_streaming_count(queue, ok) ==
  /\ ok /\ started' = TRUE
  /\ state' = [b \in Buffers |-> IF b \in queue THEN "active" ELSE state[b]]
  /\ buf_list' = buf_list \cup queue
  /\ last' = NoFrame /\ disturbed' = FALSE
  /\ UNCHANGED sequence

(* vb2 hands every queued buffer to buffer_queue, then calls               *)
(* start_streaming.  When that fails, return_all_buffers gives back as     *)
(* queued all that were put on the list.                                   *)
start_streaming(queue, ok) ==
  /\ sequence' = 0
  /\ IF ok
     THEN /\ started' = TRUE
          /\ state' = [b \in Buffers |-> IF b \in queue THEN "active" ELSE state[b]]
          /\ buf_list' = buf_list \cup queue
          /\ last' = NoFrame /\ disturbed' = FALSE
     ELSE /\ "start" \in Faults
          /\ return_all_buffers(buf_list \cup queue, "queued")
          /\ UNCHANGED <<started, last, disturbed>>

(* QBUF: buffer_prepare, and buffer_queue when the DMA engine runs.        *)
qbuf(b, ok) ==
  /\ ioctl = "idle" /\ state[b] = "dequeued"
  /\ buffer_prepare(b)
  /\ \/ /\ started /\ ok
        /\ state' = [state EXCEPT ![b] = "active"]
        /\ buf_list' = buf_list \cup {b}
        /\ UNCHANGED <<started, sequence, last, disturbed>>
     \/ /\ ~started /\ ok
        /\ ~streaming \/ Cardinality(Queued) + 1 < min_buffers_needed
        /\ state' = [state EXCEPT ![b] = "queued"]
        /\ UNCHANGED <<buf_list, started, sequence, last, disturbed>>
     \/ /\ streaming /\ ~started
        /\ Cardinality(Queued) + 1 >= min_buffers_needed
        /\ start_streaming(Queued \cup {b}, ok)
  /\ UNCHANGED <<source, size, streaming, fileio, field, ioctl, want, irq, new_buf, stamp>>

streamon(ok) ==
  /\ ioctl = "idle" /\ ~streaming /\ vb2_is_busy
  /\ \/ /\ Cardinality(Queued) >= min_buffers_needed
        /\ start_streaming(Queued, ok) /\ streaming' = ok
     \/ /\ Cardinality(Queued) < min_buffers_needed /\ ok
        /\ streaming' = TRUE
        /\ UNCHANGED <<state, buf_list, started, sequence, last, disturbed>>
  /\ UNCHANGED <<source, size, fileio, field, ioctl, want, irq, new_buf, stamp>>

(* Mutant: the engine is not waited for.                                   *)
stop_streaming_now ==
  /\ ioctl = "idle"
  /\ ioctl' = "cancel" /\ started' = FALSE
  /\ return_all_buffers(buf_list, "done")
  /\ UNCHANGED <<source, size, streaming, fileio, field, sequence, want, handler>>

(* STREAMOFF, or the last close: stop_streaming is called when the engine  *)
(* was started.                                                            *)
stop_streaming ==
  /\ ioctl = "idle" /\ irq = "idle"
  /\ ioctl' = "cancel" /\ started' = FALSE
  /\ return_all_buffers(buf_list, "done")
  /\ UNCHANGED <<source, size, streaming, fileio, field, sequence, want, handler>>

(* vb2 takes all buffers back after stop_streaming.                        *)
queue_cancel ==
  /\ ioctl = "cancel"
  /\ ioctl' = "idle" /\ streaming' = FALSE
  /\ state' = [b \in Buffers |-> IF state[b] = "free" THEN "free" ELSE "dequeued"]
  /\ UNCHANGED <<source, size, started, fileio, buf_list, field, sequence, want, handler>>

dqbuf(b) ==
  /\ ioctl = "idle" /\ state[b] = "done"
  /\ state' = [state EXCEPT ![b] = "dequeued"]
  /\ UNCHANGED <<source, size, streaming, started, fileio, buf_list, field, sequence, ioctl, want, handler>>

-----------------------------------------------------------------------------
(* skeleton_irq: a buffer of the list was filled.  It is taken off the     *)
(* list under skel->qlock; its number and field are set without the lock.  *)

irq_captured(b) ==
  /\ irq = "idle" /\ started /\ b \in buf_list
  /\ sequence < MaxFrames
  /\ irq' = "captured" /\ new_buf' = b
  /\ UNCHANGED <<source, vb2, buf_list, field, sequence, ioctl, want, stamp, last, disturbed>>

irq_list_del ==
  /\ irq = "captured"
  /\ irq' = "removed"
  /\ buf_list' = buf_list \ {new_buf}
  /\ UNCHANGED <<source, vb2, field, sequence, ioctl, want, new_buf, stamp, last, disturbed>>

irq_stamp ==
  /\ irq = "removed"
  /\ irq' = "stamped"
  /\ stamp' = [sequence |-> sequence, field |-> field]
  /\ sequence' = sequence + 1
  /\ UNCHANGED <<source, vb2, buf_list, field, ioctl, want, new_buf, last, disturbed>>

(* Mutant: only the bottom field is followed by the other one.             *)
next_field_half(f) == IF f = "bottom" THEN "top" ELSE f

next_field(f) ==
  CASE f = "bottom" -> "top"
    [] f = "top" -> "bottom"
    [] OTHER -> f

(* Whether the field is read again or still known from irq_stamp is the    *)
(* compiler's choice.                                                      *)
irq_done ==
  /\ irq = "stamped"
  /\ irq' = "idle" /\ new_buf' = NoBuffer
  /\ \E f \in {field, stamp.field} :
       field' = IF format.field = "alternate" /\ f \in Parities
                THEN next_field(f) ELSE field
  /\ state' = [state EXCEPT ![new_buf] = "done"]
  /\ last' = stamp /\ stamp' = NoFrame
  /\ UNCHANGED <<source, size, streaming, started, fileio, buf_list, sequence, ioctl, want, disturbed>>

Ioctls ==
  \/ skeleton_s_fmt_vid_cap
  \/ \E s \in {"525", "625"} : skeleton_s_std(s)
  \/ \E t \in Timings : skeleton_s_dv_timings(t)
  \/ \E i \in {0, 1} : skeleton_s_input(i)
  \/ \E n \in 0..Cardinality(Buffers) : reqbufs(n)
  \/ \E n \in 1..Cardinality(Buffers), t \in Timings, i \in {0, 1} :
       create_bufs(n, fill_pix_format(i, std, t).sizeimage)
  \/ read_init
  \/ \E new \in SUBSET (Buffers \ Allocated) : queue_setup(new)
  \/ \E b \in Buffers, ok \in BOOLEAN : qbuf(b, ok)
  \/ \E ok \in BOOLEAN : streamon(ok)
  \/ stop_streaming
  \/ queue_cancel
  \/ \E b \in Buffers : dqbuf(b)

skeleton_irq ==
  \/ \E b \in Buffers : irq_captured(b)
  \/ irq_list_del
  \/ irq_stamp
  \/ irq_done

Next == Ioctls \/ skeleton_irq

Spec == Init /\ [][Next]_vars

-----------------------------------------------------------------------------
Active == {b \in Buffers : state[b] = "active"}
InHandler == IF irq \in {"removed", "stamped"} THEN {new_buf} ELSE {}

(* The format is always the one of the selected input with its standard or *)
(* timings, and standards are announced exactly on the S-Video input.      *)
FormatCurrent ==
  /\ format = fill_pix_format(input, std, timings)
  /\ tvnorms = (input = 0)

(* Every allocated buffer takes an image of the current format, whatever   *)
(* sizes and formats were asked for in between: buffer_prepare never has   *)
(* to refuse one.                                                          *)
BuffersFit == \A b \in Allocated : size[b] >= format.sizeimage

(* Buffers that are active for vb2 are those on the driver's list and the  *)
(* one its interrupt handler took off: none is lost, returned twice or on  *)
(* the list after it was returned.                                         *)
ListOwned ==
  /\ Active = buf_list \cup InHandler
  /\ buf_list \cap InHandler = {}
  /\ irq = "captured" => new_buf \in buf_list

(* The driver as vb2 sees it, from the driver's own list, its handler and  *)
(* its frame counter.                                                      *)
Driver == INSTANCE CaptureDriver
  WITH owned <- buf_list \cup InHandler, running <- started,
       frames <- IF ~started THEN 0 ELSE IF irq = "stamped" THEN sequence - 1 ELSE sequence,
       Starts <- {S \in SUBSET Buffers : Cardinality(S) >= min_buffers_needed}

(* Seen this way the driver does what vb2 expects, whatever the ioctls and *)
(* the interrupt handler do in between: it starts with two buffers at      *)
(* least, gives every buffer back once, numbers the buffers it gives back  *)
(* from zero, and holds none when it stops or could not start.  It numbers *)
(* buffers, so each field of a frame has a number of its own, see          *)
(* SameSequence.                                                           *)
DriverContract == Driver!Spec

(* An allocation that was granted left at least three buffers, whichever   *)
(* ioctls added to it: a stream can always have the two it starts with.    *)
EnoughBuffers == vb2_is_busy => Cardinality(Allocated) >= 3

(* vb2 requires that no buffer is active when stop_streaming returns.      *)
AllReturned == ioctl = "cancel" => Active = {}

(* read() never uses fields that alternate: their parity could not be      *)
(* passed to the user (comment of queue_setup).                            *)
ReadNotAlternate == fileio => format.field # "alternate"

(* The buffers of a stream are numbered from zero without a gap.           *)
CountsFrames ==
  irq = "stamped" =>
    stamp.sequence = IF last.field = "any" THEN 0 ELSE last.sequence + 1

FieldRight ==
  IF format.field = "alternate"
  THEN stamp.field \in Parities /\ stamp.field # last.field
  ELSE stamp.field = format.field

(* A frame has the field of its format; with alternating fields a top      *)
(* field follows a bottom field and the other way round, in a stream       *)
(* during which no buffers were created.                                   *)
FieldsAlternate == irq = "stamped" /\ ~disturbed => FieldRight

(* "The two fields of a frame are passed in separate buffers, in temporal  *)
(* order ... Any two successive fields pair to build a frame", without     *)
(* that exception (DocBook/media/v4l/io.xml:1478).                         *)
FieldsPair == irq = "stamped" => FieldRight

(* "Set by the driver, counting the frames (not fields!) in sequence [...] *)
(* In V4L2_FIELD_ALTERNATE mode the top and bottom field have the same     *)
(* sequence number" (DocBook/media/v4l/io.xml:761-767): so has a bottom    *)
(* field that skeleton_irq stamps after the top field of the same stream.  *)
SameSequence ==
  irq = "stamped" /\ ~disturbed /\ last.field = "top" /\ stamp.field = "bottom"
    => stamp.sequence = last.sequence
=============================================================================
