---------------------------- MODULE BlockDevice ----------------------------
(***************************************************************************)
(* What a virtio block device promises the card: one file is behind it     *)
(* from the time it is attached until it is detached, requests are         *)
(* answered only then, once and in the order they were made, and an error  *)
(* is never reported for a transfer that was made.  Whether a transfer     *)
(* that failed is reported is left open.                                   *)
(***************************************************************************)
EXTENDS Sequences

CONSTANTS
  Files, None,
  Requests, Supported,    \* requests of the card; types that transfer data
  Statuses, OK, NoAnswer,
  Lossy                   \* transfers may fail

VARIABLES
  file,       \* the file behind the device, None without one
  queue,      \* requests not answered yet
  answer      \* the last answer: the request, its transfer, its status

Init == file = None /\ queue = <<>> /\ answer = NoAnswer

(* To a device that is new to the card or to one it knows already.         *)
Attach ==
  /\ file = None /\ file' \in Files
  /\ queue' \in {queue, <<>>}
  /\ UNCHANGED answer

Submit ==
  /\ \E r \in Requests : queue' = Append(queue, r)
  /\ UNCHANGED <<file, answer>>

Answer ==
  /\ file # None /\ queue # <<>>
  /\ queue' = Tail(queue)
  /\ \E done \in BOOLEAN, status \in Statuses :
       /\ Head(queue).type \in Supported => done \/ Lossy
       /\ done => Head(queue).type \in Supported /\ status = OK
       /\ answer' = [req |-> Head(queue), done |-> done, status |-> status]
  /\ UNCHANGED file

Detach ==
  /\ file # None /\ file' = None
  /\ queue' = <<>>
  /\ UNCHANGED answer

(* A device without a file is replaced by a new one.                       *)
Replace ==
  /\ file = None
  /\ queue' = <<>>
  /\ UNCHANGED <<file, answer>>

Next == Attach \/ Submit \/ Answer \/ Detach \/ Replace

Spec == Init /\ [][Next]_<<file, queue, answer>>
=============================================================================
