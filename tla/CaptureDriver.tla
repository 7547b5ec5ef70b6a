--------------------------- MODULE CaptureDriver ---------------------------
(***************************************************************************)
(* What videobuf2 expects of a capture driver: it starts with enough       *)
(* buffers, gives each buffer back once with the frame in it, and keeps    *)
(* none when it stops or does not run.                                     *)
(***************************************************************************)
EXTENDS Naturals

CONSTANTS
  Buffers,
  Starts      \* the sets of buffers it may be started with

VARIABLES
  owned,      \* buffers the driver has
  running,
  frames      \* its counter: buffers given back since the start

Init == owned = {} /\ running = FALSE /\ frames = 0

Start ==
  /\ ~running /\ running' = TRUE
  /\ owned' \in Starts /\ frames' = 0

Queue(b) ==
  /\ running /\ b \notin owned
  /\ owned' = owned \cup {b}
  /\ UNCHANGED <<running, frames>>

Done(b) ==
  /\ running /\ b \in owned
  /\ owned' = owned \ {b} /\ frames' = frames + 1
  /\ UNCHANGED running

Stop ==
  /\ running /\ running' = FALSE
  /\ owned' = {} /\ frames' = 0

Next == Start \/ Stop \/ \E b \in Buffers : Queue(b) \/ Done(b)

Spec == Init /\ [][Next]_<<owned, running, frames>>
=============================================================================
