-------------------------------- MODULE Pipe --------------------------------
(***************************************************************************)
(* What one direction of mpssd's network or console service promises:      *)
(* packets come out unchanged, in order and at most once; none is lost     *)
(* unless lossy.                                                           *)
(***************************************************************************)
EXTENDS Sequences

CONSTANTS Packets

VARIABLES
  queue, out,   \* accepted but not delivered, delivered
  lossy         \* whether packets may be lost; never changes

Init == queue = <<>> /\ out = <<>> /\ lossy \in BOOLEAN

Put ==
  /\ \E p \in Packets : queue' = Append(queue, p)
  /\ UNCHANGED out

Deliver ==
  /\ queue # <<>>
  /\ out' = Append(out, Head(queue))
  /\ queue' = Tail(queue)

Lose ==
  /\ lossy
  /\ queue # <<>>
  /\ queue' = Tail(queue)
  /\ UNCHANGED out

Next == (Put \/ Deliver \/ Lose) /\ UNCHANGED lossy

Spec == Init /\ [][Next]_<<queue, out, lossy>>
=============================================================================
