----------------------------- MODULE MCVirtLink -----------------------------
(* Small instances of VirtLink for TLC: rings of two entries whose indices *)
(* wrap at three, packets that fill the buffer and packets that do not.    *)
EXTENDS VirtLink

NetLens == {3, 5}

(* Behaviours without failures, and behaviours in which anything fails.    *)
Failures == {{}, FaultKinds}
=============================================================================
