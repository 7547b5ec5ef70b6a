----------------------------- MODULE MCMicDaemon -----------------------------
(* Small instances of MicDaemon for TLC.                                   *)
EXTENDS MicDaemon

(* Behaviours in which nothing fails, in which everything may fail but the *)
(* operations on the state attribute and a reset in time, and in which     *)
(* everything may fail; with and without users who reset the card.         *)
Failures == {{}, FaultKinds \ {"io", "slow"}, FaultKinds}
Users == {{"boot", "shutdown"}, {"boot", "shutdown", "reset"}}

NoFailure == {{}}
IoFailure == {{"io"}}
NoReset == {{"boot", "shutdown"}}
=============================================================================
