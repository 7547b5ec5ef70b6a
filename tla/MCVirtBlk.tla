------------------------------ MODULE MCVirtBlk ------------------------------
(* Small instances of VirtBlk for TLC: a file of whole sectors that fills  *)
(* its page, one whose last sector is incomplete, and an empty one.        *)
EXTENDS VirtBlk, TLC

CONSTANTS fa, fb, fempty

MCFiles == {fa, fb, fempty}
MCSize == (fa :> 4096) @@ (fb :> 1000) @@ (fempty :> 0)
=============================================================================
