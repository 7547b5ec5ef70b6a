---------------------------- MODULE MCV4l2Skel ----------------------------
(* Instance of V4l2Skel: two HDTV timings, one of them interlaced.         *)
EXTENDS V4l2Skel, TLC

MCTimings == {timings_def, [width |-> 1920, height |-> 1080, interlaced |-> TRUE]}

Symmetry == Permutations(Buffers)
=============================================================================
