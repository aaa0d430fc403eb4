------------------------------ MODULE MCFrames ------------------------------
(* A few CPUs and frames. *)
EXTENDS Frames
=============================================================================
