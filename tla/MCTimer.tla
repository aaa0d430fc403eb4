------------------------------- MODULE MCTimer -------------------------------
(* Two CPUs and the loader, a few slots each. *)
EXTENDS Timer
=============================================================================
