------------------------------- MODULE MCVMem -------------------------------
(* Two processes share a RAM of a few small frames. *)
EXTENDS VMem, TLC

CONSTANTS p1, p2

\* The processes are not told apart.
MCSymmetry == Permutations({p1, p2})
=============================================================================
