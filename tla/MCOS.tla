-------------------------------- MODULE MCOS --------------------------------
(* Small instances of the whole machine. *)
EXTENDS OS, TLC

CONSTANTS c1, c2

\* No process at level 0.
MCPrioBelow == (1 :> 1) @@ (2 :> 1) @@ (3 :> 2)

\* One process, at level 0.
MCPrioTop == (1 :> 0)
=============================================================================
