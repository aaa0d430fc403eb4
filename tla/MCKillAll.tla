------------------------------ MODULE MCKillAll ------------------------------
(* Three processes of one level, two of them with the same name, and one of
   another level; running_list has no room for all four.  The alloc of p1 has
   a size that is not its region's ID, the one of p2 one that is. *)
EXTENDS KillAll, TLC

CONSTANTS p1, p2, p3, p4

MCProc == {p1, p2, p3, p4}
MCprio == p1 :> 1 @@ p2 :> 1 @@ p3 :> 1 @@ p4 :> 0
MCpath == p1 :> "a" @@ p2 :> "b" @@ p3 :> "a" @@ p4 :> "b"
MCALLOC == p1 :> {<<1, 0>>} @@ p2 :> {<<0, 0>>} @@ p3 :> {} @@ p4 :> {}
=============================================================================
