--------------------------- MODULE MC_RoomPresence ---------------------------
(* Two nodes; one user with two tabs, another with one. *)
EXTENDS RoomPresence, TLC

CONSTANTS n1, n2, u1, u2, s1, s2, s3

TabsOf == s1 :> u1 @@ s2 :> u1 @@ s3 :> u2

Symmetry == Permutations({n1, n2})
=============================================================================
