--------------------------- MODULE MC_RoomPersist ---------------------------
(***************************************************************************)
(* RoomPersist for TLC: version 1 draws a, version 2 changes a and draws   *)
(* b, version 3 deletes a.                                                 *)
(***************************************************************************)
EXTENDS RoomPersist, TLC

CONSTANTS n1, n2

Session == << "a" :> 1 @@ "b" :> 0, "a" :> 2 @@ "b" :> 2, "a" :> 0 @@ "b" :> 2 >>
ShortSession == << "a" :> 1 @@ "b" :> 0, "a" :> 0 @@ "b" :> 2 >>

=============================================================================
