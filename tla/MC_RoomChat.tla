------------------------------ MODULE MC_RoomChat ------------------------------
(* A page on the first node and two on the second.  The first writes to       *)
(* the second and to all, the second comments on the shape, the third writes   *)
(* to all; two of these in a behaviour.                                       *)
EXTENDS RoomChat, TLC

CONSTANTS n1, n2, u1, u2, u3, p1, p2, p3

TheUsers == p1 :> u1 @@ p2 :> u2 @@ p3 :> u3
TheNodes == p1 :> n1 @@ p2 :> n2 @@ p3 :> n2

To(u) == [kind |-> "direct", to |-> u]
Group == [kind |-> "group", to |-> Nothing]
Comment == [kind |-> "comment", to |-> "shape"]

TheContents == {To(u2), To(u3), Group, Comment}
TheWrites == p1 :> {To(u2), Group} @@ p2 :> {Comment} @@ p3 :> {Group}
=============================================================================
