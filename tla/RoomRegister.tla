---------------------------- MODULE RoomRegister ----------------------------
(***************************************************************************)
(* What a room promises its clients, without nodes, caches or Redis: one   *)
(* authoritative history in which every version is its predecessor changed *)
(* by the newer entries of one client's snapshot.  An id the snapshot says *)
(* nothing newer about is left as it is; leaving an id out of a snapshot   *)
(* deletes nothing.                                                        *)
(***************************************************************************)
EXTENDS CanvasCrdt

CONSTANTS Messages,        \* snapshots clients may send
          InitialShapes

VARIABLES version, shapes

Init == version = 0 /\ shapes = InitialShapes

\* What a snapshot may make of one shape.
Kept(old, new) == new = old
Written(old, new, w) == w # Absent /\ new = w /\ AtMost(old, w)
Deleted(old, new, d) == d # Absent /\ new = Absent /\ AtMost(old, d)

Successor(old, new, m) ==
  \A i \in Ids : \/ Kept(old[i], new[i])
                 \/ Written(old[i], new[i], m.writes[i])
                 \/ Deleted(old[i], new[i], m.dels[i])

Commit == /\ version' = version + 1
          /\ \E m \in Messages : Successor(shapes, shapes', m)

Spec == Init /\ [][Commit]_<<version, shapes>>

=============================================================================
