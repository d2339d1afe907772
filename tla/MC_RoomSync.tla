---------------------------- MODULE MC_RoomSync ----------------------------
(***************************************************************************)
(* RoomSync for TLC.  The room holds shape a, drawn before shapes carried  *)
(* metadata (the default {0, "server"}); author 0 is "server".  The        *)
(* snapshots are those of a short session of three clients: 1 changes a, 2 *)
(* draws b, and 3 deletes a.                                               *)
(***************************************************************************)
EXTENDS RoomSync, TLC

CONSTANTS n1, n2, s1, s2, s3

M(clock, author) == [clock |-> clock, author |-> author]
Shapes(a, b) == [i \in Ids |-> IF i = "a" THEN a ELSE b]
Snapshot(writes, dels) == [writes |-> writes, dels |-> dels]

Server == M(0, 0)
OldRoom == Shapes(Server, Absent)
ChangeA == Snapshot(Shapes(M(1, 1), Absent), NoEntries)
DrawB == Snapshot(Shapes(Server, M(1, 2)), NoEntries)
DeleteA == Snapshot(NoEntries, Shapes(M(1, 3), Absent))

\* One socket on each node; what a snapshot says does not matter for whether
\* it is answered.
ApartNodeOf == s1 :> n1 @@ s2 :> n2
PlainMessages == s1 :> {ChangeA} @@ s2 :> {DrawB}

\* Two sockets on n1, which share its Redis connection, and one on n2.
SharedNodeOf == s1 :> n1 @@ s2 :> n1 @@ s3 :> n2
SharedMessages == s1 :> {ChangeA} @@ s2 :> {DeleteA} @@ s3 :> {DrawB}

(***************************************************************************)
(* The view of the safety run: what a handler may still read at the await  *)
(* it is at.  Its other variables are assigned before they are read again, *)
(* no action reads acks, and no property of the run reads either.          *)
(***************************************************************************)
Live(used, x) == IF used THEN x ELSE 0

Locals(s) ==
  [goal |-> Live(pc[s] \notin BeforeReply \cup {"idle"}, goal[s]),
   msg |-> Live(pc[s] \in BeforeReply \/ (pc[s] # "idle" /\ goal[s] = "merge"), msg[s]),
   read |-> Live(pc[s] \in {"readSnapshot", "readDb", "seed", "check", "committed"},
                 read[s]),
   base |-> Live(pc[s] \in BeforeReply, base[s]),
   draft |-> Live(pc[s] \in BeforeReply \cup {"seed"}, draft[s]),
   attempt |-> Live(pc[s] \in BeforeReply, attempt[s])]

LiveState == <<redis, node, pc, joined, [s \in Sockets |-> Locals(s)],
               received, faults, requested, committed, mishaps>>

=============================================================================
