-------------------------- MODULE MC_CrdtReplicas --------------------------
(***************************************************************************)
(* CrdtReplicas for TLC: two replicas, one id (the merge treats ids        *)
(* independently) and every message that writes it or deletes it (a client *)
(* never does both to one id) with metadata of clocks up to MaxClock.      *)
(***************************************************************************)
EXTENDS CrdtReplicas

CONSTANT MaxClock

MCClocks == 0 .. MaxClock
MCMetas == [clock : MCClocks, author : Authors] \cup {Absent}
MCMessages == {m \in [writes : [Ids -> MCMetas], dels : [Ids -> MCMetas]] :
                 /\ m.writes # m.dels
                 /\ \A i \in Ids : m.writes[i] = Absent \/ m.dels[i] = Absent}

----------------------------------------------------------------------------
(***************************************************************************)
(* The order AtMost is decided against the sign of the numeric difference  *)
(* the source returns, for every pair of metadata.                         *)
(***************************************************************************)
ASSUME OrderIsTotal ==
  \A a, b \in MCMetas : /\ AtMost(a, b) \/ AtMost(b, a)
                        /\ AtMost(a, b) /\ AtMost(b, a) => a = b

=============================================================================
