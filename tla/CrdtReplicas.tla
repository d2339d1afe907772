---------------------------- MODULE CrdtReplicas ----------------------------
(***************************************************************************)
(* What the merge of CanvasCrdt promises when every party keeps its        *)
(* tombstones: replicas that have merged the same client messages hold the *)
(* same canvas, whatever the order, the grouping and the repetition of the *)
(* messages.  A message is one canvas_snapshot: the shapes it carries and  *)
(* the ids it deletes with its deletionMeta.                               *)
(***************************************************************************)
EXTENDS CanvasCrdt

CONSTANTS Replicas,
          Messages   \* the snapshots clients send: records writes, dels

ASSUME MessagesAssumption == Messages \subseteq [writes : Entries, dels : Entries]

VARIABLES shapes,     \* shapes[r]: the shapes replica r holds
          tombs,      \* tombs[r]: its tombstones
          merged      \* merged[r]: history, the messages r has merged

vars == <<shapes, tombs, merged>>

Init == /\ shapes = [r \in Replicas |-> NoEntries]
        /\ tombs = [r \in Replicas |-> NoEntries]
        /\ merged = [r \in Replicas |-> {}]

\* Replica r merges message m, perhaps for the second time.
MergeMessage(r, m) ==
  /\ shapes' = [shapes EXCEPT ![r] =
                  MergedShapes(shapes[r], tombs[r], m.dels, m.writes)]
  /\ tombs' = [tombs EXCEPT ![r] =
                  MergedTombs(shapes[r], tombs[r], m.dels, m.writes)]
  /\ merged' = [merged EXCEPT ![r] = @ \cup {m}]

Next == \E r \in Replicas, m \in Messages : MergeMessage(r, m)

Spec == Init /\ [][Next]_vars

-----------------------------------------------------------------------------
\* Every id has a metadata or none, among the shapes and among the tombstones.
TypeOK == /\ shapes \in [Replicas -> Entries]
          /\ tombs \in [Replicas -> Entries]
          /\ merged \in [Replicas -> SUBSET Messages]

Live(r, i) == IF shapes[r][i] # Absent THEN shapes[r][i] ELSE tombs[r][i]

(***************************************************************************)
(* The inductive invariant: a cell is a shape or a tombstone, and it is    *)
(* the newest of everything the replica merged for that id, a deletion     *)
(* winning over a write with the same metadata.                            *)
(***************************************************************************)
OneOfTwo(r, i) == shapes[r][i] = Absent \/ tombs[r][i] = Absent

Covers(r, i) ==
  \A m \in merged[r] :
    /\ AtMost(m.writes[i], Live(r, i))
    /\ AtMost(m.dels[i], Live(r, i))
    /\ m.dels[i] # Absent => shapes[r][i] # m.dels[i]

Witnessed(r, i) ==
  /\ shapes[r][i] # Absent => \E m \in merged[r] : m.writes[i] = shapes[r][i]
  /\ tombs[r][i] # Absent => \E m \in merged[r] : m.dels[i] = tombs[r][i]

CellInv == \A r \in Replicas, i \in Ids :
             OneOfTwo(r, i) /\ Covers(r, i) /\ Witnessed(r, i)

(***************************************************************************)
(* Strong convergence: replicas that merged the same set of snapshots hold *)
(* the same shapes and the same tombstones (mergeCanvasCrdtSnapshot is     *)
(* commutative, associative and idempotent over whole histories).          *)
(***************************************************************************)
Convergence ==
  \A r, s \in Replicas :
    merged[r] = merged[s] => shapes[r] = shapes[s] /\ tombs[r] = tombs[s]

(***************************************************************************)
(* A deletion is never undone by an older write: once a replica merged a   *)
(* deletion of i, the shape it shows for i, if any, is strictly newer.     *)
(***************************************************************************)
NoResurrection ==
  \A r \in Replicas, i \in Ids : \A m \in merged[r] :
    m.dels[i] # Absent /\ shapes[r][i] # Absent =>
      ~AtMost(shapes[r][i], m.dels[i])

(***************************************************************************)
(* A merge never moves an id back: what a replica knows of an id (its      *)
(* shape, else its tombstone) only gets newer, so that a late or repeated  *)
(* snapshot cannot bring an earlier drawing back.                          *)
(***************************************************************************)
Forward == \A r \in Replicas, i \in Ids :
             AtMost(Live(r, i), Live(r, i)')

OnlyForward == [][Forward]_vars

=============================================================================
