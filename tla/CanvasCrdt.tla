----------------------------- MODULE CanvasCrdt -----------------------------
(***************************************************************************)
(* The last-writer-wins merge of packages/common/src/canvas-crdt.ts, which *)
(* the WebSocket nodes and the browser both use.  A shape is known by its  *)
(* id and by the metadata of its last write; its drawing attributes are    *)
(* abstracted to that metadata, because reconcileLocalCanvasCrdtSnapshot   *)
(* stamps every changed shape with a fresh clock.  The merge treats each   *)
(* id on its own, so it is defined on one cell (the shape and the          *)
(* tombstone of an id) and lifted to the functions from ids to metadata.   *)
(***************************************************************************)
EXTENDS Integers

CONSTANTS Ids,      \* shape ids
          Authors   \* clientIds, numbered in localeCompare order

ASSUME AuthorsAssumption == Authors \subseteq Nat

(***************************************************************************)
(* CanvasCrdtMetadata.  Absent stands for the entry a Map does not hold    *)
(* (`undefined`): it is below every metadata, so the tests                 *)
(* `!existing || newerOrEqual(incoming, existing)` of the source are       *)
(* AtMost(existing, incoming).                                             *)
(***************************************************************************)
Meta == [clock : Nat, author : Authors]
Absent == [clock |-> -1, author |-> 0]
MaybeMeta == Meta \cup {Absent}

\* isCanvasCrdtNewerOrEqual(b, a): clock first, then clientId.
AtMost(a, b) == \/ a.clock < b.clock
                \/ a.clock = b.clock /\ a.author <= b.author

Newer(a, b) == IF AtMost(a, b) THEN b ELSE a

Cell == [shape : MaybeMeta, tomb : MaybeMeta]
EmptyCell == [shape |-> Absent, tomb |-> Absent]

\* (Changed form, for the mutants: only a strictly newer deletion wins.)
DeleteCellStrict(c, d) ==
  LET existing == IF c.shape # Absent THEN c.shape ELSE c.tomb
  IN  IF d # Absent /\ ~AtMost(d, existing)
      THEN [shape |-> Absent, tomb |-> d]
      ELSE c

\* One deletion of the loop at `for (const deletion of deletions)`.
DeleteCell(c, d) ==
  LET existing == IF c.shape # Absent THEN c.shape ELSE c.tomb
  IN  IF d # Absent /\ AtMost(existing, d)
      THEN [shape |-> Absent, tomb |-> d]
      ELSE c

\* (Changed form: a write ignores the tombstone.)
WriteCellNoTomb(c, w) ==
  IF w # Absent /\ AtMost(c.shape, w) THEN [shape |-> w, tomb |-> Absent] ELSE c

\* One shape of the loop at `for (const shape of incomingShapes)`.
WriteCell(c, w) ==
  IF w # Absent /\ ~AtMost(w, c.tomb) /\ AtMost(c.shape, w)
  THEN [shape |-> w, tomb |-> Absent]
  ELSE c

\* Deletions are applied first, then the incoming shapes.
MergeCell(c, d, w) == WriteCell(DeleteCell(c, d), w)

(***************************************************************************)
(* The whole snapshot: shapes, dels and writes are functions from Ids to   *)
(* MaybeMeta (Absent: the id is not in the array or the map).              *)
(***************************************************************************)
NoEntries == [i \in Ids |-> Absent]
Entries == [Ids -> MaybeMeta]

MergedCell(shapes, tombs, dels, writes, i) ==
  MergeCell([shape |-> shapes[i], tomb |-> tombs[i]], dels[i], writes[i])

MergedShapes(shapes, tombs, dels, writes) ==
  [i \in Ids |-> MergedCell(shapes, tombs, dels, writes, i).shape]

MergedTombs(shapes, tombs, dels, writes) ==
  [i \in Ids |-> MergedCell(shapes, tombs, dels, writes, i).tomb]

=============================================================================
