------------------------------ MODULE RoomOpen ------------------------------
(***************************************************************************)
(* How the pages of one owner open a room by its slug and load its shapes  *)
(* (canvas/[roomId]/page.tsx and the handlers of room.controller.ts): look *)
(* the slug up, create the room when there is none, look again when another*)
(* page was faster, go to the room's canonical address and resolve that,   *)
(* then read the shapes page by page; with the save and the reload of the  *)
(* toolbar and a rename from the list of rooms.                            *)
(***************************************************************************)
EXTENDS Integers, Sequences, SequencesExt, FiniteSets

CONSTANTS
  Visits,        \* the pages
  Slugs,
  PageSize,      \* shapes of one page of the load
  DefaultPage,   \* shapes a request without a limit answers
  MaxDrawn,      \* bound: shapes drawn
  MaxStores,     \* bound: saves
  MaxRenames,    \* bound: renames
  MaxBreaks      \* bound: queries that fail

ASSUME RoomOpenAssumption ==
  /\ PageSize \in Nat \ {0} /\ DefaultPage \in Nat \ {0}
  /\ PageSize <= DefaultPage
  /\ {MaxDrawn, MaxStores, MaxRenames, MaxBreaks} \subseteq Nat

VARIABLES
  rooms,         \* rooms[i]: the slug and the rows (shape, createdAt) of room i
  visit,         \* visit[t]: the state of the page
  inked, stores, renames, breaks,
  held           \* history: held[t]: the shapes its room had since its load began

openVars == <<rooms, visit, inked, stores, renames, breaks, held>>

\* handle: whether the owner has one; got: the pages read so far; loaded: what
\* the last load ended with; shows: what is on the canvas
Away == [stage |-> "away", slug |-> "none", handle |-> FALSE, room |-> 0, cursor |-> 0,
         got |-> <<>>, loaded |-> <<>>, shows |-> <<>>]

OpenInit ==
  /\ rooms = <<>>
  /\ visit = [t \in Visits |-> Away]
  /\ inked = 0 /\ stores = 0 /\ renames = 0 /\ breaks = 0
  /\ held = [t \in Visits |-> {}]

Shapes(rows) == [i \in DOMAIN rows |-> rows[i].shape]
Named(slug) == {i \in DOMAIN rooms : rooms[i].slug = slug}
Moves(t, page) == visit' = [visit EXCEPT ![t] = page]
Steps(t, stage) == Moves(t, [visit[t] EXCEPT !.stage = stage])
RoomsStand == UNCHANGED <<rooms, inked, stores, renames>>

Reads(t, id) ==
  /\ Moves(t, [visit[t] EXCEPT !.stage = "reading", !.room = id])
  /\ held' = [held EXCEPT ![t] = {Shapes(rooms[id].rows)}]

----------------------------------------------------------------------------
(* resolveRoomIdAndShapes *)
Visit(t, slug, handle) ==
  /\ visit[t].stage = "away"
  /\ Moves(t, [Away EXCEPT !.stage = "lookup", !.slug = slug, !.handle = handle])
  /\ RoomsStand /\ UNCHANGED <<breaks, held>>

\* a room that was found: its canonical address, or its shapes
Found(t, id) ==
  IF visit[t].handle THEN Steps(t, "resolve") /\ UNCHANGED held ELSE Reads(t, id)

\* getRoomIdFromSlug; a 404 creates the room the first time only
Lookup(t) ==
  /\ visit[t].stage \in {"lookup", "again"}
  /\ LET found == Named(visit[t].slug)
     IN  IF found # {} THEN \E id \in found : Found(t, id)
         ELSE /\ Steps(t, IF visit[t].stage = "lookup" THEN "create" ELSE "failed")
              /\ UNCHANGED held
  /\ RoomsStand /\ UNCHANGED breaks

\* (Changed form: a 409 is an error as any other.)
CreateRoomOnce(t) ==
  /\ visit[t].stage = "create"
  /\ IF Named(visit[t].slug) # {} THEN Steps(t, "failed") /\ UNCHANGED <<rooms, held>>
     ELSE /\ rooms' = Append(rooms, [slug |-> visit[t].slug, rows |-> <<>>])
          /\ IF visit[t].handle THEN Steps(t, "resolve") /\ UNCHANGED held
             ELSE /\ Moves(t, [visit[t] EXCEPT !.stage = "open", !.room = Len(rooms) + 1])
                  /\ held' = [held EXCEPT ![t] = {<<>>}]
  /\ UNCHANGED <<inked, stores, renames, breaks>>

\* createRoom: (adminId, slug) is unique, 409 looks the slug up again; the page
\* of a new room is empty, and goes to the room's address when it has one.
CreateRoom(t) ==
  /\ visit[t].stage = "create"
  /\ IF Named(visit[t].slug) # {} THEN Steps(t, "again") /\ UNCHANGED <<rooms, held>>
     ELSE /\ rooms' = Append(rooms, [slug |-> visit[t].slug, rows |-> <<>>])
          /\ IF visit[t].handle THEN Steps(t, "resolve") /\ UNCHANGED held
             ELSE /\ Moves(t, [visit[t] EXCEPT !.stage = "open", !.room = Len(rooms) + 1])
                  /\ held' = [held EXCEPT ![t] = {<<>>}]
  /\ UNCHANGED <<inked, stores, renames, breaks>>

\* getRoomByOwnerAndSlug: 403 when the address has no room
Resolve(t) ==
  /\ visit[t].stage = "resolve"
  /\ LET found == Named(visit[t].slug)
     IN  IF found # {} THEN \E id \in found : Reads(t, id)
         ELSE Steps(t, "denied") /\ UNCHANGED held
  /\ RoomsStand /\ UNCHANGED breaks

\* a network or server error ends the load with nothing shown
OpenFails(t) ==
  /\ visit[t].stage \in {"lookup", "create", "again", "resolve", "reading"}
  /\ breaks < MaxBreaks /\ breaks' = breaks + 1
  /\ Steps(t, "failed")
  /\ RoomsStand /\ UNCHANGED held

----------------------------------------------------------------------------
(* getShapes *)
\* The rows are by createdAt: those up to the cursor are left out, the last one
\* of the page gives the next cursor.
PageOf(rows, cursor, limit) ==
  LET past == {i \in DOMAIN rows : rows[i].at <= cursor}
      after == SubSeq(rows, Cardinality(past) + 1, Len(rows))
      page == SubSeq(after, 1, IF Len(after) < limit THEN Len(after) ELSE limit)
  IN  [shapes |-> Shapes(page), next |-> IF Len(after) > limit THEN page[limit].at ELSE 0]

WithShape(shapes, s) == IF Contains(shapes, s) THEN shapes ELSE Append(shapes, s)
Unrepeated(got) ==
  LET first[n \in 0..Len(got)] == IF n = 0 THEN <<>> ELSE WithShape(first[n - 1], got[n])
  IN  first[Len(got)]

\* hydrateShapes, of the shapes of all pages without repetitions
Hydrates(t, got) ==
  Moves(t, [visit[t] EXCEPT !.stage = "open", !.cursor = 0, !.got = <<>>,
              !.loaded = Unrepeated(got), !.shows = Unrepeated(got)])

ReadPage(t) ==
  /\ visit[t].stage = "reading"
  /\ LET page == PageOf(rooms[visit[t].room].rows, visit[t].cursor, PageSize)
         got == visit[t].got \o page.shapes
     IN  IF page.next = 0 THEN Hydrates(t, got)
         ELSE Moves(t, [visit[t] EXCEPT !.cursor = page.next, !.got = got])
  /\ RoomsStand /\ UNCHANGED <<breaks, held>>

\* An error of Prisma is answered by an empty last page.
ReadNothing(t) ==
  /\ visit[t].stage = "reading"
  /\ breaks < MaxBreaks /\ breaks' = breaks + 1
  /\ Hydrates(t, visit[t].got)
  /\ RoomsStand /\ UNCHANGED held

----------------------------------------------------------------------------
(* The toolbar, and the list of rooms. *)
\* replaceShapes: all rows of a save get one createdAt
Replaces(id, shapes) ==
  /\ rooms' = [rooms EXCEPT ![id].rows =
                 [i \in DOMAIN shapes |-> [shape |-> shapes[i], at |-> stores + 1]]]
  /\ held' = [u \in Visits |-> IF visit[u].stage = "reading" /\ visit[u].room = id
                               THEN held[u] \cup {shapes} ELSE held[u]]

\* handleManualSaveCanvas, of a canvas where n shapes were drawn since the load,
\* which may have been cleared before
SaveCanvas(t) ==
  /\ visit[t].stage = "open" /\ stores < MaxStores
  /\ stores' = stores + 1
  /\ \E kept \in {visit[t].shows, <<>>}, n \in 0..(MaxDrawn - inked) :
       LET shapes == kept \o [i \in 1..n |-> inked + i]
       IN  /\ Replaces(visit[t].room, shapes)
           /\ Moves(t, [visit[t] EXCEPT !.shows = shapes])
           /\ inked' = inked + n
  /\ UNCHANGED <<renames, breaks>>

\* handleReloadCanvas: one request without a limit
ReloadCanvas(t) ==
  /\ visit[t].stage = "open"
  /\ LET rows == rooms[visit[t].room].rows
     IN  /\ Hydrates(t, PageOf(rows, 0, DefaultPage).shapes)
         /\ held' = [held EXCEPT ![t] = {Shapes(rows)}]
  /\ RoomsStand /\ UNCHANGED breaks

\* renameRoomSlug: a slug that is taken is refused
Rename(id, slug) ==
  /\ renames < MaxRenames /\ Named(slug) = {}
  /\ renames' = renames + 1
  /\ rooms' = [rooms EXCEPT ![id].slug = slug]
  /\ UNCHANGED <<visit, inked, stores, breaks, held>>

GoAway(t) ==
  /\ visit[t].stage # "away"
  /\ Moves(t, Away) /\ held' = [held EXCEPT ![t] = {}]
  /\ RoomsStand /\ UNCHANGED breaks

----------------------------------------------------------------------------
OpenNext ==
  \/ \E t \in Visits :
       \/ Lookup(t) \/ CreateRoom(t) \/ Resolve(t) \/ OpenFails(t) \/ ReadPage(t) \/ ReadNothing(t)
       \/ SaveCanvas(t) \/ ReloadCanvas(t) \/ GoAway(t)
       \/ \E slug \in Slugs, handle \in BOOLEAN : Visit(t, slug, handle)
  \/ \E id \in DOMAIN rooms, slug \in Slugs : Rename(id, slug)

OpenSpec == OpenInit /\ [][OpenNext]_openVars

----------------------------------------------------------------------------
(* Properties *)

\* Whatever pages open a slug at the same time, none of them is refused and
\* all come to one room, also when several find that there is none
\* (page.tsx:1737-1748).
OneRoom ==
  /\ \A t \in Visits : visit[t].stage \notin {"failed", "denied"}
  /\ \A t, u \in Visits :
       visit[t].stage = "open" /\ visit[u].stage = "open" /\ visit[t].slug = visit[u].slug =>
         visit[t].room = visit[u].room

\* What a load ends with begins with the first page of a version that the room
\* had since the load began and has no shape that no such version has.
FirstPage(shapes) == SubSeq(shapes, 1, IF Len(shapes) < PageSize THEN Len(shapes) ELSE PageSize)
LoadsAVersion ==
  \A t \in Visits : visit[t].stage = "open" =>
    /\ \E v \in held[t] : IsPrefix(FirstPage(v), visit[t].loaded)
    /\ ToSet(visit[t].loaded) \subseteq UNION {ToSet(v) : v \in held[t]}

\* Pages that open a slug come to its one room, unless it is renamed, and load
\* what it had; unless a query fails.
OpensTheRoom == breaks = 0 => (renames = 0 => OneRoom) /\ LoadsAVersion
=============================================================================
