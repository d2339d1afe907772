----------------------------- MODULE SheetEdits -----------------------------
(***************************************************************************)
(* A sheet of shapes under one user's hands: the gestures of the select    *)
(* tool (canvas-engine/src/events.ts) with the actions of store.ts, which  *)
(* carry the labels of a box and the ends of the connectors that are bound *)
(* to it, and the commands of the canvas page: align, distribute, tidy     *)
(* with the nodes at given places, and attach labels.  CanvasEditor has    *)
(* who may do what and when; this module has where the shapes come to lie. *)
(* Connectors snap (connectorSnapEnabled).                                 *)
(***************************************************************************)
EXTENDS ShapeGeometry

CONSTANTS
  Sheets,        \* the sheets to begin with
  Points,        \* where the pointer may go, <<x, y>>
  Spans          \* pairs of points for marquees and new shapes

VARIABLES
  sheet,         \* CanvasState's shapes, the last on top
  chosen,        \* selectedShapeIds
  primary,       \* selectedShape's id
  hold,          \* isDragging, isResizing with their anchor and session
  done,          \* history: the last step
  loose,         \* history: connectors a page command may have left off a shape
  steps          \* history: how many

sheetVars == <<sheet, chosen, primary, hold, done, loose, steps>>

Resting == [what |-> "nothing"]

AllIds(s) == {s[i].id : i \in DOMAIN s}

SheetInit ==
  /\ sheet \in Sheets
  /\ chosen = AllIds(sheet) /\ primary = NoId /\ hold = Resting
  /\ done = [step |-> "opened"] /\ loose = {} /\ steps = 0

\* normalizeShapes, which every write passes: thin shapes are given a pixel
\* (texts eight), and a text whose box is gone is loose
AtLeast(b, w, h) == [b EXCEPT !.x2 = Larger(b.x1 + w, @), !.y2 = Larger(b.y1 + h, @)]

CanonicalText(t, b, ids) ==
  [t EXCEPT !.x = b.x1, !.y = b.y1, !.w = Width(b), !.h = Height(b),
            !.font = Larger(8 * Px, @), !.parent = IF @ \in ids THEN @ ELSE NoId]

CanonicalShape(t, ids) ==
  CASE t.type \in {"rect", "rhombus"} -> Reshaped(t, AtLeast(Box(t), Px, Px))
    [] t.type = "circle" -> [t EXCEPT !.rx = Larger(Px, Abs(@)), !.ry = Larger(Px, Abs(@))]
    [] IsConnector(t) ->
         [t EXCEPT !.x2 = IF <<t.x1, t.y1>> = <<t.x2, t.y2>> THEN @ + Px ELSE @]
    [] t.type = "text" -> CanonicalText(t, AtLeast(Box(t), 8 * Px, 8 * Px), ids)
    [] OTHER -> t

Canonical(s) == LET ids == AllIds(s) IN Each(s, LAMBDA t : CanonicalShape(t, ids))

IndexOf(s, id) == The(s, LAMBDA x : x.id = id)
ShapeOf(s, id) == s[IndexOf(s, id)]

----------------------------------------------------------------------------
(* The ends of connectors. *)
Held(s, end) == \E i \in DOMAIN s : s[i].id = end.to /\ ~IsConnector(s[i])

PointIn(b, end) ==
  <<b.x1 + (end.relX[1] * Width(b)) \div end.relX[2],
    b.y1 + (end.relY[1] * Height(b)) \div end.relY[2]>>

EndPoint(s, end, otherwise) ==
  IF Held(s, end) THEN PointIn(Box(ShapeOf(s, end.to)), end) ELSE otherwise

Rejoined(c, p, q, start, end) ==
  [c EXCEPT !.x1 = p[1], !.y1 = p[2], !.x2 = q[1], !.y2 = q[2], !.start = start, !.end = end]

\* c between the places of its ends
OnEnds(s, c, start, end) ==
  Rejoined(c, EndPoint(s, start, <<c.x1, c.y1>>), EndPoint(s, end, <<c.x2, c.y2>>), start, end)

\* applyConnectorBindings: an end whose shape is gone is let go
KeptEnd(s, end) == IF Held(s, end) THEN end ELSE FreeEnd

Reprojected(s) ==
  Each(s, LAMBDA c :
    IF IsConnector(c) THEN OnEnds(s, c, KeptEnd(s, c.start), KeptEnd(s, c.end)) ELSE c)

SnapTolerance == 10 * Px

\* findTopBindableShapeAtPoint, getRelativeBindingForPoint
BoundIn(t, b, w, h, x, y) ==
  Bound(t.id, <<Clamp(x - b.x1, 0, w), w>>, <<Clamp(y - b.y1, 0, h), h>>)

Snapped(s, x, y) ==
  LET i == TopMost(s, LAMBDA t : ~IsConnector(t) /\ Within(Grown(Box(t), SnapTolerance), x, y))
      b == Box(s[i])
  IN  IF i = 0 THEN FreeEnd
      ELSE BoundIn(s[i], b, Larger(Px, Width(b)), Larger(Px, Height(b)), x, y)

\* refreshBindingsForConnectorIds
Rebound(s, ids) ==
  Each(s, LAMBDA c :
    IF IsConnector(c) /\ c.id \in ids
    THEN [c EXCEPT !.start = Snapped(s, c.x1, c.y1), !.end = Snapped(s, c.x2, c.y2)]
    ELSE c)

----------------------------------------------------------------------------
(* syncTextChildrenToParent: a label keeps its place and its part of the   *)
(* box, is kept within the box and at least eight pixels large.            *)
Scaled(n, from, to) == (Clamp(n, 0, from) * to) \div from

\* on one axis, from a box between old1 and old2 to one between new1 and new2
CarriedTo(at, old1, old2, new1, new2) ==
  new1 + Scaled(at - old1, Larger(Px, old2 - old1), Larger(Px, new2 - new1))
CarriedLength(length, at, old1, old2, new1, new2) ==
  LET scaled == Scaled(length, Larger(Px, old2 - old1), Larger(Px, new2 - new1))
      room == Larger(8 * Px, new2 - CarriedTo(at, old1, old2, new1, new2))
  IN  Larger(8 * Px, Smaller(scaled, room))

CarriedAlong(t, old, new) ==
  [t EXCEPT !.x = CarriedTo(t.x, old.x1, old.x2, new.x1, new.x2),
            !.y = CarriedTo(t.y, old.y1, old.y2, new.y1, new.y2),
            !.w = CarriedLength(t.w, t.x, old.x1, old.x2, new.x1, new.x2),
            !.h = CarriedLength(t.h, t.y, old.y1, old.y2, new.y1, new.y2)]

SyncChildren(prev, next, parents, skip) ==
  Each(next, LAMBDA t :
    IF t.type = "text" /\ t.id \notin skip /\ t.parent \in parents \cap AllIds(next)
    THEN CarriedAlong(t, Box(ShapeOf(prev, t.parent)), Box(ShapeOf(next, t.parent)))
    ELSE t)

\* the shapes with these ids moved; the one with its id replaced
Shifted(s, ids, dx, dy) == Each(s, LAMBDA t : IF t.id \in ids THEN Translated(t, dx, dy) ELSE t)
Replaced(s, shape) == Each(s, LAMBDA t : IF t.id = shape.id THEN shape ELSE t)

\* MOVE_SHAPE
MovedOne(s, shape, keepEnds) ==
  LET synced == SyncChildren(s, Replaced(s, shape), {shape.id}, {})
  IN  Reprojected(IF keepEnds THEN synced ELSE Rebound(synced, {shape.id}))

\* (Changed form: the connectors are left where they were.)
MovedManyLoose(s, ids, dx, dy) == SyncChildren(s, Shifted(s, ids, dx, dy), ids, ids)

\* MOVE_SHAPES, NUDGE_SHAPES
MovedMany(s, ids, dx, dy) ==
  Reprojected(Rebound(SyncChildren(s, Shifted(s, ids, dx, dy), ids, ids), ids))

\* DELETE_SHAPES
Spared(s, ids) ==
  LET rest[n \in 0..Len(s)] ==
        IF n = 0 THEN <<>>
        ELSE IF s[n].id \in ids THEN rest[n - 1] ELSE Append(rest[n - 1], s[n])
  IN  rest[Len(s)]

----------------------------------------------------------------------------
(* The gestures of the select tool.  A handle of the selected shape goes   *)
(* before the others, and a connector is only resized once selected.       *)
SelectionBounds(s, ids) ==
  LET boxes == {Box(s[i]) : i \in {k \in DOMAIN s : s[k].id \in ids}}
  IN  [x1 |-> MinOf({b.x1 : b \in boxes}), y1 |-> MinOf({b.y1 : b \in boxes}),
       x2 |-> MaxOf({b.x2 : b \in boxes}), y2 |-> MaxOf({b.y2 : b \in boxes})]

InSelection(s, ids, x, y) ==
  ids # {} /\ Within(Grown(SelectionBounds(s, ids), SelectionPadding), x, y)

DragHold(shape, x, y) ==
  [what |-> "drag", id |-> shape.id, anchor |-> DragAnchor(shape, x, y)]
MultiHold(x, y) == [what |-> "multi", anchor |-> <<x, y>>]
ResizeHold(shape, handle) == [what |-> "resize", shape |-> shape, handle |-> handle]

\* what a press at x, y takes hold of
Grasped(x, y) ==
  LET r == ResizeTarget(sheet, x, y, primary)
      h == ShapeAtPoint(sheet, x, y)
      inside == InSelection(sheet, chosen, x, y)
      single == CHOOSE id \in chosen : TRUE
  IN  CASE r # 0 /\ (~IsConnector(sheet[r]) \/ primary = sheet[r].id) ->
             ResizeHold(sheet[r], HandleAtPoint(sheet[r], x, y, SelectionPadding))
        [] OTHER ->
             CASE h = 0 /\ inside /\ Cardinality(chosen) > 1 -> MultiHold(x, y)
               [] h = 0 /\ inside /\ Cardinality(chosen) = 1 ->
                    DragHold(ShapeOf(sheet, single), x, y)
               [] h # 0 /\ Cardinality(chosen) > 1 /\ sheet[h].id \in chosen -> MultiHold(x, y)
               [] h # 0 /\ ~(Cardinality(chosen) > 1 /\ sheet[h].id \in chosen) ->
                    DragHold(sheet[h], x, y)
               [] OTHER -> Resting

Went(step) == done' = step /\ steps' = steps + 1

Press(x, y) ==
  /\ hold = Resting
  /\ LET h == Grasped(x, y)
     IN  /\ hold' = h
         /\ chosen' = CASE h.what = "resize" -> {h.shape.id}
                         [] h.what = "drag" -> {h.id}
                         [] h.what = "multi" -> chosen
                         [] OTHER -> {}
         /\ primary' = CASE h.what = "resize" -> h.shape.id
                          [] h.what = "drag" -> h.id
                          [] h.what = "multi" -> primary
                          [] OTHER -> NoId
  /\ Went([step |-> "press"])
  /\ UNCHANGED <<sheet, loose>>

\* a marquee, from where nothing is: the shapes that lie wholly inside it
Marquee(p, q) ==
  /\ hold = Resting /\ Grasped(p[1], p[2]) = Resting
  /\ (q[1] - p[1]) * (q[1] - p[1]) + (q[2] - p[2]) * (q[2] - p[2]) > 9 * Px * Px
  /\ LET box == Normalize(p[1], p[2], q[1], q[2])
         inside == {i \in DOMAIN sheet : Inside(Box(sheet[i]), box)}
     IN  /\ chosen' = {sheet[i].id : i \in inside}
         /\ primary' = IF inside = {} THEN NoId ELSE sheet[MaxOf(inside)].id
  /\ Went([step |-> "marquee"])
  /\ UNCHANGED <<sheet, hold, loose>>

MoveDrag(x, y) ==
  /\ hold.what = "drag" /\ hold.id \in AllIds(sheet)
  /\ LET now == ShapeOf(sheet, hold.id)
     IN  /\ sheet' = Canonical(MovedOne(sheet, Dragged(now, hold.anchor, x, y), IsConnector(now)))
         /\ hold' = [hold EXCEPT !.anchor = DragAnchorNext(now, @, x, y)]
  /\ loose' = {}
  /\ Went([step |-> "drag", ids |-> {hold.id}])
  /\ UNCHANGED <<chosen, primary>>

MoveMulti(x, y) ==
  /\ hold.what = "multi"
  /\ <<x, y>> # hold.anchor
  /\ sheet' = Canonical(MovedMany(sheet, chosen, x - hold.anchor[1], y - hold.anchor[2]))
  /\ hold' = [hold EXCEPT !.anchor = <<x, y>>]
  /\ loose' = {}
  /\ Went([step |-> "multi", ids |-> chosen])
  /\ UNCHANGED <<chosen, primary>>

MoveResize(x, y, fromCenter, preserveAspect) ==
  /\ hold.what = "resize"
  /\ sheet' = Canonical(MovedOne(sheet, ResizeShape(hold.shape, hold.handle, x, y, fromCenter,
                                                    preserveAspect), FALSE))
  /\ loose' = {}
  /\ Went([step |-> "resize"])
  /\ UNCHANGED <<chosen, primary, hold>>

Release ==
  /\ hold # Resting
  /\ hold' = Resting
  /\ Went([step |-> "release"])
  /\ UNCHANGED <<sheet, chosen, primary, loose>>

DeleteChosen ==
  /\ hold = Resting /\ chosen # {}
  /\ sheet' = Canonical(Reprojected(Spared(sheet, chosen)))
  /\ chosen' = {} /\ primary' = NoId /\ loose' = {}
  /\ Went([step |-> "delete"])
  /\ UNCHANGED hold

----------------------------------------------------------------------------
(* Align and distribute (diagram/arrange.ts).  Labels that ride on a       *)
(* selected box are not items of their own.                                *)
Items(s, ids) ==
  {s[i].id : i \in {k \in DOMAIN s : /\ s[k].id \in ids /\ ~IsConnector(s[k])
                                    /\ ~(s[k].type = "text" /\ s[k].parent \in ids)}}

\* reattachConnectors
Reattached(s, moved) ==
  Each(s, LAMBDA c :
    IF IsConnector(c) /\ {c.start.to, c.end.to} \cap moved # {}
    THEN OnEnds(s, c, c.start, c.end) ELSE c)

\* moves gives some shapes a step <<dx, dy>>; a label goes with its box
Mover(t, ids) == IF t.id \in ids THEN t.id
                 ELSE IF t.type = "text" /\ t.parent \in ids THEN t.parent
                 ELSE NoId

MovedBy(s, moves) ==
  Each(s, LAMBDA t :
    LET by == Mover(t, DOMAIN moves)
    IN  IF by = NoId THEN t ELSE Translated(t, moves[by][1], moves[by][2]))

\* (Changed form: the labels stay behind.)
ArrangedBare(s, moves) ==
  Reattached(Each(s, LAMBDA t : IF t.id \in DOMAIN moves
                                THEN Translated(t, moves[t.id][1], moves[t.id][2]) ELSE t),
             DOMAIN moves)

\* applyMoves
Arranged(s, moves) == Reattached(MovedBy(s, moves), DOMAIN moves)

AlignStep(b, all, mode) ==
  CASE mode = "left" -> <<all.x1 - b.x1, 0>>
    [] mode = "right" -> <<all.x2 - b.x2, 0>>
    [] mode = "hcenter" -> <<Half(all.x1 + all.x2 - b.x1 - b.x2), 0>>
    [] mode = "top" -> <<0, all.y1 - b.y1>>
    [] mode = "bottom" -> <<0, all.y2 - b.y2>>
    [] mode = "vcenter" -> <<0, Half(all.y1 + all.y2 - b.y1 - b.y2)>>

\* the connectors with an end on one of the shapes
On(s, ids) == {s[i].id : i \in {k \in DOMAIN s :
                 IsConnector(s[k]) /\ {s[k].start.to, s[k].end.to} \cap ids # {}}}
TextIds(s) == {s[i].id : i \in {k \in DOMAIN s : s[k].type = "text"}}

\* a connector on a label is not reattached when the label's box is moved
Arrange(step, moves) ==
  /\ hold = Resting
  /\ \E id \in DOMAIN moves : moves[id] # <<0, 0>>
  /\ sheet' = Canonical(Arranged(sheet, [id \in {k \in DOMAIN moves : moves[k] # <<0, 0>>} |->
                                           moves[id]]))
  /\ loose' = loose \cup On(sheet, TextIds(sheet))
  /\ Went(step)
  /\ UNCHANGED <<chosen, primary, hold>>

Align(mode) ==
  LET items == Items(sheet, chosen)
      all == SelectionBounds(sheet, items)
  IN  /\ Cardinality(items) >= 2
      /\ Arrange([step |-> "align", ids |-> items, mode |-> mode],
           [id \in items |-> AlignStep(Box(ShapeOf(sheet, id)), all, mode)])

\* the sum of f over the shapes with these ids
SumOver(s, ids, f) ==
  LET sum[n \in 0..Len(s)] ==
        IF n = 0 THEN 0 ELSE sum[n - 1] + (IF s[n].id \in ids THEN f[s[n].id] ELSE 0)
  IN  sum[Len(s)]

\* the steps that leave even gaps, in the order of the low ends of the items
DistributeSteps(s, low, high) ==
  LET items == DOMAIN low
      Before(id, other) == \/ low[id] < low[other]
                           \/ low[id] = low[other] /\ IndexOf(s, id) < IndexOf(s, other)
      lows == {low[id] : id \in items}
      first == MinOf(lows)
      last == s[MaxOf({IndexOf(s, id) : id \in {k \in items : low[k] = MaxOf(lows)}})].id
      span == [id \in items |-> high[id] - low[id]]
      gap == (high[last] - first - SumOver(s, items, span)) \div (Cardinality(items) - 1)
      spaced == [id \in items |-> span[id] + gap]
  IN  [id \in items |-> first + SumOver(s, {other \in items : Before(other, id)}, spaced) - low[id]]

Distribute(axis) ==
  LET items == Items(sheet, chosen)
      across == axis = "horizontal"
      boxes == [id \in items |-> Box(ShapeOf(sheet, id))]
      by == DistributeSteps(sheet,
              [id \in items |-> IF across THEN boxes[id].x1 ELSE boxes[id].y1],
              [id \in items |-> IF across THEN boxes[id].x2 ELSE boxes[id].y2])
  IN  /\ Cardinality(items) >= 3
      /\ Arrange([step |-> "distribute", ids |-> items, axis |-> axis],
           [id \in items |-> IF across THEN <<by[id], 0>> ELSE <<0, by[id]>>])

----------------------------------------------------------------------------
(* Tidy layout (diagram/tidy.ts), of the selection or of all shapes, with  *)
(* the connected nodes where the layout puts them.                         *)
\* getSelectionScope
Scope(s, ids) ==
  {s[i].id : i \in {k \in DOMAIN s :
     \/ ids = {} \/ s[k].id \in ids
     \/ s[k].type = "text" /\ s[k].parent \in ids
     \/ IsConnector(s[k]) /\ {s[k].start.to, s[k].end.to} \subseteq ids}}

NodesIn(s, scope) == {s[i].id : i \in {k \in DOMAIN s : s[k].id \in scope /\ IsNode(s[k])}}

IsLink(s, scope, t) ==
  t.id \in scope /\ IsConnector(t) /\ {t.start.to, t.end.to} \subseteq NodesIn(s, scope)

Connected(s, scope) ==
  UNION {{s[i].start.to, s[i].end.to} : i \in {k \in DOMAIN s : IsLink(s, scope, s[k])}}

CanTidy(s, scope) == Cardinality(NodesIn(s, scope)) >= 2 /\ Connected(s, scope) # {}

\* the steps that take the nodes to their places, the corner kept
TidySteps(s, place) ==
  LET ids == DOMAIN place
      old == [id \in ids |-> Box(ShapeOf(s, id))]
      cornerX == MinOf({old[id].x1 : id \in ids}) - MinOf({place[id].x : id \in ids})
      cornerY == MinOf({old[id].y1 : id \in ids}) - MinOf({place[id].y : id \in ids})
  IN  [id \in ids |-> <<place[id].x + cornerX - old[id].x1, place[id].y + cornerY - old[id].y1>>]

\* c between the places of those of its ends that are in scope
OnEndsWithin(s, scope, c, start, end) ==
  LET At(e, otherwise) == IF e.to \in scope THEN EndPoint(s, e, otherwise) ELSE otherwise
  IN  Rejoined(c, At(start, <<c.x1, c.y1>>), At(end, <<c.x2, c.y2>>), start, end)

HalfWay(id, anchor) == Bound(id, <<anchor[1], 2>>, <<anchor[2], 2>>)

\* c between two nodes of the layout
Reanchored(s, scope, c, place, direction) ==
  LET from == place[c.start.to].rank
      to == place[c.end.to].rank
      anchors == ConnectorAnchors(direction, to > from, to = from)
  IN  OnEndsWithin(s, scope, c, HalfWay(c.start.to, anchors.start), HalfWay(c.end.to, anchors.end))

Rerouted(s, scope, place, direction) ==
  Each(s, LAMBDA c :
    IF ~IsConnector(c) \/ c.id \notin scope THEN c
    ELSE IF {c.start.to, c.end.to} \subseteq DOMAIN place
         THEN Reanchored(s, scope, c, place, direction)
         ELSE OnEndsWithin(s, scope, c, c.start, c.end))

Middle(c) == <<Half(c.x1 + c.x2), Half(c.y1 + c.y2)>>

\* a loose text within 30 pixels of the middle of a connector follows it
Following(old, new, scope) ==
  LET Rides(t, c) ==
        /\ Abs(Middle(c)[1] - Half(Box(t).x1 + Box(t).x2)) <= 30 * Px
        /\ Abs(Middle(c)[2] - Half(Box(t).y1 + Box(t).y2)) <= 30 * Px
      Under(t) == {i \in DOMAIN old : old[i].id \in scope /\ IsConnector(old[i]) /\ Rides(t, old[i])}
  IN  Each(new, LAMBDA t :
        IF t.type # "text" \/ t.id \notin scope THEN t
        ELSE IF t.parent # NoId \/ Under(t) = {} THEN t
        ELSE LET a == Middle(old[MinOf(Under(t))])
                 b == Middle(new[MinOf(Under(t))])
             IN  Translated(t, b[1] - a[1], b[2] - a[2]))

Tidied(s, scope, place, direction) ==
  Following(s, Rerouted(MovedBy(s, TidySteps(s, place)), scope, place, direction), scope)

\* the connectors that lie wholly in scope
Enclosed(s, scope) ==
  {s[i].id : i \in {k \in DOMAIN s : /\ s[k].id \in scope /\ IsConnector(s[k])
                                    /\ {s[k].start.to, s[k].end.to} \subseteq scope \cup {NoId}}}

TidyTo(direction, place) ==
  LET scope == Scope(sheet, chosen)
  IN  /\ hold = Resting /\ CanTidy(sheet, scope)
      /\ sheet' = Canonical(Tidied(sheet, scope, place, direction))
      /\ loose' = ((loose \cup On(sheet, scope)) \ Enclosed(sheet, scope))
                    \cup On(sheet, TextIds(sheet))
      /\ Went([step |-> "tidy", direction |-> direction, ids |-> scope])
      /\ UNCHANGED <<chosen, primary, hold>>

----------------------------------------------------------------------------
(* Attach labels (diagram/labels.ts): loose texts that lie mostly in a box *)
(* become its label, loose ends within 24 pixels of an edge are bound.     *)
AttachDistance == 24 * Px

Area(b) == Width(b) * Height(b)
Overlap(a, b) ==
  [x1 |-> Larger(a.x1, b.x1), y1 |-> Larger(a.y1, b.y1),
   x2 |-> Smaller(a.x2, b.x2), y2 |-> Smaller(a.y2, b.y2)]

\* the first of the boxes with the smallest measure
Best(s, fits, Measure(_)) ==
  LET least == MinOf({Measure(s[i]) : i \in fits}) IN MinOf({i \in fits : Measure(s[i]) = least})

\* the boxes that a text lies mostly in
Around(s, b) ==
  {k \in DOMAIN s :
     LET common == Overlap(b, Box(s[k]))
     IN  /\ IsNode(s[k])
         /\ Within(Box(s[k]), Half(b.x1 + b.x2), Half(b.y1 + b.y2))
         /\ Width(common) > 0 /\ Height(common) > 0
         /\ 10 * Area(common) >= 6 * Area(b)}

TextsBound(s, only) ==
  Each(s, LAMBDA t :
    IF t.type # "text" \/ t.id \notin only THEN t
    ELSE IF t.parent # NoId \/ Around(s, Box(t)) = {} THEN t
    ELSE [t EXCEPT !.parent = s[Best(s, Around(s, Box(t)), LAMBDA n : Area(Box(n)))].id])

\* the square of the distance from an end to a box, or to its edge from within
EdgeDistanceSq(b, x, y) ==
  LET dx == x - Clamp(x, b.x1, b.x2)
      dy == y - Clamp(y, b.y1, b.y2)
      edge == Smaller(Smaller(x - b.x1, b.x2 - x), Smaller(y - b.y1, b.y2 - y))
  IN  IF Within(b, x, y) THEN edge * edge ELSE dx * dx + dy * dy

\* the boxes that an end is close to
EdgesNear(s, x, y) ==
  {k \in DOMAIN s :
     /\ IsNode(s[k]) /\ Width(Box(s[k])) > 0 /\ Height(Box(s[k])) > 0
     /\ EdgeDistanceSq(Box(s[k]), x, y) <= AttachDistance * AttachDistance}

Nearest(s, end, x, y) ==
  LET n == s[Best(s, EdgesNear(s, x, y), LAMBDA k : EdgeDistanceSq(Box(k), x, y))]
      b == Box(n)
  IN  IF IsBound(end) \/ EdgesNear(s, x, y) = {} THEN FreeEnd
      ELSE BoundIn(n, b, Width(b), Height(b), x, y)

EndsBound(s, only) ==
  Each(s, LAMBDA c :
    IF ~IsConnector(c) \/ c.id \notin only THEN c
    ELSE LET start == Nearest(s, c.start, c.x1, c.y1)
             end == Nearest(s, c.end, c.x2, c.y2)
         IN  IF IsBound(start) /\ start.to = end.to THEN c
             ELSE [c EXCEPT !.start = IF IsBound(start) THEN start ELSE @,
                            !.end = IF IsBound(end) THEN end ELSE @])

LinkedUp(s, ids) == EndsBound(TextsBound(s, ids), ids)

BindLabels ==
  LET only == Scope(sheet, chosen)
      bound == LinkedUp(sheet, only)
  IN  /\ hold = Resting /\ bound # sheet
      /\ sheet' = Canonical(bound)
      /\ loose' = loose \cup {sheet[i].id : i \in {k \in DOMAIN sheet : bound[k] # sheet[k]}}
      /\ Went([step |-> "attach", ids |-> only])
      /\ UNCHANGED <<chosen, primary, hold>>

----------------------------------------------------------------------------
(* A new shape, drawn with a tool (ADD_SHAPE). *)
DrawnId == <<"drawn">>

Drawn(tool, p, q, preserveAspect) ==
  IF tool \in Connector
  THEN [id |-> DrawnId, type |-> tool, x1 |-> p[1], y1 |-> p[2], x2 |-> q[1], y2 |-> q[2],
        dashed |-> FALSE, start |-> FreeEnd, end |-> FreeEnd]
  ELSE Reshaped(IF tool = "circle"
                THEN [id |-> DrawnId, type |-> tool, cx |-> 0, cy |-> 0, rx |-> 0, ry |-> 0]
                ELSE [id |-> DrawnId, type |-> tool, x |-> 0, y |-> 0, w |-> 0, h |-> 0],
                DrawnBox(p[1], p[2], q[1], q[2], preserveAspect))

Draw(tool, p, q, preserveAspect) ==
  /\ hold = Resting /\ p # q /\ DrawnId \notin AllIds(sheet)
  /\ sheet' = Canonical(Reprojected(Rebound(Append(sheet, Drawn(tool, p, q, preserveAspect)),
                                            {DrawnId})))
  /\ chosen' = {DrawnId} /\ primary' = DrawnId /\ loose' = {}
  /\ Went([step |-> "draw"])
  /\ UNCHANGED hold

----------------------------------------------------------------------------
Gesture ==
  \/ \E p \in Points : Press(p[1], p[2]) \/ MoveDrag(p[1], p[2]) \/ MoveMulti(p[1], p[2])
  \/ \E p \in Points, fromCenter, square \in BOOLEAN : MoveResize(p[1], p[2], fromCenter, square)
  \/ \E span \in Spans : Marquee(span[1], span[2])
  \/ Release
  \/ DeleteChosen
  \/ \E span \in Spans, square \in BOOLEAN :
       \/ \E tool \in {"rect", "circle"} : Draw(tool, span[1], span[2], square)
       \/ ~square /\ Draw("arrow", span[1], span[2], square)

ArrangeCommand ==
  \/ \E mode \in {"left", "right", "hcenter", "top", "bottom", "vcenter"} : Align(mode)
  \/ \E axis \in {"horizontal", "vertical"} : Distribute(axis)
  \/ BindLabels

\* every way to lay the connected nodes out
Layouts == [Connected(sheet, Scope(sheet, chosen)) -> [x : Int, y : Int, rank : Nat]]
AnyTidy == \E direction \in {"TD", "LR"} : \E place \in Layouts : TidyTo(direction, place)

EditsSpec == SheetInit /\ [][Gesture \/ ArrangeCommand \/ AnyTidy]_sheetVars

----------------------------------------------------------------------------
(* Shapes whose sides have at least some length (a text, eight pixels).    *)
ShapeIds == {DrawnId} \cup UNION {AllIds(s) : s \in Sheets}

AtLeastLong(n) == {k \in Nat : k >= n}
BoxShapes(n) ==
  [id : ShapeIds, type : {"rect", "rhombus"}, x : Int, y : Int,
   w : AtLeastLong(n), h : AtLeastLong(n)]
CircleShapes(n) ==
  [id : ShapeIds, type : {"circle"}, cx : Int, cy : Int,
   rx : AtLeastLong(n), ry : AtLeastLong(n)]
TextShapes ==
  [id : ShapeIds, type : {"text"}, x : Int, y : Int,
   w : AtLeastLong(8 * Px), h : AtLeastLong(8 * Px),
   text : STRING, font : Int, parent : ShapeIds \cup {NoId}]
Strokes == [id : ShapeIds, type : {"freehand"}, points : Seq(Int \X Int) \ {<<>>}]
Parts == {r \in Nat \X Nat : r[1] <= r[2] /\ r[2] # 0}
Ends == [to : ShapeIds \cup {NoId}, relX : Parts, relY : Parts]
ConnectorShapes ==
  [id : ShapeIds, type : Connector, x1 : Int, y1 : Int, x2 : Int, y2 : Int,
   dashed : BOOLEAN, start : Ends, end : Ends]
ShapesOver(n) ==
  BoxShapes(n) \cup CircleShapes(n) \cup TextShapes \cup Strokes \cup ConnectorShapes

\* a sheet as normalizeShapes leaves it, every id once
Normal(s) ==
  /\ s \in Seq(ShapesOver(Px))
  /\ \A i, k \in DOMAIN s : s[i].id = s[k].id => i = k
  /\ \A i \in DOMAIN s : IsConnector(s[i]) => <<s[i].x1, s[i].y1>> # <<s[i].x2, s[i].y2>>

----------------------------------------------------------------------------
(* Properties *)

EndHolds(s, end, x, y, push) ==
  IsBound(end) =>
    /\ Held(s, end)
    /\ LET place == PointIn(Box(ShapeOf(s, end.to)), end)
       IN  Abs(place[1] - x) <= Px + push /\ Abs(place[2] - y) <= Px

OnItsEnds(s, c) ==
  EndHolds(s, c.start, c.x1, c.y1, 0) /\ EndHolds(s, c.end, c.x2, c.y2, Px)

(* Connectors stay attached: a bound end lies on its place of a shape that *)
(* is there, whatever was moved, resized, deleted, aligned, distributed,   *)
(* tidied or inserted, to the pixel that state.ts gives a thin shape, and  *)
(* the other one that it gives the end of a connector without a length,    *)
(* after the ends were set; but for those that a page command, which sets  *)
(* the shapes past store.ts, may leave behind until the next action of the *)
(* store (store.ts:161, tidy.ts:201).                                      *)
Attached ==
  \A i \in DOMAIN sheet :
    IsConnector(sheet[i]) /\ sheet[i].id \notin loose => OnItsEnds(sheet, sheet[i])

(* Labels ride: a label that lies in its box, or on its stroke, keeps its  *)
(* place there, and its size, through every way to move that shape         *)
(* (store.ts:243, arrange.ts:29, tidy.ts:108).                             *)
LabelRides(t, u, old, new) ==
  t.parent \in AllIds(old) \cap AllIds(new) =>
    LET box == ShapeOf(old, t.parent)
        b == Box(box)
        c == Box(ShapeOf(new, t.parent))
        own == t.id \in done'.ids /\ t.parent \notin done'.ids
    IN  (IsNode(box) \/ box.type = "freehand") /\ Inside(Box(t), b) /\ ~own
          => /\ u.x - c.x1 = t.x - b.x1 /\ u.y - c.y1 = t.y - b.y1
             /\ u.w = t.w /\ u.h = t.h

LabelsRide ==
  [][done'.step \in {"drag", "multi", "align", "distribute", "tidy"} =>
       \A i \in DOMAIN sheet : sheet[i].type = "text" =>
         LabelRides(sheet[i], sheet'[i], sheet, sheet')]_sheetVars

(* What the sheets to begin with and the pointer may be.                   *)
ASSUME SheetEditsAssumption ==
  /\ NoId \notin ShapeIds
  /\ Points \subseteq Int \X Int /\ Spans \subseteq (Int \X Int) \X (Int \X Int)
  /\ \A s \in Sheets :
       /\ Normal(s) /\ DrawnId \notin AllIds(s)
       /\ \A i \in DOMAIN s : s[i].type \in Connector => OnItsEnds(s, s[i])
=============================================================================
