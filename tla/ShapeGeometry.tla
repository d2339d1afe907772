---------------------------- MODULE ShapeGeometry ----------------------------
(***************************************************************************)
(* Where the shapes of a canvas are: their boxes and how a handle resizes  *)
(* them (canvas-engine/src/geometry.ts), the routes of connectors          *)
(* (connectors.ts), what a pointer hits (interaction/hitDetection.ts) and  *)
(* what a drag carries (interaction/drag/).  Lengths are whole multiples   *)
(* of 1/Px of a pixel, with Px a power of two where halves are to be       *)
(* exact.  All numbers are finite.                                         *)
(*                                                                         *)
(* A shape is a record with an id and a type: rect and rhombus have        *)
(* x, y, w, h; text the same and the font size and parent; circle has      *)
(* cx, cy, rx, ry; line and arrow have x1, y1, x2, y2, start, end; and     *)
(* freehand has points, a sequence of <<x, y>>.                            *)
(***************************************************************************)
EXTENDS Integers, Sequences, FiniteSets, SequencesExt, TLC

CONSTANT Px              \* a pixel

ASSUME PxAssumption == Px \in Nat \ {0}

Half(n) == n \div 2
Larger(a, b) == IF a >= b THEN a ELSE b
Smaller(a, b) == IF a <= b THEN a ELSE b
Abs(n) == IF n < 0 THEN -n ELSE n
MaxOf(S) == CHOOSE n \in S : \A k \in S : k <= n
MinOf(S) == CHOOSE n \in S : \A k \in S : k >= n
\* sequences and tables built at once
Each(s, F(_)) == [i \in DOMAIN s |-> F(s[i])] \o <<>>
Table(S, F(_)) == [x \in S |-> F(x)] @@ <<>>
\* the place of the first that is one
The(seq, Is(_)) == CHOOSE i \in DOMAIN seq : Is(seq[i]) /\ \A k \in 1..(i - 1) : ~Is(seq[k])

NoId == <<>>
Boxlike == {"rect", "rhombus", "circle"}
Connector == {"line", "arrow"}
IsNode(s) == s.type \in Boxlike
IsConnector(s) == s.type \in Connector

\* an end that is bound to a shape at a place of its box, <<n, d>> for n / d
FreeEnd == [to |-> NoId, relX |-> <<0, 1>>, relY |-> <<0, 1>>]
Bound(id, relX, relY) == [to |-> id, relX |-> relX, relY |-> relY]
IsBound(end) == end.to # NoId

----------------------------------------------------------------------------
Normalize(x1, y1, x2, y2) ==
  [x1 |-> Smaller(x1, x2), y1 |-> Smaller(y1, y2),
   x2 |-> Larger(x1, x2), y2 |-> Larger(y1, y2)]

Xs(points) == {points[i][1] : i \in DOMAIN points}
Ys(points) == {points[i][2] : i \in DOMAIN points}

\* convertToPoints
Box(s) ==
  CASE s.type \in {"rect", "rhombus", "text"} ->
         Normalize(s.x, s.y, s.x + s.w, s.y + s.h)
    [] s.type = "circle" ->
         [x1 |-> s.cx - Abs(s.rx), y1 |-> s.cy - Abs(s.ry),
          x2 |-> s.cx + Abs(s.rx), y2 |-> s.cy + Abs(s.ry)]
    [] IsConnector(s) -> [x1 |-> s.x1, y1 |-> s.y1, x2 |-> s.x2, y2 |-> s.y2]
    [] s.type = "freehand" ->
         [x1 |-> MinOf(Xs(s.points)), y1 |-> MinOf(Ys(s.points)),
          x2 |-> MaxOf(Xs(s.points)), y2 |-> MaxOf(Ys(s.points))]

Width(b) == b.x2 - b.x1
Height(b) == b.y2 - b.y1
Within(b, x, y) == b.x1 <= x /\ x <= b.x2 /\ b.y1 <= y /\ y <= b.y2
Inside(b, c) == c.x1 <= b.x1 /\ b.x2 <= c.x2 /\ c.y1 <= b.y1 /\ b.y2 <= c.y2
Grown(b, by) == [x1 |-> b.x1 - by, y1 |-> b.y1 - by, x2 |-> b.x2 + by, y2 |-> b.y2 + by]

\* translateShape
Translated(s, dx, dy) ==
  CASE s.type \in {"rect", "rhombus", "text"} -> [s EXCEPT !.x = @ + dx, !.y = @ + dy]
    [] s.type = "circle" -> [s EXCEPT !.cx = @ + dx, !.cy = @ + dy]
    [] IsConnector(s) ->
         [s EXCEPT !.x1 = @ + dx, !.y1 = @ + dy, !.x2 = @ + dx, !.y2 = @ + dy]
    [] s.type = "freehand" ->
         [s EXCEPT !.points = [i \in DOMAIN @ |-> <<@[i][1] + dx, @[i][2] + dy>>]]

----------------------------------------------------------------------------
(* Resizing: a handle pulls one side of the box, or one in each direction. *)
Corners == {"top-left", "top-right", "bottom-left", "bottom-right"}
BoxHandles == Corners \cup {"left", "right", "top", "bottom"}

SideX(handle) == CASE handle \in {"top-left", "bottom-left", "left"} -> "low"
                   [] handle \in {"top-right", "bottom-right", "right"} -> "high"
                   [] OTHER -> "none"
SideY(handle) == CASE handle \in {"top-left", "top-right", "top"} -> "low"
                   [] handle \in {"bottom-left", "bottom-right", "bottom"} -> "high"
                   [] OTHER -> "none"

\* the two ends of an interval when the pointer pulls one of them to p
Pulled(low, high, side, p, fromCenter) ==
  LET mirrored == low + high - p
  IN  CASE side = "low" -> <<p, IF fromCenter THEN mirrored ELSE high>>
        [] side = "high" -> <<IF fromCenter THEN mirrored ELSE low, p>>
        [] OTHER -> <<low, high>>

\* the dragged end of an interval at the distance size from the other end
Squared(low, high, pulled, side, size) ==
  IF side = "low"
  THEN <<IF pulled[1] - high < 0 THEN high - size ELSE high + size, high>>
  ELSE <<low, IF pulled[2] - low < 0 THEN low - size ELSE low + size>>

ResizedBox(b, handle, x, y, fromCenter, preserveAspect) ==
  LET px == Pulled(b.x1, b.x2, SideX(handle), x, fromCenter)
      py == Pulled(b.y1, b.y2, SideY(handle), y, fromCenter)
      size == Larger(Abs(px[2] - px[1]), Abs(py[2] - py[1]))
      qx == Squared(b.x1, b.x2, px, SideX(handle), size)
      qy == Squared(b.y1, b.y2, py, SideY(handle), size)
  IN  CASE preserveAspect /\ fromCenter ->
             Normalize(Half(b.x1 + b.x2 - size), Half(b.y1 + b.y2 - size),
                       Half(b.x1 + b.x2 + size), Half(b.y1 + b.y2 + size))
        [] preserveAspect /\ ~fromCenter /\ handle \in Corners ->
             Normalize(qx[1], qy[1], qx[2], qy[2])
        [] OTHER -> Normalize(px[1], py[1], px[2], py[2])

\* convertBackToShape, and what resizeShape does with texts and strokes
Reshaped(s, b) ==
  CASE s.type \in {"rect", "rhombus"} ->
         [s EXCEPT !.x = b.x1, !.y = b.y1, !.w = Width(b), !.h = Height(b)]
    [] s.type = "circle" ->
         [s EXCEPT !.cx = Half(b.x1 + b.x2), !.cy = Half(b.y1 + b.y2),
                   !.rx = Half(Width(b)), !.ry = Half(Height(b))]
    [] s.type = "text" ->
         LET h == Larger(8 * Px, Height(b))
         IN  [s EXCEPT !.x = b.x1, !.y = b.y1, !.w = Larger(8 * Px, Width(b)), !.h = h,
                       !.font = Larger(8 * Px, (@ * h) \div Larger(Px, s.h))]
    [] s.type = "freehand" ->
         LET from == Box(s)
             sx == Larger(Px, Width(from))
             sy == Larger(Px, Height(from))
         IN  [s EXCEPT !.points = [i \in DOMAIN @ |->
               <<b.x1 + ((@[i][1] - from.x1) * Width(b)) \div sx,
                 b.y1 + ((@[i][2] - from.y1) * Height(b)) \div sy>>]]

ResizeShape(s, handle, x, y, fromCenter, preserveAspect) ==
  IF IsConnector(s)
  THEN CASE handle = "start" -> [s EXCEPT !.x1 = x, !.y1 = y]
         [] handle = "end" -> [s EXCEPT !.x2 = x, !.y2 = y]
         [] OTHER -> s
  ELSE Reshaped(s, ResizedBox(Box(s), handle, x, y, fromCenter, preserveAspect))

\* createPreviewShape: the box drawn between two points
DrawnBox(x1, y1, x2, y2, preserveAspect) ==
  LET size == Larger(Abs(x2 - x1), Abs(y2 - y1))
      qx == Squared(x1, x1, <<x1, x2>>, "high", size)
      qy == Squared(y1, y1, <<y1, y2>>, "high", size)
  IN  IF preserveAspect THEN Normalize(x1, y1, qx[2], qy[2])
                        ELSE Normalize(x1, y1, x2, y2)

----------------------------------------------------------------------------
(* Routes: connectors run along the axes, and leave the edge of a box they *)
(* are bound to at a right angle.                                          *)
\* a place less than 0.02 from an edge of the box is on that edge
AtEdge(rel) == 50 * rel[1] <= rel[2] \/ 50 * rel[1] >= 49 * rel[2]

AnchorAxis(end) ==
  CASE IsBound(end) /\ AtEdge(end.relX) /\ ~AtEdge(end.relY) -> "horizontal"
    [] IsBound(end) /\ AtEdge(end.relY) /\ ~AtEdge(end.relX) -> "vertical"
    [] OTHER -> "none"

RoutePoints(c) ==
  LET a == <<c.x1, c.y1>>
      b == <<c.x2, c.y2>>
      midX == c.x1 + Half(c.x2 - c.x1)
      midY == c.y1 + Half(c.y2 - c.y1)
      across == <<a, <<midX, c.y1>>, <<midX, c.y2>>, b>>
      along == <<a, <<c.x1, midY>>, <<c.x2, midY>>, b>>
      axes == <<AnchorAxis(c.start), AnchorAxis(c.end)>>
  IN  CASE c.x1 = c.x2 \/ c.y1 = c.y2 -> <<a, b>>
        [] OTHER ->
             CASE axes = <<"vertical", "vertical">> -> along
               [] axes = <<"horizontal", "horizontal">> -> across
               [] axes = <<"vertical", "horizontal">> -> <<a, <<c.x1, c.y2>>, b>>
               [] axes = <<"horizontal", "vertical">> -> <<a, <<c.x2, c.y1>>, b>>
               [] OTHER -> IF Abs(c.x2 - c.x1) >= Abs(c.y2 - c.y1) THEN across ELSE along

\* where a connector leaves and enters its nodes, in halves of their boxes
\* (connectorAnchors of diagram/layout.ts)
ConnectorAnchors(direction, forward, sameRank) ==
  LET before == IF direction = "TD" THEN <<1, 0>> ELSE <<0, 1>>
      after == IF direction = "TD" THEN <<1, 2>> ELSE <<2, 1>>
  IN  CASE sameRank -> IF direction = "TD" THEN [start |-> <<2, 1>>, end |-> <<0, 1>>]
                                           ELSE [start |-> <<1, 2>>, end |-> <<1, 0>>]
        [] ~sameRank /\ forward -> [start |-> after, end |-> before]
        [] OTHER -> [start |-> before, end |-> after]

----------------------------------------------------------------------------
(* What a pointer at x, y hits.                                            *)
HitThreshold == 5 * Px
HandleSize == 10 * Px
ConnectorHandleSize == 6 * Px
SelectionPadding == 6 * Px

Clamp(n, low, high) == Smaller(Larger(n, low), high)

\* the square of the distance to a segment along an axis
DistanceSq(p, q, x, y) ==
  LET dx == x - Clamp(x, Smaller(p[1], q[1]), Larger(p[1], q[1]))
      dy == y - Clamp(y, Smaller(p[2], q[2]), Larger(p[2], q[2]))
  IN  dx * dx + dy * dy

\* a stroke is hit within two pixels more (its segments lie along an axis here)
HitPath(points, x, y, Near(_)) ==
  \E i \in 2..Len(points) :
    points[i - 1] # points[i] /\ Near(DistanceSq(points[i - 1], points[i], x, y))

Hit(s, x, y) ==
  LET b == Box(s)
      dx == Abs(2 * x - b.x1 - b.x2)
      dy == Abs(2 * y - b.y1 - b.y2)
      \* thousandths of the distance from the middle to the edge
      part == <<(1000 * dx) \div Larger(1, Width(b)), (1000 * dy) \div Larger(1, Height(b))>>
  IN  CASE s.type \in {"rect", "text"} -> Within(b, x, y)
        [] s.type = "rhombus" ->
             Width(b) > 0 /\ Height(b) > 0 /\ Within(b, x, y) /\ part[1] + part[2] <= 1000
        [] s.type = "circle" ->
             /\ s.rx # 0 /\ s.ry # 0 /\ Within(b, x, y)
             /\ part[1] * part[1] + part[2] * part[2] <= 1000 * 1000
        [] IsConnector(s) ->
             HitPath(RoutePoints(s), x, y, LAMBDA d : d < HitThreshold * HitThreshold)
        [] s.type = "freehand" ->
             HitPath(s.points, x, y, LAMBDA d : d <= (HitThreshold + 2 * Px) * (HitThreshold + 2 * Px))

\* getShapeAtPoint: the top-most shape; the last of the sequence is on top
TopMost(sheet, Is(_)) ==
  LET hits == {i \in DOMAIN sheet : Is(sheet[i])}
  IN  IF hits = {} THEN 0 ELSE MaxOf(hits)
ShapeAtPoint(sheet, x, y) == TopMost(sheet, LAMBDA s : Hit(s, x, y))

HandlePlace(b, handle) ==
  <<CASE SideX(handle) = "low" -> b.x1 [] SideX(handle) = "high" -> b.x2
      [] OTHER -> Half(b.x1 + b.x2),
    CASE SideY(handle) = "low" -> b.y1 [] SideY(handle) = "high" -> b.y2
      [] OTHER -> Half(b.y1 + b.y2)>>

\* the order in which the handles are tried
HandleOrder == <<"top-left", "top-right", "bottom-left", "bottom-right",
                 "left", "right", "top", "bottom">>

\* getHandleAtPoint: the handles lie on the box grown by padding
HandleAtPoint(s, x, y, padding) ==
  LET Near(p, size) == Abs(x - p[1]) <= size /\ Abs(y - p[2]) <= size
      hits == SelectSeq(HandleOrder, LAMBDA h :
                Near(HandlePlace(Grown(Box(s), padding), h), HandleSize))
  IN  CASE IsConnector(s) /\ Near(<<s.x1, s.y1>>, ConnectorHandleSize) -> "start"
        [] IsConnector(s) /\ ~Near(<<s.x1, s.y1>>, ConnectorHandleSize)
             /\ Near(<<s.x2, s.y2>>, ConnectorHandleSize) -> "end"
        [] ~IsConnector(s) /\ hits # <<>> -> Head(hits)
        [] OTHER -> "none"

\* getResizeTarget: the selected shape first, then the top-most with a handle
ResizeTarget(sheet, x, y, selected) ==
  LET grip(s) == HandleAtPoint(s, x, y, SelectionPadding)
      own == {i \in DOMAIN sheet : sheet[i].id = selected /\ grip(sheet[i]) # "none"}
  IN  IF own # {} THEN MinOf(own) ELSE TopMost(sheet, LAMBDA s : grip(s) # "none")

----------------------------------------------------------------------------
(* A drag: texts and boxes are set where the pointer is, less the offset   *)
(* the pointer had to them; strokes and connectors follow its steps.       *)
DragAnchor(s, x, y) ==
  CASE s.type \in {"rect", "rhombus", "text"} -> <<x - s.x, y - s.y>>
    [] s.type = "circle" -> <<x - s.cx, y - s.cy>>
    [] OTHER -> <<x, y>>

DragAnchorNext(s, anchor, x, y) ==
  IF s.type \in {"line", "arrow", "freehand"} THEN <<x, y>> ELSE anchor

Dragged(s, anchor, x, y) ==
  CASE s.type \in {"rect", "rhombus", "text"} ->
         [s EXCEPT !.x = x - anchor[1], !.y = y - anchor[2]]
    [] s.type = "circle" -> [s EXCEPT !.cx = x - anchor[1], !.cy = y - anchor[2]]
    [] IsConnector(s) ->
         [Translated(s, x - anchor[1], y - anchor[2])
            EXCEPT !.start = FreeEnd, !.end = FreeEnd]
    [] s.type = "freehand" -> Translated(s, x - anchor[1], y - anchor[2])
=============================================================================
