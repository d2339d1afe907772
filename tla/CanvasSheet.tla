----------------------------- MODULE CanvasSheet -----------------------------
(***************************************************************************)
(* The sheet of SheetEdits with the diagrams of CanvasDiagram: tidy puts   *)
(* the nodes where the layered layout does, and diagrams are inserted, the *)
(* ones the AI describes and Mermaid flowcharts.                           *)
(***************************************************************************)
EXTENDS SheetEdits, CanvasDiagram

CONSTANTS
  Specs,         \* what the model may answer
  Charts,        \* Mermaid sources: [direction, lines]
  Center,        \* the middle of what is seen
  MaxSteps       \* a bound on the length of a session

----------------------------------------------------------------------------
\* the connectors between nodes, and where the layout puts these
Links(s, scope) == SelectSeq(s, LAMBDA t : IsLink(s, scope, t))

TidyPlaces(s, scope, direction) ==
  LET nodes == SelectSeq(s, LAMBDA t : t.id \in Connected(s, scope))
  IN  LayoutLayered(
        Each(nodes, LAMBDA n : [id |-> n.id, w |-> Width(Box(n)), h |-> Height(Box(n))]),
        Each(Links(s, scope), LAMBDA c : <<c.start.to, c.end.to>>), direction)

Tidy(direction) ==
  /\ CanTidy(sheet, Scope(sheet, chosen))
  /\ TidyTo(direction, TidyPlaces(sheet, Scope(sheet, chosen), direction))

----------------------------------------------------------------------------
\* sanitizeAiGeneratedShapes: the page lets go of all links, and gives every
\* text the smallest node that its middle lies in
NodeArea(n) == IF n.type = "circle" THEN 314 * n.rx * n.ry ELSE 100 * Area(Box(n))

Sanitized(new) ==
  Each(new, LAMBDA t :
    LET b == Box(t)
        around == {k \in DOMAIN new : /\ IsNode(new[k])
                                      /\ Hit(new[k], Half(b.x1 + b.x2), Half(b.y1 + b.y2))}
    IN  CASE IsConnector(t) -> [t EXCEPT !.start = FreeEnd, !.end = FreeEnd]
          [] t.type = "text" ->
               [t EXCEPT !.parent = IF around = {} THEN NoId
                                    ELSE new[Best(new, around, NodeArea)].id]
          [] OTHER -> t)

\* the sheet becomes s, with a diagram on top
Insert(step, s) ==
  /\ hold = Resting
  /\ \A id \in AllIds(sheet) : id[1] # "node"
  /\ sheet' = Canonical(s)
  /\ Went(step)
  /\ UNCHANGED <<chosen, primary, hold, loose>>

\* handleAiShapesGenerated, with shapes that were laid out by the worker, and
\* the links that linkAiShapes finds
InsertSpec(raw) ==
  LET d == NormalizedSpec(raw)
      new == Sanitized(BuiltShapes(d, Center))
  IN  /\ Len(d.nodes) >= 3
      /\ Insert([step |-> "spec", diagram |-> d], LinkedUp(sheet \o new, AllIds(new)))

\* handleMermaidImport
InsertChart(chart) ==
  LET d == Parsed(chart.direction, chart.lines)
  IN  /\ d # NoDiagram
      /\ Insert([step |-> "chart", diagram |-> d], sheet \o BuiltShapes(d, Center))

----------------------------------------------------------------------------
PageCommand ==
  \/ ArrangeCommand
  \/ \E direction \in {"TD", "LR"} : Tidy(direction)
  \/ \E raw \in Specs : InsertSpec(raw)
  \/ \E chart \in Charts : InsertChart(chart)

SheetNext == steps < MaxSteps /\ (Gesture \/ PageCommand)

----------------------------------------------------------------------------
(* Properties *)

(* A tidied diagram is laid out: its connected nodes lie apart by the gaps *)
(* of the layout, a connector that is on no cycle leads to a later layer,  *)
(* the whole keeps its top left corner, and what is not connected stays    *)
(* (layout.ts:21, tidy.ts:48).                                             *)
Apart(a, b, gap) ==
  \/ a.x2 + gap <= b.x1 \/ b.x2 + gap <= a.x1
  \/ a.y2 + gap <= b.y1 \/ b.y2 + gap <= a.y1

AllApart(s, ids) ==
  \A id, other \in ids : id # other => Apart(Box(ShapeOf(s, id)), Box(ShapeOf(s, other)), NodeGap)

RECURSIVE ReachedFrom(_, _)
ReachedFrom(arcs, ids) ==
  LET more == ids \cup {arc[2] : arc \in {a \in arcs : a[1] \in ids}}
  IN  IF more = ids THEN ids ELSE ReachedFrom(arcs, more)

Arcs(s, scope) ==
  {<<Links(s, scope)[i].start.to, Links(s, scope)[i].end.to>> : i \in DOMAIN Links(s, scope)}

LaterLayers(s, arcs, direction) ==
  \A arc \in arcs :
    arc[1] \notin ReachedFrom(arcs, {arc[2]}) =>
      LET a == Box(ShapeOf(s, arc[1]))
          b == Box(ShapeOf(s, arc[2]))
      IN  IF direction = "TD" THEN a.y2 + LayerGap <= b.y1 ELSE a.x2 + LayerGap <= b.x1

CornerOf(s, ids) == <<MinOf({Box(ShapeOf(s, id)).x1 : id \in ids}),
                     MinOf({Box(ShapeOf(s, id)).y1 : id \in ids})>>

LaidOut ==
  [][done'.step = "tidy" =>
       LET scope == Scope(sheet, chosen)
           nodes == Connected(sheet, scope)
       IN  /\ AllApart(sheet', nodes)
           /\ LaterLayers(sheet', Arcs(sheet, scope), done'.direction)
           /\ CornerOf(sheet', nodes) = CornerOf(sheet, nodes)
           /\ \A i \in DOMAIN sheet :
                IsNode(sheet[i]) /\ sheet[i].id \notin nodes => sheet'[i] = sheet[i]]_sheetVars

(* A diagram arrives whole.  The one the AI described: what the page finds *)
(* by geometry alone, after it let go of the links of the worker, are the  *)
(* edges and the labels of the description, and no two nodes overlap       *)
(* (spec.ts:4, page.tsx:820).  A Mermaid chart: written out again it reads *)
(* as the same chart, but for labels of edges whose middles lie close      *)
(* together (mermaid.ts:193, :478).                                        *)
SpecKept(d, s) ==
  LET nodes == {NodeId(id) : id \in NodeIds(d.nodes)}
      lines == SelectSeq(s, LAMBDA t : IsConnector(t) /\ t.id[1] = "edge")
  IN  /\ AllApart(s, nodes)
      /\ [i \in DOMAIN lines |-> <<lines[i].start.to, lines[i].end.to>>]
           = [i \in DOMAIN d.edges |-> <<NodeId(d.edges[i].from), NodeId(d.edges[i].to)>>]
      /\ \A i \in DOMAIN s : s[i].id[1] = "label" =>
           /\ s[i].parent = NodeId(s[i].id[2])
           /\ Inside(Box(s[i]), Box(ShapeOf(s, s[i].parent)))

ReadAgain(d, s) ==
  LET new == SelectSeq(s, LAMBDA t : t.id[1] \in {"node", "label", "edge", "word"})
      again == Parsed(d.direction, Exported(new))
      Name(id) == "N" \o ToString(The(d.nodes, LAMBDA n : n.id = id))
      lines == SelectSeq(new, IsConnector)
      Alone(i) == \A k \in DOMAIN new :
        new[k].type = "text" /\ new[k].id[1] = "word" /\ new[k].id[2] # lines[i].id[2] =>
          ~Within(Grown(Box(new[k]), 20 * Px), Middle(lines[i])[1], Middle(lines[i])[2])
  IN  /\ [i \in DOMAIN again.nodes |-> again.nodes[i]]
           = [i \in DOMAIN d.nodes |-> [d.nodes[i] EXCEPT !.id = Name(@)]]
      /\ Len(again.edges) = Len(d.edges)
      /\ \A i \in DOMAIN d.edges :
           /\ [again.edges[i] EXCEPT !.label = ""]
                = [d.edges[i] EXCEPT !.label = "", !.from = Name(@), !.to = Name(@)]
           /\ Alone(i) => again.edges[i].label = d.edges[i].label

DiagramKept ==
  [][/\ done'.step = "spec" => SpecKept(done'.diagram, sheet')
     /\ done'.step = "chart" => ReadAgain(done'.diagram, sheet')]_sheetVars
=============================================================================
