---------------------------- MODULE CanvasDiagram ----------------------------
(***************************************************************************)
(* Diagrams and the shapes they are drawn with: reading and writing        *)
(* Mermaid flowcharts and building the shapes                              *)
(* (canvas-engine/src/diagram/mermaid.ts), and the specifications the AI   *)
(* answers with (diagram/spec.ts).                                         *)
(*                                                                         *)
(* A diagram has a direction, nodes [id, label, kind] and edges            *)
(* [from, to, label, dashed, arrow]; the label "" is none.  A line of      *)
(* Mermaid is read already: the groups of nodes joined by &, and the links *)
(* between them; a node that is only referred to has the label "".         *)
(***************************************************************************)
EXTENDS DiagramLayout

CONSTANT LabelSize      \* measureLabel: <<width, height>> of every label

NoDiagram == [direction |-> "none", nodes |-> <<>>, edges |-> <<>>]
NodeIds(nodes) == {nodes[i].id : i \in DOMAIN nodes}

----------------------------------------------------------------------------
(* parseMermaidFlowchart *)
\* a later definition with a label refines an earlier bare reference
Remember(nodes, node) ==
  IF node.id \notin NodeIds(nodes) THEN Append(nodes, node)
  ELSE IF node.label = "" THEN nodes
  ELSE [nodes EXCEPT ![The(nodes, LAMBDA n : n.id = node.id)] = node]

EdgesOf(line) ==
  FlattenSeq([k \in DOMAIN line.links |->
    FlattenSeq(Each(line.groups[k], LAMBDA m :
      Each(line.groups[k + 1], LAMBDA n : [from |-> m.id, to |-> n.id] @@ line.links[k])))])

Parsed(direction, lines) ==
  LET mentioned == FlattenSeq(Each(lines, LAMBDA l : FlattenSeq(l.groups)))
      nodes == FoldLeft(Remember, <<>>, mentioned)
  IN  IF nodes = <<>> \/ Len(nodes) > 150 THEN NoDiagram
      ELSE [direction |-> direction,
            nodes |-> Each(nodes, LAMBDA n : [n EXCEPT !.label = IF @ = "" THEN n.id ELSE @]),
            edges |-> FlattenSeq(Each(lines, EdgesOf))]

----------------------------------------------------------------------------
(* normalizeDiagramSpec: what the model answered, made usable.  An id, a   *)
(* label or an end that is missing or of another type is "".               *)
MaxNodes == 48

NodeAccepted(nodes, node) ==
  IF Len(nodes) >= MaxNodes \/ node.id = "" \/ node.label = "" \/ node.id \in NodeIds(nodes)
  THEN nodes
  ELSE Append(nodes, [node EXCEPT !.kind = IF @ \in Boxlike THEN @ ELSE "rect"])

\* (Changed form: an edge may lead to where it comes from.)
EdgeAcceptedLoop(nodes, edges, edge) ==
  IF \/ ~({edge.from, edge.to} \subseteq NodeIds(nodes))
     \/ \E i \in DOMAIN edges : edges[i].from = edge.from /\ edges[i].to = edge.to
  THEN edges
  ELSE Append(edges, edge)

EdgeAccepted(nodes, edges, edge) ==
  IF \/ ~({edge.from, edge.to} \subseteq NodeIds(nodes))
     \/ edge.from = edge.to
     \/ \E i \in DOMAIN edges : edges[i].from = edge.from /\ edges[i].to = edge.to
  THEN edges
  ELSE Append(edges, edge)

NormalizedSpec(raw) ==
  LET nodes == FoldLeft(NodeAccepted, <<>>, raw.nodes)
      edges == FoldLeft(LAMBDA es, e : EdgeAccepted(nodes, es, e), <<>>, raw.edges)
  IN  IF Len(nodes) < 2 THEN NoDiagram
      ELSE [direction |-> IF raw.direction = "LR" THEN "LR" ELSE "TD",
            nodes |-> nodes,
            edges |-> Each(edges, LAMBDA e : e @@ [arrow |-> TRUE])]

----------------------------------------------------------------------------
(* buildShapesFromDiagram *)
NodeSize(node) ==
  LET w == LabelSize[node.label][1]
      h == LabelSize[node.label][2]
      d == Larger(84 * Px, Larger(w, h) + 44 * Px)
  IN  CASE node.kind = "rhombus" -> <<Larger(130 * Px, w + 90 * Px), Larger(84 * Px, h + 56 * Px)>>
        [] node.kind = "circle" -> <<d, d>>
        [] OTHER -> <<Larger(120 * Px, w + 40 * Px), Larger(56 * Px, h + 28 * Px)>>

TextShape(id, x, y, w, h, text, font, parent) ==
  [id |-> id, type |-> "text", x |-> x, y |-> y, w |-> w, h |-> h,
   text |-> text, font |-> font, parent |-> parent]

NodeId(id) == <<"node", id>>

NodeShapes(node, x, y) ==
  LET w == NodeSize(node)[1]
      h == NodeSize(node)[2]
      id == NodeId(node.id)
      insetX == IF node.kind = "rect" THEN 12 * Px ELSE w \div 5
      insetY == IF node.kind = "rect" THEN 8 * Px ELSE h \div 4
      textHeight == Smaller(h - 2 * insetY, LabelSize[node.label][2])
      shape == IF node.kind = "circle"
               THEN [id |-> id, type |-> "circle", cx |-> x + Half(w), cy |-> y + Half(h),
                     rx |-> Half(w), ry |-> Half(h)]
               ELSE [id |-> id, type |-> node.kind, x |-> x, y |-> y, w |-> w, h |-> h]
  IN  <<shape, TextShape(<<"label", node.id>>, x + insetX, y + Half(h - textHeight), w - 2 * insetX,
                    textHeight, node.label, 16 * Px, id)>>

\* a connector between the boxes from and to, and its label
EdgeShapes(edge, key, from, to, anchors) ==
  LET x1 == from.x1 + Half(anchors.start[1] * Width(from))
      y1 == from.y1 + Half(anchors.start[2] * Height(from))
      x2 == to.x1 + Half(anchors.end[1] * Width(to))
      y2 == to.y1 + Half(anchors.end[2] * Height(to))
      rel(n) == <<n, 2>>
      w == Larger(24 * Px, LabelSize[edge.label][1] + 10 * Px)
      line == [id |-> <<"edge", key>>, type |-> IF edge.arrow THEN "arrow" ELSE "line",
               x1 |-> x1, y1 |-> y1, x2 |-> x2, y2 |-> y2, dashed |-> edge.dashed,
               start |-> Bound(NodeId(edge.from), rel(anchors.start[1]), rel(anchors.start[2])),
               end |-> Bound(NodeId(edge.to), rel(anchors.end[1]), rel(anchors.end[2]))]
  IN  IF edge.label = "" THEN <<line>>
      ELSE <<line, TextShape(<<"word", key>>, Half(x1 + x2) - Half(w), Half(y1 + y2) - 11 * Px,
                        w, 22 * Px, edge.label, 14 * Px, NoId)>>

\* what takes the middle of the layout to center
Offset(nodes, at, center) ==
  LET Far(n) == <<at[n.id].x + NodeSize(n)[1], at[n.id].y + NodeSize(n)[2]>>
      places == {at[id] : id \in NodeIds(nodes)}
      ends == {Far(nodes[i]) : i \in DOMAIN nodes}
  IN  <<center[1] - Half(MinOf({p.x : p \in places}) + MaxOf({e[1] : e \in ends})),
        center[2] - Half(MinOf({p.y : p \in places}) + MaxOf({e[2] : e \in ends}))>>

NodesDrawn(nodes, at, offset) ==
  Each(nodes, LAMBDA n : NodeShapes(n, at[n.id].x + offset[1], at[n.id].y + offset[2]))

Drawing(diagram, at, drawn) ==
  LET nodes == diagram.nodes
      BoxOf(id) == Box(drawn[The(nodes, LAMBDA n : n.id = id)][1])
      known == SelectSeq(diagram.edges, LAMBDA e : {e.from, e.to} \subseteq NodeIds(nodes))
      Edge(k) ==
        LET e == known[k]
            a == at[e.from].rank
            b == at[e.to].rank
        IN  EdgeShapes(e, ToString(k), BoxOf(e.from), BoxOf(e.to),
                       ConnectorAnchors(diagram.direction, b > a, b = a))
  IN  FlattenSeq(drawn) \o FlattenSeq([k \in DOMAIN known |-> Edge(k)])

DrawingAt(diagram, center, at) ==
  Drawing(diagram, at, NodesDrawn(diagram.nodes, at, Offset(diagram.nodes, at, center)))

BuiltShapes(diagram, center) ==
  DrawingAt(diagram, center,
    LayoutLayered(
      Each(diagram.nodes, LAMBDA n : [id |-> n.id, w |-> NodeSize(n)[1], h |-> NodeSize(n)[2]]),
      Each(diagram.edges, LAMBDA e : <<e.from, e.to>>), diagram.direction))

----------------------------------------------------------------------------
(* shapesToMermaid: the nodes become N1, N2, ...; a loose text that lies   *)
(* within 20 pixels of the middle of a connector is its label.             *)
ExportedName(nodes, id) ==
  IF \E i \in DOMAIN nodes : nodes[i].id = id
  THEN "N" \o ToString(The(nodes, LAMBDA s : s.id = id)) ELSE ""

Exported(sheet) ==
  LET nodes == SelectSeq(sheet, IsNode)
      Name(id) == ExportedName(nodes, id)
      LabelOf(s) ==
        LET own == SelectSeq(sheet, LAMBDA t : t.type = "text" /\ t.parent = s.id)
        IN  IF own = <<>> THEN Name(s.id)
            ELSE FoldLeft(LAMBDA text, t : text \o " " \o t.text, Head(own).text, Tail(own))
      loose == SelectSeq(sheet, LAMBDA t : t.type = "text" /\ t.parent = NoId)
      Word(c) ==
        LET near == SelectSeq(loose, LAMBDA t :
              Within(Grown(Box(t), 20 * Px), Half(c.x1 + c.x2), Half(c.y1 + c.y2)))
        IN  IF near = <<>> THEN "" ELSE near[1].text
      Reference(name) == [id |-> name, label |-> "", kind |-> "rect"]
      bound == SelectSeq(sheet, LAMBDA c :
                 IsConnector(c) /\ Name(c.start.to) # "" /\ Name(c.end.to) # "")
  IN  Each(nodes, LAMBDA s :
        [groups |-> <<<<[id |-> Name(s.id), label |-> LabelOf(s), kind |-> s.type]>>>>,
         links |-> <<>>])
      \o Each(bound, LAMBDA c :
        [groups |-> <<<<Reference(Name(c.start.to))>>, <<Reference(Name(c.end.to))>>>>,
         links |-> <<[label |-> Word(c), dashed |-> c.dashed, arrow |-> c.type = "arrow"]>>])
=============================================================================
