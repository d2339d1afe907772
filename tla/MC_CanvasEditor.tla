--------------------------- MODULE MC_CanvasEditor ---------------------------
(***************************************************************************)
(* The canvas engine of one browser for TLC.  A behaviour is a session of  *)
(* CanvasEditor (a box and a text, two fingers) or one of CanvasSheet, on  *)
(* one of the sheets below; the other one does not start.                  *)
(***************************************************************************)
EXTENDS CanvasEditor, CanvasSheet

CONSTANTS b1, t1, finger1, finger2

Fingers == Permutations(Pointers)

P(n) == n * Px
BoxA == [id |-> <<"a">>, type |-> "rect", x |-> P(0), y |-> P(0), w |-> P(80), h |-> P(40)]
CircleB == [id |-> <<"b">>, type |-> "circle", cx |-> P(200), cy |-> P(100),
            rx |-> P(32), ry |-> P(32)]
BoxC == [id |-> <<"c">>, type |-> "rhombus", x |-> P(40), y |-> P(160), w |-> P(64), h |-> P(48)]
LabelA == TextShape(<<"t">>, P(8), P(8), P(32), P(16), "short", P(16), <<"a">>)
Note == TextShape(<<"n">>, P(20), P(300), P(48), P(24), "short", P(16), NoId)
Stroke == [id |-> <<"f">>, type |-> "freehand",
           points |-> <<<<P(240), P(200)>>, <<P(240), P(240)>>, <<P(300), P(240)>>>>]

Line(id, p, q, start, end) ==
  [id |-> id, type |-> "arrow", x1 |-> p[1], y1 |-> p[2], x2 |-> q[1], y2 |-> q[2],
   dashed |-> FALSE, start |-> start, end |-> end]
Half2 == <<1, 2>>
AB == Line(<<"ab">>, <<P(80), P(20)>>, <<P(168), P(100)>>,
           Bound(<<"a">>, <<1, 1>>, Half2), Bound(<<"b">>, <<0, 1>>, Half2))
BC == Line(<<"bc">>, <<P(200), P(132)>>, <<P(72), P(160)>>,
           Bound(<<"b">>, Half2, <<1, 1>>), Bound(<<"c">>, Half2, <<0, 1>>))
CA == Line(<<"ca">>, <<P(72), P(160)>>, <<P(40), P(40)>>,
           Bound(<<"c">>, Half2, <<0, 1>>), Bound(<<"a">>, Half2, <<1, 1>>))
TB == Line(<<"tb">>, <<P(24), P(24)>>, <<P(168), P(100)>>,
           Bound(<<"t">>, Half2, <<1, 1>>), Bound(<<"b">>, <<0, 1>>, Half2))
Free == Line(<<"free">>, <<P(60), P(50)>>, <<P(240), P(120)>>, FreeEnd, FreeEnd)

SheetsDef == {<<BoxA, LabelA, CircleB, BoxC, AB, BC>>,
              <<BoxA, CircleB, BoxC, AB, BC, CA, Stroke>>,
              <<BoxA, LabelA, CircleB, TB, Free, Note>>}
InA == <<P(40), P(20)>>
InB == <<P(200), P(100)>>
CornerA == <<P(0), P(0)>>
Nowhere == <<P(300), P(328)>>
PointsDef == {InA, InB, CornerA, Nowhere}
SpansDef == {<<Nowhere, CornerA>>, <<Nowhere, InB>>, <<InA, InB>>}
Node(id, label, kind) == [id |-> id, label |-> label, kind |-> kind]
RawEdge(from, to, label) == [from |-> from, to |-> to, label |-> label, dashed |-> FALSE]
Answer(direction, edges) ==
  [direction |-> direction, edges |-> edges,
   nodes |-> <<Node("x", "short", "rect"), Node("", "short", "rect"), Node("y", "long", "cloud"),
               Node("x", "long", "circle"), Node("z", "short", "circle")>>]
SpecsDef ==
  {Answer("LR", <<RawEdge("x", "y", "short"), RawEdge("y", "z", ""), RawEdge("x", "z", "long"),
                  RawEdge("x", "x", ""), RawEdge("x", "w", ""), RawEdge("x", "y", "long")>>),
   Answer("other", <<RawEdge("x", "y", ""), RawEdge("y", "x", "short"), RawEdge("z", "y", "")>>)}
Link(label, dashed, arrow) == [label |-> label, dashed |-> dashed, arrow |-> arrow]
ChartsDef ==
  {[direction |-> "TD",
    lines |-> <<[groups |-> <<<<Node("x", "", "rect")>>,
                              <<Node("y", "long", "rhombus"), Node("z", "", "rect")>>,
                              <<Node("v", "short", "circle")>>>>,
                 links |-> <<Link("short", FALSE, TRUE), l>>],
                [groups |-> <<<<Node("x", "short", "circle")>>>>, links |-> <<>>]>>] :
     l \in {Link("", TRUE, TRUE), Link("long", FALSE, FALSE)}}
LabelSizeDef == [l \in {"short", "long", "x", "z"} |->
                   IF l = "long" THEN <<P(160), P(40)>> ELSE <<P(48), P(20)>>]
CenterDef == <<P(1200), P(200)>>

NotOpened == [step |-> "not opened"]

EngineInit ==
  \/ /\ EditorInit
     /\ sheet = <<>> /\ chosen = {} /\ primary = NoId /\ hold = Resting
     /\ done = NotOpened /\ loose = {} /\ steps = 0
  \/ EditorInit /\ SheetInit

EngineNext ==
  \/ done = NotOpened /\ EditorNext /\ UNCHANGED sheetVars
  \/ done # NotOpened /\ SheetNext /\ UNCHANGED editorVars
  \/ steps = MaxSteps /\ UNCHANGED <<editorVars, sheetVars>>

EngineSpec == EngineInit /\ [][EngineNext]_<<editorVars, sheetVars>>
=============================================================================
