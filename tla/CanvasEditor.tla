---------------------------- MODULE CanvasEditor ----------------------------
(***************************************************************************)
(* The editor of one browser: the shapes and the undo history of           *)
(* CanvasState (canvas-engine/src/state.ts), the actions of store.ts, the  *)
(* pointer gestures, text sessions and keys of events.ts and interaction/, *)
(* and the commands of the canvas page, which set shapes of their own.     *)
(* Remote snapshots arrive by hydrateShapes between any two events.        *)
(*                                                                         *)
(* A shape is who gave it its look last, this user or others, and the one  *)
(* link it has: the parent of a text, the shape an end of a connector is   *)
(* bound to.  Where a pointer is, what it hits and which tool is chosen is *)
(* any of the possibilities: the toolbar changes the tool at any time.     *)
(***************************************************************************)
EXTENDS Integers, FiniteSets, SequencesExt

CONSTANTS Boxes, Texts, Connectors,  \* the ids, by the kind of the shape
          NoShape,                   \* no id
          Pointers,                  \* the pointers of the device
          Hovering,                  \* those that move without being down
          MaxPast                    \* a bound on the length of past

Ids == Boxes \cup Texts \cup Connectors

ASSUME CanvasEditorAssumption ==
  /\ NoShape \notin Ids
  /\ Hovering \subseteq Pointers
  /\ MaxPast \in Nat

VARIABLES
  past, present, future,  \* CanvasState
  readOnly,               \* CanvasState.readOnly
  selected,               \* selectedShapeIds
  mode,                   \* the gestures whose flag is set (isDragging ...)
  tracked,                \* activePointers
  pressed,                \* the pointers that are down (the device's state)
  resizing,               \* the shape of resizeSession
  erased,                 \* erasedShapeIds
  editor,                 \* the inline text editor: closed, or what it edits
  touched                 \* history: what was set since the last hydration

doc == <<past, present, future, touched>>
gesture == <<mode, tracked, pressed, resizing, erased>>
editorVars == <<doc, readOnly, selected, gesture, editor>>

Gone == [by |-> "nobody", link |-> NoShape]
Shape == [by : {"nobody", "me", "others"}, link : Ids \cup {NoShape}]
Mine(link) == [by |-> "me", link |-> link]
Live(c) == {i \in Ids : c[i] # Gone}
Linked(c, i) == c[i].link # NoShape

Gestures == {"pan", "erase", "freehand", "draw", "drag", "select", "resize"}
ClosedEditor == [open |-> FALSE, existing |-> NoShape, parent |-> NoShape]
Editing(existing, parent) ==
  [open |-> TRUE, existing |-> existing, parent |-> parent]

EditorInit ==
  /\ past = <<>> /\ present = [i \in Ids |-> Gone] /\ future = <<>>
  /\ readOnly = FALSE
  /\ selected = {} /\ mode = {} /\ tracked = {} /\ pressed = {}
  /\ resizing = NoShape /\ erased = {} /\ editor = ClosedEditor
  /\ touched = {}

(* ------------------------------ CanvasState ----------------------------- *)

\* normalizeShapes unlinks the texts whose parent is not there.
Normalized(c) ==
  [i \in Ids |-> IF i \in Texts /\ Linked(c, i) /\ c[i].link \notin Live(c)
                 THEN [c[i] EXCEPT !.link = NoShape] ELSE c[i]]

SetTo(c, newFuture) ==
  /\ Len(past) < MaxPast
  /\ past' = Append(past, present)
  /\ present' = Normalized(c)
  /\ future' = newFuture
  /\ touched' = touched \cup {i \in Ids : present'[i] # present[i]}

\* (Changed form: what was undone stays redoable.)
SetShapesKeepsFuture(c) == IF readOnly THEN UNCHANGED doc ELSE SetTo(c, future)

\* setShapes: a viewer's edits are ignored; nothing undone can be redone.
SetShapes(c) == IF readOnly THEN UNCHANGED doc ELSE SetTo(c, <<>>)

HydrateWith(c, newPast) ==
  /\ past' = newPast
  /\ present' = c
  /\ future' = <<>>
  /\ touched' = {}

\* (Changed form: the history stays, as the comment of hydrateShapes says.)
HydrateKeepsHistory(c) == HydrateWith(Normalized(c), past)

\* hydrateShapes: the history starts anew.
Hydrate(c) == HydrateWith(Normalized(c), <<>>)

\* The keys reach the window only while no text is edited.
KeyReaches == ~editor.open

\* Ctrl+Z: undo, and the selection is cleared.
Undo ==
  /\ KeyReaches
  /\ IF readOnly \/ past = <<>> THEN UNCHANGED doc
     ELSE /\ present' = Last(past)
          /\ past' = Front(past)
          /\ future' = Append(future, present)
          /\ UNCHANGED touched
  /\ selected' = {}
  /\ UNCHANGED <<readOnly, gesture, editor>>

\* Ctrl+Y.
Redo ==
  /\ KeyReaches
  /\ IF readOnly \/ future = <<>> THEN UNCHANGED doc
     ELSE /\ present' = Last(future)
          /\ future' = Front(future)
          /\ past' = Append(past, present)
          /\ UNCHANGED touched
  /\ selected' = {}
  /\ UNCHANGED <<readOnly, gesture, editor>>

(* -------------------------------- store.ts ------------------------------ *)

\* applyConnectorBindings: a connector bound to what is gone, or to another
\* connector, is bound no longer; none is while snapping is switched off.
Unbound(c, S) ==
  [i \in Ids |-> IF i \in Connectors \cap S
                 THEN [c[i] EXCEPT !.link = NoShape] ELSE c[i]]

Bindable(c, i) == ~Linked(c, i) \/ c[i].link \in Live(c) \ Connectors

\* dispatch ends this way.  connectorSnapEnabled is not kept: it is either.
SetRebound(c) ==
  \E S \in {Connectors, {i \in Connectors : ~Bindable(c, i)}} :
    SetShapes(Unbound(c, S))

Written(c, S) ==
  [i \in Ids |-> IF i \in S \cap Live(c)
                 THEN Mine(c[i].link) ELSE c[i]]

\* refreshBindingsForConnectorIds: the connectors of S get bound to what their
\* ends are over now.
RefreshedTo(c, S, over) ==
  [i \in Ids |-> IF i \in S \cap Connectors \cap Live(c)
                 THEN [c[i] EXCEPT !.link = over] ELSE c[i]]

\* What a move of S carries along: the texts in S's shapes
\* (syncTextChildrenToParent) and the connectors bound to any of these.
Carried(c, S) ==
  LET texts == {i \in Texts : Linked(c, i) /\ c[i].link \in S}
      moved == S \cup texts
  IN  moved \cup {i \in Connectors : Linked(c, i) /\ c[i].link \in moved}

\* ADD_SHAPE
AddShape(i, link) ==
  SetRebound([present EXCEPT ![i] = Mine(link)])

\* MOVE_SHAPE, MOVE_SHAPES and NUDGE_SHAPES: setShapes is called even when no
\* shape of S is there any more.
MoveShapes(S, over) ==
  SetRebound(RefreshedTo(Written(present, Carried(present, S)), S, over))

\* DELETE_SHAPES
Without(c, S) == [i \in Ids |-> IF i \in S THEN Gone ELSE c[i]]
DeleteShapes(S) == SetRebound(Without(present, S))

\* What an end of a connector may be over.
Targets == {NoShape} \cup (Live(present) \ Connectors)

\* A new shape has an id that was never used (crypto.randomUUID).
Fresh ==
  {i \in Ids : /\ present[i] = Gone
               /\ \A n \in DOMAIN past : past[n][i] = Gone
               /\ \A n \in DOMAIN future : future[n][i] = Gone}

(* ------------------------------- gestures ------------------------------- *)

\* stopTransientInteractions
Stopped == /\ mode' = {} /\ resizing' = NoShape /\ erased' = {}

Begin(g, ids) ==
  /\ mode' = mode \cup {g}
  /\ selected' = ids
  /\ editor' = editor

\* handleMouseDown of a second finger, the middle button, or with space down.
DownPan ==
  /\ Begin("pan", selected)
  /\ UNCHANGED <<resizing, erased>>

\* The eraser begins: whatever is under it is marked.
DownErase ==
  \E S \in SUBSET Live(present) :
    /\ Begin("erase", {})
    /\ erased' = S
    /\ UNCHANGED resizing

\* On a handle of a shape.
DownResize ==
  \E i \in Live(present) :
    /\ Begin("resize", {i})
    /\ resizing' = i
    /\ UNCHANGED erased

\* On a shape, or inside the bounds of the selection.
DownDrag ==
  /\ \/ selected \cap Live(present) # {} /\ Begin("drag", selected)
     \/ \E i \in Live(present) : Begin("drag", {i})
  /\ UNCHANGED <<resizing, erased>>

\* Shift toggles the shape; a connector tool inside a shape selects it.
DownSelect ==
  /\ \E i \in Live(present) :
       selected' \in {(selected \cup {i}) \ (selected \cap {i}), {i}}
  /\ UNCHANGED <<mode, resizing, erased, editor>>

\* On nothing, with the select tool, the pencil or a shape tool.
DownEmpty ==
  /\ \/ Begin("select", {})
     \/ Begin("freehand", selected)
     \/ Begin("draw", {})
  /\ UNCHANGED <<resizing, erased>>

\* The text tool, on a text, on a shape or on nothing.  An editor that is open
\* is removed with what was typed.
DownText ==
  /\ \/ \E i \in Live(present) \cap Texts : editor' = Editing(i, NoShape)
     \/ \E i \in Live(present) \ Texts : editor' = Editing(NoShape, i)
     \/ editor' = Editing(NoShape, NoShape)
  /\ UNCHANGED <<selected, mode, resizing, erased>>

PointerDown(p) ==
  /\ p \notin pressed
  /\ pressed' = pressed \cup {p}
  /\ tracked' = tracked \cup {p}
  /\ IF Cardinality(tracked') >= 2 THEN DownPan
     ELSE \/ DownPan \/ DownErase \/ DownResize \/ DownDrag
          \/ DownSelect \/ DownEmpty \/ DownText
  /\ UNCHANGED <<doc, readOnly>>

\* The first gesture of an order that is under way, if any.
First(g, before) == g \in mode /\ mode \cap before = {}

\* handleMouseMove: it tracks a pointer that only hovers as well.  A pointer
\* that moves by nothing, and a drag without a primary shape, write nothing.
PointerMove(p) ==
  /\ p \in pressed \cup Hovering
  /\ tracked' = tracked \cup {p}
  /\ \/ UNCHANGED <<doc, selected, erased>>
     \/ /\ First("erase", {"pan"})
        /\ \E S \in SUBSET Live(present) : erased' = erased \cup S
        /\ selected' = selected \ erased'
        /\ UNCHANGED doc
     \/ /\ First("resize", {"pan", "erase"})
        /\ \E over \in Targets : MoveShapes({resizing}, over)
        /\ UNCHANGED <<selected, erased>>
     \/ /\ First("drag", {"pan", "erase", "resize"})
        /\ selected # {}
        /\ \E over \in Targets : MoveShapes(selected, over)
        /\ UNCHANGED <<selected, erased>>
     \/ /\ First("select", {"pan", "erase", "resize", "drag"})
        /\ selected' \in SUBSET Live(present)
        /\ UNCHANGED <<doc, erased>>
  /\ UNCHANGED <<readOnly, mode, pressed, resizing, editor>>

(* handleMouseUp of the canvas: one gesture, the first of its order, is     *)
(* completed.                                                               *)

UpPan == "pan" \in mode /\ UNCHANGED <<doc, selected>>

UpErase ==
  /\ First("erase", {"pan"})
  /\ IF erased # {} THEN DeleteShapes(erased) ELSE UNCHANGED doc
  /\ UNCHANGED selected

\* A stroke of one point is dropped.
UpFreehand ==
  /\ First("freehand", {"pan", "erase"})
  /\ \/ UNCHANGED doc
     \/ \E i \in Boxes \cap Fresh : AddShape(i, NoShape)
  /\ UNCHANGED selected

\* Without a drag the selection is cleared.
UpSelect ==
  /\ First("select", {"pan", "erase", "freehand"})
  /\ selected' \in {selected, {}}
  /\ UNCHANGED doc

UpResize ==
  /\ First("resize", {"pan", "erase", "freehand", "select"})
  /\ UNCHANGED <<doc, selected>>

\* finalizeDrawCommit adds the shape when the pointer was dragged.
UpDraw ==
  /\ mode \cap {"pan", "erase", "freehand", "select", "resize"} = {}
  /\ \/ UNCHANGED <<doc, selected>>
     \/ /\ "draw" \in mode
        /\ \E i \in (Boxes \cup Connectors) \cap Fresh :
             /\ \E over \in IF i \in Boxes THEN {NoShape} ELSE Targets :
                  AddShape(i, over)
             /\ selected' = {i}

\* handleWindowPointerUp, which runs after the canvas's handler: whatever that
\* left under way, a drag and a pan with other fingers too, ends here.
WindowUp == Stopped

PointerUp(p) ==
  /\ p \in pressed
  /\ pressed' = pressed \ {p}
  /\ tracked' = tracked \ {p}
  /\ UpPan \/ UpErase \/ UpFreehand \/ UpSelect \/ UpResize \/ UpDraw
  /\ WindowUp
  /\ UNCHANGED <<readOnly, editor>>

\* A pointer that was down elsewhere is released; or the window loses the focus.
ReleaseElsewhere ==
  /\ mode # {}
  /\ WindowUp
  /\ UNCHANGED <<doc, readOnly, selected, tracked, pressed, editor>>

\* handlePointerCancel: the system takes a touch away.
PointerCancel(p) ==
  /\ p \in pressed \ Hovering
  /\ pressed' = pressed \ {p}
  /\ tracked' = tracked \ {p}
  /\ IF tracked' = {} THEN Stopped ELSE UNCHANGED <<mode, resizing, erased>>
  /\ UNCHANGED <<doc, readOnly, selected, editor>>

ContextMenu ==
  /\ tracked' = {}
  /\ Stopped
  /\ UNCHANGED <<doc, readOnly, selected, pressed, editor>>

\* setViewport, resetViewport and focusViewportToBounds of the page.
MoveViewport ==
  /\ mode # {}
  /\ Stopped
  /\ UNCHANGED <<doc, readOnly, selected, tracked, pressed, editor>>

(* ----------------------------- keys and texts --------------------------- *)

DeleteSelection ==
  /\ KeyReaches /\ selected # {}
  /\ DeleteShapes(selected)
  /\ selected' = {}
  /\ UNCHANGED <<readOnly, gesture, editor>>

Nudge ==
  /\ KeyReaches /\ selected # {}
  /\ \E over \in Targets : MoveShapes(selected, over)
  /\ UNCHANGED <<readOnly, selected, gesture, editor>>

\* handleDoubleClick on a text.
DoubleClick ==
  /\ \E i \in Live(present) \cap Texts : editor' = Editing(i, NoShape)
  /\ UNCHANGED <<doc, readOnly, selected, gesture>>

\* onCommit, by Enter or when the editor loses the focus: the text edited may
\* be gone by now, and so may the parent of a new one.
CommitText ==
  /\ editor.open
  /\ editor' = ClosedEditor
  /\ IF editor.existing # NoShape
     THEN /\ MoveShapes({editor.existing}, NoShape)
          /\ selected' = {editor.existing}
     ELSE \E i \in Texts \cap Fresh : /\ AddShape(i, editor.parent)
                                      /\ selected' = {i}
  /\ UNCHANGED <<readOnly, gesture>>

\* onCommit of nothing, by Enter: an existing text is deleted.
CommitNothing ==
  /\ editor.open
  /\ editor' = ClosedEditor
  /\ IF editor.existing # NoShape
     THEN DeleteShapes({editor.existing}) /\ selected' = {}
     ELSE UNCHANGED <<doc, selected>>
  /\ UNCHANGED <<readOnly, gesture>>

\* Escape, or the focus lost with nothing written.
CancelText ==
  /\ editor.open
  /\ editor' = ClosedEditor
  /\ UNCHANGED <<doc, readOnly, selected, gesture>>

(* -------------------------- commands of the page ------------------------ *)

\* Who calls setShapes and touches no more than the shapes; a command that
\* shows what it added moves the viewport as well.
Command(c) ==
  /\ SetShapes(c)
  /\ UNCHANGED <<readOnly, selected, gesture, editor>>

CommandShown(c) ==
  /\ ~readOnly
  /\ SetShapes(c)
  /\ Stopped
  /\ UNCHANGED <<readOnly, selected, tracked, pressed, editor>>

WithMine(c, i, link) == [c EXCEPT ![i] = Mine(link)]

\* What a new shape may be linked to: a text to the box it is in, an end of a
\* connector to the box it touches.
LinksOf(i) == IF i \in Boxes THEN {NoShape} ELSE {NoShape} \cup (Boxes \cap Live(present))

\* handleAiShapesGenerated: shapes for those that were selected when the
\* question was asked (which others may have changed since), or beside them.
ApplyAi ==
  \/ /\ ~readOnly
     /\ \E replaced \in SUBSET Live(present) :
          \/ Command(Without(present, replaced))
          \/ \E i \in replaced : Command(WithMine(Without(present, replaced), i, NoShape))
  \/ \E i \in Fresh : \E link \in LinksOf(i) : CommandShown(WithMine(present, i, link))

\* handleInsertTemplate, handleMermaidImport.
InsertShapes ==
  \E i \in Boxes \cap Fresh : CommandShown(WithMine(present, i, NoShape))

\* handleInsertSummary
InsertSummary == \E i \in Texts \cap Fresh : Command(WithMine(present, i, NoShape))

\* applyArrangement, handleTidyLayout, applyToSelectedShapes, onSnapSketches:
\* the selected shapes get another place or look, or another type.
Rearrange == \E S \in SUBSET Live(present) : Command(Written(present, S))

\* confirmClearCanvas
ClearCanvas == Command([i \in Ids |-> Gone])

\* handleAttachLabels: loose texts and connector ends are linked.
AttachLabels ==
  \E i \in (Texts \cup Connectors) \cap Live(present) :
    /\ ~Linked(present, i)
    /\ \E link \in LinksOf(i) \ {NoShape} :
         Command([present EXCEPT ![i].link = link])

\* A board from elsewhere: one shape differs from what is here (several do
\* after several of them), by being gone or being as others left it.
Boards ==
  UNION {{[present EXCEPT ![i] = Gone]} \cup
         {[present EXCEPT ![i] = [by |-> "others", link |-> link]] :
            link \in IF i \in Boxes THEN {NoShape} ELSE {NoShape} \cup Boxes} : i \in Ids}

\* handleRestore of HistoryPanel: an edit like any other.
RestoreVersion ==
  /\ \E c \in Boards : SetShapes(c)
  /\ UNCHANGED <<readOnly, selected, gesture, editor>>

\* The first load, a remote snapshot, handleReloadCanvas.
HydrateRemote ==
  /\ \E c \in Boards : Hydrate(c)
  /\ UNCHANGED <<readOnly, selected, gesture, editor>>

\* setSnapEnabled(false): every connector is unbound, as an edit.
SnapOff == Command(Unbound(present, Connectors))

\* setReadOnly, when the role of the user becomes known.
SetReadOnly(value) ==
  /\ readOnly' = value
  /\ UNCHANGED <<doc, selected, gesture, editor>>

Pointer(p) ==
  PointerDown(p) \/ PointerMove(p) \/ PointerUp(p) \/ PointerCancel(p)

Key == Undo \/ Redo \/ DeleteSelection \/ Nudge

Text == DoubleClick \/ CommitText \/ CommitNothing \/ CancelText

EditorCommand ==
  \/ ApplyAi \/ InsertShapes \/ InsertSummary \/ Rearrange \/ ClearCanvas
  \/ AttachLabels \/ RestoreVersion \/ SnapOff \/ MoveViewport
  \/ \E b \in BOOLEAN : SetReadOnly(b)

EditorNext ==
  \/ \E p \in Pointers : Pointer(p)
  \/ ReleaseElsewhere \/ ContextMenu
  \/ Key \/ Text \/ EditorCommand
  \/ HydrateRemote

EditorSpec == EditorInit /\ [][EditorNext]_editorVars

(* ------------------------------ properties ------------------------------ *)

Board == [Ids -> Shape]

\* The types of the variables.
EditorTypeOK ==
  /\ past \in Seq(Board) /\ present \in Board /\ future \in Seq(Board)
  /\ readOnly \in BOOLEAN
  /\ selected \subseteq Ids /\ mode \subseteq Gestures
  /\ tracked \subseteq Pointers /\ pressed \subseteq Pointers
  /\ resizing \in Ids \cup {NoShape} /\ erased \subseteq Ids
  /\ editor \in [open : BOOLEAN, existing : Texts \cup {NoShape},
                 parent : Ids \cup {NoShape}]
  /\ touched \subseteq Ids

\* Undo and redo never bring back, or take away, what others did: in every
\* board they can reach, a shape this user did not change since the last
\* snapshot is what the snapshot said.  (hydrateShapes forgets the history.)
RemoteKept ==
  \A i \in Ids \ touched :
    /\ \A n \in DOMAIN past : past[n][i] = present[i]
    /\ \A n \in DOMAIN future : future[n][i] = present[i]

T == INSTANCE EditTimeline
       WITH timeline <- past \o <<present>> \o Reverse(future),
            cursor <- Len(past) + 1

\* All the commands, keys, gestures and snapshots together edit one timeline:
\* undo and redo only move in it, an edit drops exactly what was undone.
Timeline == T!TSpec
=============================================================================
