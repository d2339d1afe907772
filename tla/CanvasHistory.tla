---------------------------- MODULE CanvasHistory ----------------------------
(***************************************************************************)
(* The version history of one room: every node records what it persisted,  *)
(* at most once per interval (ws/roomSync.ts), the HTTP backend lists and  *)
(* returns the versions (room.controller.ts), and the history panel of a   *)
(* page previews and restores them (HistoryPanel.tsx).                     *)
(*                                                                         *)
(* A drawing is all that the shapes of a canvas are.  A node is done with  *)
(* a version before the next interval of 30 seconds ends.                  *)
(***************************************************************************)
EXTENDS Integers, Sequences, FiniteSets

CONSTANTS
  Recorders,     \* the nodes that persist
  Drawings,
  MaxSnapshots,  \* HISTORY_MAX_SNAPSHOTS_PER_ROOM, and the page of the listing
  MaxSaves,      \* bound: how often the room is persisted
  MaxMistakes,   \* bound: failed queries and restarts
  MaxLooks       \* bound: how often another version is looked at

ASSUME CanvasHistoryAssumption ==
  /\ "no drawing" \notin Drawings
  /\ MaxSnapshots \in Nat \ {0}
  /\ MaxSaves \in Nat
  /\ MaxMistakes \in Nat
  /\ MaxLooks \in Nat

VARIABLES
  canvas,        \* what is drawn
  recorder,      \* recorder[n]: the maps of roomSync.ts and the write under way
  versions,      \* the ids of the RoomSnapshot rows, in the order of createdAt
  drawn,         \* history: drawn[id] is what version id was recorded of
  panel,         \* the state of HistoryPanel
  saves, mistakes, looks,
  settled        \* history: the last drawing persisted, and who has persisted

historyVars == <<canvas, recorder, versions, drawn, panel, saves, mistakes, looks, settled>>

NoDrawing == "no drawing"
Waiting == [pending |-> NoDrawing, timer |-> FALSE, last |-> NoDrawing,
            write |-> "idle", shapes |-> NoDrawing, stale |-> {}]
\* index counts from 0; Len(entries) is the live canvas.  fetches: the
\* requests under way; one is cancelled when another version is selected.
Shut == [stage |-> "shut", entries |-> <<>>, index |-> 0, preview |-> NoDrawing,
         cache |-> {}, fetches |-> {}, failed |-> FALSE, playing |-> FALSE, export |-> 0]

HistoryInit ==
  /\ canvas \in Drawings
  /\ recorder = [n \in Recorders |-> Waiting]
  /\ versions = {} /\ drawn = <<>>
  /\ panel = Shut
  /\ saves = 0 /\ mistakes = 0 /\ looks = 0
  /\ settled = [shapes |-> NoDrawing, by |-> {}]

Edit ==
  /\ saves < MaxSaves
  /\ \E d \in Drawings \ {canvas} : canvas' = d
  /\ UNCHANGED <<recorder, versions, drawn, panel, saves, mistakes, looks, settled>>

----------------------------------------------------------------------------
(* scheduleHistorySnapshot, at the end of persistShapes: the trailing edge *)
(* of the interval.                                                        *)
\* (Changed form: the first drawing of the interval is kept.)
ScheduledFirst(r, d) == IF r.timer THEN r ELSE [r EXCEPT !.pending = d, !.timer = TRUE]

Scheduled(r, d) == [r EXCEPT !.pending = d, !.timer = TRUE]

Persisted(n) ==
  /\ saves < MaxSaves
  /\ recorder' = [recorder EXCEPT ![n] = Scheduled(@, canvas)]
  /\ settled' = [shapes |-> canvas, by |-> settled.by \cup {n}]
  /\ saves' = saves + 1
  /\ UNCHANGED <<canvas, versions, drawn, panel, mistakes, looks>>

\* writeHistorySnapshot: a drawing like the last one is not written again
TimerFires(n) ==
  /\ recorder[n].timer /\ recorder[n].write = "idle"
  /\ LET r == recorder[n]
         fired == [r EXCEPT !.timer = FALSE, !.pending = NoDrawing]
     IN  recorder' = [recorder EXCEPT ![n] =
           IF r.pending = r.last THEN fired
           ELSE [fired EXCEPT !.write = "creating", !.shapes = r.pending]]
  /\ UNCHANGED <<canvas, versions, drawn, panel, saves, mistakes, looks, settled>>

Recorded(d) == versions' = versions \cup {Len(drawn) + 1} /\ drawn' = Append(drawn, d)

Create(n) ==
  /\ recorder[n].write = "creating"
  /\ Recorded(recorder[n].shapes)
  /\ recorder' = [recorder EXCEPT ![n] = [@ EXCEPT !.write = "listing", !.last = recorder[n].shapes]]
  /\ UNCHANGED <<canvas, panel, saves, mistakes, looks, settled>>

\* versions that lie behind the newest MaxSnapshots
Behind == {id \in versions : Cardinality({v \in versions : v > id}) >= MaxSnapshots}

ListStale(n) ==
  /\ recorder[n].write = "listing"
  /\ recorder' = [recorder EXCEPT ![n] =
       [@ EXCEPT !.write = IF Behind = {} THEN "idle" ELSE "deleting",
                 !.stale = Behind, !.shapes = NoDrawing]]
  /\ UNCHANGED <<canvas, versions, drawn, panel, saves, mistakes, looks, settled>>

DeleteStale(n) ==
  /\ recorder[n].write = "deleting"
  /\ versions' = versions \ recorder[n].stale
  /\ recorder' = [recorder EXCEPT ![n] = [@ EXCEPT !.write = "idle", !.stale = {}]]
  /\ UNCHANGED <<canvas, drawn, panel, saves, mistakes, looks, settled>>

\* A query fails, perhaps after it took effect: history is best effort.
QueryFails(n) ==
  /\ recorder[n].write # "idle" /\ mistakes < MaxMistakes
  /\ \/ recorder[n].write = "creating" /\ Recorded(recorder[n].shapes)
     \/ UNCHANGED <<versions, drawn>>
  /\ recorder' = [recorder EXCEPT ![n] = [@ EXCEPT !.write = "idle", !.shapes = NoDrawing,
                                                   !.stale = {}]]
  /\ mistakes' = mistakes + 1
  /\ UNCHANGED <<canvas, panel, saves, looks, settled>>

\* The node restarts; the timer does not keep it alive (unref).
RecorderRestarts(n) ==
  /\ mistakes < MaxMistakes
  /\ recorder' = [recorder EXCEPT ![n] = Waiting]
  /\ mistakes' = mistakes + 1
  /\ UNCHANGED <<canvas, versions, drawn, panel, saves, looks, settled>>

----------------------------------------------------------------------------
(* The panel. *)
LiveCanvas(p) == Len(p.entries)
Selected(p) == IF p.index < LiveCanvas(p) THEN p.entries[p.index + 1] ELSE 0
Cached(p) == {c[1] : c \in p.cache}
CacheOf(p, id) == (CHOOSE c \in p.cache : c[1] = id)[2]
Cancelled(p) == {[f EXCEPT !.cancelled = TRUE] : f \in p.fetches}

\* the effect of a new selection
Showing(p) ==
  LET id == Selected(p)
      q == [p EXCEPT !.fetches = Cancelled(p), !.failed = FALSE]
  IN  CASE id = 0 -> [q EXCEPT !.preview = NoDrawing]
        [] id # 0 /\ id \in Cached(p) -> [q EXCEPT !.preview = CacheOf(p, id)]
        [] OTHER -> [q EXCEPT !.fetches = @ \cup {[id |-> id, cancelled |-> FALSE]}]

MovedTo(p, i) == IF i = p.index THEN p ELSE Showing([p EXCEPT !.index = i])

OnPanel == UNCHANGED <<canvas, recorder, versions, drawn, saves, mistakes, settled>>
Looked == looks < MaxLooks /\ looks' = looks + 1

OpenPanel ==
  /\ panel.stage = "shut" /\ Looked
  /\ panel' = [Shut EXCEPT !.stage = "loading"]
  /\ OnPanel

\* the newest MaxSnapshots, oldest first
Newest ==
  LET listed == versions \ Behind
  IN  {s \in [1..Cardinality(listed) -> listed] : \A i, j \in DOMAIN s : i < j => s[i] < s[j]}

\* listRoomHistory, or its failure
Listed ==
  /\ panel.stage = "loading"
  /\ \E entries \in Newest \cup {<<>>} :
       panel' = Showing([panel EXCEPT !.stage = "open", !.entries = entries,
                           !.index = IF entries = <<>> THEN 0 ELSE Len(entries) - 1])
  /\ UNCHANGED looks
  /\ OnPanel

\* getRoomHistorySnapshot; the version may have been deleted since
Fetched(p, f, row) ==
  LET q == [p EXCEPT !.fetches = @ \ {f}]
  IN  CASE f.cancelled -> q
        [] ~f.cancelled /\ row # NoDrawing ->
             [q EXCEPT !.cache = @ \cup {<<f.id, row>>}, !.preview = row]
        [] OTHER -> [q EXCEPT !.failed = TRUE]

RowOf(id) == IF id \in versions THEN drawn[id] ELSE NoDrawing

FetchAnswered ==
  /\ \E f \in panel.fetches : \E row \in {RowOf(f.id), NoDrawing} : panel' = Fetched(panel, f, row)
  /\ UNCHANGED looks
  /\ OnPanel

\* the slider and the arrows
LookAt(i) ==
  /\ panel.stage = "open" /\ Looked /\ i \in 0..LiveCanvas(panel)
  /\ panel' = MovedTo([panel EXCEPT !.playing = FALSE], i)
  /\ OnPanel

\* at the end the timelapse begins again
TogglePlay ==
  /\ panel.stage = "open" /\ panel.entries # <<>> /\ Looked
  /\ LET again == ~panel.playing /\ panel.index >= LiveCanvas(panel) - 1
     IN  panel' = MovedTo([panel EXCEPT !.playing = ~@], IF again THEN 0 ELSE panel.index)
  /\ OnPanel

PlayTick ==
  /\ panel.playing
  /\ panel' = IF panel.index >= LiveCanvas(panel) - 1
              THEN MovedTo([panel EXCEPT !.playing = FALSE], LiveCanvas(panel) - 1)
              ELSE MovedTo(panel, panel.index + 1)
  /\ UNCHANGED looks
  /\ OnPanel

\* exportVideo loads what is not cached, one version after the other
StartExport ==
  /\ panel.stage = "open" /\ panel.entries # <<>> /\ panel.export = 0 /\ Looked
  /\ panel' = [panel EXCEPT !.export = 1]
  /\ OnPanel

ExportStep ==
  /\ panel.export # 0
  /\ LET id == panel.entries[panel.export]
         next == IF panel.export < LiveCanvas(panel) THEN panel.export + 1 ELSE 0
     IN  panel' = CASE id \in Cached(panel) -> [panel EXCEPT !.export = next]
                    [] id \notin Cached(panel) /\ RowOf(id) # NoDrawing ->
                         [panel EXCEPT !.export = next, !.cache = @ \cup {<<id, RowOf(id)>>}]
                    [] OTHER -> [panel EXCEPT !.export = 0]
  /\ UNCHANGED looks
  /\ OnPanel

\* handleRestore, a normal edit of the canvas
Restore ==
  /\ panel.stage = "open" /\ Selected(panel) # 0 /\ panel.preview # NoDrawing
  /\ canvas' = panel.preview
  /\ panel' = Shut
  /\ UNCHANGED <<recorder, versions, drawn, saves, mistakes, looks, settled>>

ClosePanel ==
  /\ panel.stage # "shut"
  /\ panel' = Shut
  /\ UNCHANGED looks
  /\ OnPanel

----------------------------------------------------------------------------
RecorderStep(n) ==
  \/ Persisted(n) \/ TimerFires(n) \/ Create(n) \/ ListStale(n) \/ DeleteStale(n)
  \/ QueryFails(n) \/ RecorderRestarts(n)

PanelStep ==
  \/ OpenPanel \/ Listed \/ FetchAnswered \/ \E i \in 0..MaxSnapshots : LookAt(i)
  \/ TogglePlay \/ PlayTick \/ StartExport \/ ExportStep \/ Restore \/ ClosePanel

HistoryNext == Edit \/ PanelStep \/ \E n \in Recorders : RecorderStep(n)

HistorySpec == HistoryInit /\ [][HistoryNext]_historyVars

----------------------------------------------------------------------------
(* Properties *)

(* Nothing is lost from the history: pruning takes no version that has     *)
(* fewer than MaxSnapshots newer ones, whichever nodes write and prune at  *)
(* once; and when one node has recorded all, and nothing failed, the state *)
(* at the end of a burst is the newest version ("trailing edge, so the     *)
(* final state of an editing burst is always captured", roomSync.ts:78).   *)
Quiet(r) == ~r.timer /\ r.pending = NoDrawing /\ r.write \notin {"creating"}

VersionsKept ==
  /\ \A id \in DOMAIN drawn :
       id > Len(drawn) - MaxSnapshots => id \in versions
  /\ \A n \in Recorders :
       settled.by = {n} /\ mistakes = 0 /\ Quiet(recorder[n]) =>
         drawn # <<>> /\ drawn[Len(drawn)] = settled.shapes

(* Once the drawing of the selected version was fetched, it is what is     *)
(* previewed and what is restored: however fast the slider moves, the      *)
(* timelapse plays and the video is exported, no late answer for another   *)
(* version replaces it (HistoryPanel.tsx:107-125).  While the fetch is     *)
(* pending, and when it failed, the panel still shows, and can restore,    *)
(* the version before (278-284).                                           *)
PreviewFollows ==
  LET id == Selected(panel)
      busy == \E f \in panel.fetches : ~f.cancelled
  IN  panel.stage = "open" /\ id # 0 /\ ~busy /\ ~panel.failed => panel.preview = drawn[id]

(* The history keeps what was drawn, and shows what it kept.               *)
HistoryKept == VersionsKept /\ PreviewFollows
=============================================================================
