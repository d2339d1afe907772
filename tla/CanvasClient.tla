---------------------------- MODULE CanvasClient ----------------------------
(***************************************************************************)
(* One browser's side of the synchronisation, useCanvasSync.ts: local      *)
(* edits are reconciled into snapshots, throttled through a one-place      *)
(* queue and an in-flight budget, and remote snapshots are hydrated in     *)
(* between.  The server is what RoomSync promises: it merges one snapshot  *)
(* at a time and answers each in order.  Handlers run to completion, so    *)
(* isApplyingRemoteRef is never seen set; times are flags that are set by  *)
(* the code and cleared when the time is over.                             *)
(***************************************************************************)
EXTENDS CanvasCrdt, Sequences, FiniteSets

CONSTANTS Me, Other,         \* this browser's clientId; everybody else's
          Loaded,            \* the shapes of the room when the page opens
          MaxInFlight,       \* WS_MAX_IN_FLIGHT_SNAPSHOTS
          BurstInFlight,     \* DRAG_BURST_MAX_IN_FLIGHT
          RoundTripIsShort,  \* answers may arrive within the send interval
          MaxEdits, MaxRemotes,  \* bounds
          MaxMishaps         \* bounds errors and reloads together

VARIABLES
  view,      \* CanvasState.present
  prev,      \* previousCrdtShapesRef
  queued,    \* queuedSnapshotRef
  inFlight,  \* inFlightSnapshotCountRef
  burst,     \* isDragBurstActiveRef
  pending,   \* pendingRemoteSnapshotRef, whose hydration is scheduled
  flushDue,  \* pendingSyncRafRef: a tick is scheduled
  cooling,   \* the minimal send interval since lastSnapshotSentAtRef runs
  recent,    \* REMOTE_HYDRATE_IDLE_GRACE_MS since the last edit runs
  backoff,   \* rateLimitBackoffUntilRef is ahead, its timer is set
  clock,     \* crdtClockRef
  tombs,     \* crdtTombstonesRef
  sock,      \* the WebSocket; "left": cleaned up, what was sent is delivered
  joined,    \* hasJoinedRoomRef
  toServer, toClient,          \* the two directions of the connection
  room, roomTombs, admitted,   \* the server: shapes, tombstones, membership
  otherClock, removed,         \* the others' clock; ids somebody removed
  early,                       \* an edit was made before room_joined
  edits, remotes, mishaps      \* how often these happened

browserVars == <<view, prev, queued, inFlight, burst, pending, flushDue,
                 cooling, recent, backoff, clock, tombs, joined>>
serverVars == <<room, roomTombs, admitted, otherClock>>
countVars == <<edits, remotes, mishaps, removed, early>>
vars == <<browserVars, sock, toServer, toClient, serverVars, countVars>>

(***************************************************************************)
(* A shape here is its metadata and its content: content is stamped only   *)
(* in the reconciled snapshot, so that the shapes in CanvasState keep the  *)
(* metadata of the last hydration beside content that is newer.            *)
(***************************************************************************)
Content == [by : Authors, nth : Nat]
Copy == [content : Content, meta : Meta]
NoCopy == [content |-> [by |-> 0, nth |-> 0], meta |-> Absent]
Copies == [Ids -> Copy \cup {NoCopy}]
NoCopies == [i \in Ids |-> NoCopy]
Unstamped == [clock |-> 0, author |-> 0]      \* SERVER_BASE_META
Has(shapes, i) == shapes[i] # NoCopy

Snapshot == [shapes : Copies, dels : Entries]
NoSnapshot == [none |-> TRUE]
Join == [type |-> "join"]
Save(snapshot) == [type |-> "save", snapshot |-> snapshot]
Outgoing == [type : {"join"}] \cup [type : {"save"}, snapshot : Snapshot]
Reasons == {"mismatch", "rate", "other"}
RoomJoined(shapes) == [type |-> "joined", shapes |-> shapes]
Broadcast(snapshot) == [type |-> "broadcast", snapshot |-> snapshot]
Ack == [type |-> "ack"]
SyncError(reason) == [type |-> "error", reason |-> reason]
Incoming == [type : {"joined"}, shapes : Copies]
            \cup [type : {"broadcast"}, snapshot : Snapshot]
            \cup [type : {"ack"}] \cup [type : {"error"}, reason : Reasons]

ASSUME ClientAssumption ==
  /\ Ids \subseteq Nat /\ IsFiniteSet(Ids)
  /\ {0, Me, Other} \subseteq Authors /\ Me # Other /\ Me # 0 /\ Other # 0
  /\ Loaded \in Copies
  /\ MaxInFlight \in Nat \ {0} /\ BurstInFlight \in Nat
  /\ MaxInFlight <= BurstInFlight
  /\ RoundTripIsShort \in BOOLEAN
  /\ MaxEdits \in Nat /\ MaxRemotes \in Nat /\ MaxMishaps \in Nat

\* The highest clock of the shapes and n, as a set of one.
Highest(shapes, n) ==
  {c \in {n} \cup {shapes[i].meta.clock : i \in Ids} :
     c >= n /\ \A i \in Ids : c >= shapes[i].meta.clock}

Init ==
  /\ view = Loaded /\ prev = NoCopies /\ queued = NoSnapshot
  /\ inFlight = 0 /\ burst = FALSE /\ pending = NoSnapshot
  /\ flushDue = FALSE /\ cooling = FALSE /\ recent = FALSE /\ backoff = FALSE
  /\ clock = 0 /\ tombs = NoEntries /\ sock = "connecting" /\ joined = FALSE
  /\ toServer = <<>> /\ toClient = <<>>
  /\ room = Loaded /\ roomTombs = NoEntries /\ admitted = FALSE
  /\ otherClock \in Highest(Loaded, 0) /\ removed = {} /\ early = FALSE
  /\ edits = 0 /\ remotes = 0 /\ mishaps = 0

(* ------------------------------- merging ------------------------------- *)

\* mergeCanvasCrdtSnapshot on one id: the cell decides which copy stays.
MergedCopy(current, tomb, del, incoming) ==
  LET cell == DeleteCell([shape |-> current.meta, tomb |-> tomb], del)
      accepted == /\ incoming # NoCopy
                  /\ ~AtMost(incoming.meta, cell.tomb)
                  /\ AtMost(cell.shape, incoming.meta)
  IN  IF accepted THEN incoming
      ELSE IF cell.shape = Absent THEN NoCopy ELSE current

MergedCopies(current, ts, dels, incoming) ==
  [i \in Ids |-> MergedCopy(current[i], ts[i], dels[i], incoming[i])]

Metas(shapes) == [i \in Ids |-> shapes[i].meta]

(***************************************************************************)
(* reconcileLocalCanvasCrdtSnapshot: what differs from prev gets a clock   *)
(* of its own each, in the order of the array, and the deletions share the *)
(* next one.                                                               *)
(***************************************************************************)
Changed(shapes) ==
  {i \in Ids : Has(shapes, i) /\ (Has(prev, i) => prev[i].content # shapes[i].content)}
Dropped(shapes) == {i \in Ids : Has(prev, i) /\ ~Has(shapes, i)}

Reconciled(shapes) ==
  LET changed == Changed(shapes)
      Rank(i) == Cardinality({j \in changed : j <= i})
      Stamp(n) == [clock |-> clock + n, author |-> Me]
  IN  [shapes |-> [i \in Ids |->
                     IF ~Has(shapes, i) THEN NoCopy
                     ELSE [content |-> shapes[i].content,
                           meta |-> IF i \in changed THEN Stamp(Rank(i))
                                    ELSE prev[i].meta]],
       dels |-> [i \in Ids |-> IF i \in Dropped(shapes)
                               THEN Stamp(Cardinality(changed) + 1)
                               ELSE Absent]]

ClockAfter(shapes) ==
  clock + Cardinality(Changed(shapes)) + (IF Dropped(shapes) = {} THEN 0 ELSE 1)

\* observeCrdtClock: deletions are not looked at.
Observed(shapes) == Highest(shapes, clock)

(* ------------------------------- sending ------------------------------- *)

Budget(inBurst) == IF inBurst THEN BurstInFlight ELSE MaxInFlight

\* The tests canFlushNow makes itself, and those only flushQueuedSnapshot makes.
IntervalAllows(n, inBurst) == ~backoff /\ ~cooling /\ n < Budget(inBurst)
LineIsOpen(in) == sock = "open" /\ in

\* flushQueuedSnapshot, with the values its caller has just set.
Flush(snapshot, n, in, inBurst) ==
  IF snapshot # NoSnapshot /\ LineIsOpen(in) /\ IntervalAllows(n, inBurst)
  THEN /\ toServer' = Append(toServer, Save(snapshot))
       /\ queued' = NoSnapshot /\ inFlight' = n + 1 /\ cooling' = TRUE
  ELSE /\ queued' = snapshot /\ inFlight' = n
       /\ UNCHANGED <<toServer, cooling>>

\* The tick of scheduleSnapshotFlush: it runs again while the queue is full.
Tick ==
  /\ flushDue
  /\ Flush(queued, inFlight, joined, burst)
  /\ flushDue' = (queued' # NoSnapshot)
  /\ UNCHANGED <<view, prev, burst, pending, recent, backoff, clock, tombs,
                 joined, sock, toClient, serverVars, countVars>>

(***************************************************************************)
(* A local change (draw, change, remove, undo, redo): the subscriber calls *)
(* sendCanvasSnapshot with all shapes.  soon: the previous change was less *)
(* than DRAG_BURST_WINDOW_MS ago.                                          *)
(***************************************************************************)
SendCanvasSnapshot(shapes, soon) ==
  LET snapshot == Reconciled(shapes)
      inBurst == burst \/ soon
  IN  /\ view' = shapes
      /\ prev' = snapshot.shapes
      /\ clock' = ClockAfter(shapes)
      /\ burst' = inBurst /\ recent' = TRUE
      /\ flushDue' = ~IntervalAllows(inFlight, inBurst)
      /\ Flush(snapshot, inFlight, joined, inBurst)
      /\ UNCHANGED <<pending, backoff, tombs, joined, sock, toClient,
                     serverVars, remotes, mishaps>>

CanEdit == /\ sock \in {"connecting", "open"} /\ edits < MaxEdits /\ edits' = edits + 1
           /\ early' = (early \/ ~joined)

Write(i, soon) ==
  LET meta == IF Has(view, i) THEN view[i].meta ELSE Unstamped
      copy == [content |-> [by |-> Me, nth |-> edits + 1], meta |-> meta]
  IN  /\ CanEdit
      /\ SendCanvasSnapshot([view EXCEPT ![i] = copy], soon)
      /\ UNCHANGED removed

Remove(i, soon) ==
  /\ CanEdit /\ Has(view, i)
  /\ SendCanvasSnapshot([view EXCEPT ![i] = NoCopy], soon)
  /\ removed' = removed \cup {i}

(* ------------------------------ hydrating ------------------------------ *)

\* hydrateShapes with everything that is kept beside it.
Hydrate(shapes) == view' = shapes /\ prev' = shapes /\ clock' \in Observed(shapes)

LocalWork == queued # NoSnapshot \/ inFlight > 0

\* applyLatestRemoteSnapshot, from its animation frame.
ApplyRemote ==
  LET known == [i \in Ids |-> IF pending.dels[i] # Absent
                              THEN pending.dels[i] ELSE tombs[i]]
  IN  /\ pending # NoSnapshot /\ ~recent
      /\ pending' = NoSnapshot
      /\ tombs' = known
      /\ Hydrate(IF LocalWork
                 THEN MergedCopies(pending.shapes, known, pending.dels, view)
                 ELSE pending.shapes)
      /\ UNCHANGED <<queued, inFlight, burst, flushDue, cooling, recent,
                     backoff, joined, sock, toServer, toClient, serverVars,
                     countVars>>

\* manualHydrate, with the shapes the HTTP API returned.
Reload ==
  /\ sock \in {"connecting", "open"} /\ mishaps < MaxMishaps /\ mishaps' = mishaps + 1
  /\ \E shapes \in {room, Loaded} : Hydrate(shapes)
  /\ UNCHANGED <<queued, inFlight, burst, pending, flushDue, cooling, recent,
                 backoff, tombs, joined, sock, toServer, toClient, serverVars,
                 edits, remotes, removed, early>>

(* ------------------------------ receiving ------------------------------ *)

Receive(type) ==
  /\ sock = "open" /\ toClient # <<>> /\ Head(toClient).type = type
  /\ toClient' = Tail(toClient)
  /\ UNCHANGED <<sock, serverVars, countVars>>

\* (Changed form: the snapshot put back is compared with the server's shapes.)
ReceiveJoinedComparing ==
  LET shapes == Head(toClient).shapes
      saved == IF queued = NoSnapshot THEN shapes ELSE queued.shapes
  IN  /\ Receive("joined")
      /\ joined' = TRUE
      /\ pending' = NoSnapshot
      /\ view' = saved /\ prev' = shapes /\ clock' \in Observed(shapes)
      /\ Flush(queued, 0, TRUE, burst)
      /\ UNCHANGED <<burst, flushDue, recent, backoff, tombs>>

\* room_joined: the server's shapes, over which a waiting snapshot is put back.
ReceiveJoined ==
  LET shapes == Head(toClient).shapes
      saved == IF queued = NoSnapshot THEN shapes ELSE queued.shapes
      seen == [i \in Ids |-> IF AtMost(saved[i].meta, shapes[i].meta)
                             THEN shapes[i] ELSE saved[i]]
  IN  /\ Receive("joined")
      /\ joined' = TRUE
      /\ pending' = NoSnapshot
      /\ view' = saved /\ prev' = saved /\ clock' \in Observed(seen)
      /\ Flush(queued, 0, TRUE, burst)
      /\ UNCHANGED <<burst, flushDue, recent, backoff, tombs>>

\* (Changed form: the clock is observed only when the snapshot is hydrated.)
ReceiveBroadcastUnseen ==
  /\ Receive("broadcast")
  /\ pending' = Head(toClient).snapshot
  /\ UNCHANGED <<view, prev, queued, inFlight, burst, flushDue, cooling,
                 recent, backoff, clock, tombs, joined, toServer>>

ReceiveBroadcast ==
  LET snapshot == Head(toClient).snapshot
  IN  /\ Receive("broadcast")
      /\ pending' = snapshot
      /\ clock' \in Observed(snapshot.shapes)
      /\ UNCHANGED <<view, prev, queued, inFlight, burst, flushDue, cooling,
                     recent, backoff, tombs, joined, toServer>>

ReceiveAck ==
  /\ Receive("ack")
  /\ inFlight' = IF inFlight = 0 THEN 0 ELSE inFlight - 1
  /\ flushDue' = TRUE
  /\ UNCHANGED <<view, prev, queued, burst, pending, cooling, recent, backoff,
                 clock, tombs, joined, toServer>>

\* (Changed form: an error leaves the count alone.)
ReceiveErrorCounted ==
  /\ Receive("error")
  /\ backoff' = (backoff \/ Head(toClient).reason = "rate")
  /\ flushDue' = (flushDue \/ Head(toClient).reason = "other")
  /\ UNCHANGED <<view, prev, queued, inFlight, burst, pending, cooling, recent,
                 clock, tombs, joined, toServer>>

\* sync_error: a version mismatch keeps or takes the canvas for room_joined;
\* a rate limit waits; anything else goes on with the next tick.
ReceiveError ==
  LET reason == Head(toClient).reason
      keep == reason = "mismatch" /\ queued = NoSnapshot
  IN  /\ Receive("error")
      /\ inFlight' = 0
      /\ queued' = IF keep THEN Reconciled(view) ELSE queued
      /\ prev' = IF keep THEN Reconciled(view).shapes ELSE prev
      /\ clock' = IF keep THEN ClockAfter(view) ELSE clock
      /\ backoff' = (backoff \/ reason = "rate")
      /\ flushDue' = (flushDue \/ reason = "other")
      /\ UNCHANGED <<view, burst, pending, cooling, recent, tombs, joined,
                     toServer>>

(* ------------------------ the passing of time --------------------------- *)

IntervalOver ==
  /\ cooling /\ cooling' = FALSE
  /\ UNCHANGED <<view, prev, queued, inFlight, burst, pending, flushDue, recent,
                 backoff, clock, tombs, joined, sock, toServer, toClient,
                 serverVars, countVars>>

GraceOver ==
  /\ recent /\ recent' = FALSE
  /\ UNCHANGED <<view, prev, queued, inFlight, burst, pending, flushDue, cooling,
                 backoff, clock, tombs, joined, sock, toServer, toClient,
                 serverVars, countVars>>

BurstOver ==
  /\ burst /\ burst' = FALSE
  /\ UNCHANGED <<view, prev, queued, inFlight, pending, flushDue, cooling,
                 recent, backoff, clock, tombs, joined, sock, toServer,
                 toClient, serverVars, countVars>>

BackoffOver ==
  /\ backoff /\ backoff' = FALSE /\ flushDue' = TRUE
  /\ UNCHANGED <<view, prev, queued, inFlight, burst, pending, cooling, recent,
                 clock, tombs, joined, sock, toServer, toClient, serverVars,
                 countVars>>

(* ----------------------------- connection ------------------------------- *)

\* onopen sends join_room.
Open ==
  /\ sock = "connecting" /\ sock' = "open"
  /\ toServer' = Append(toServer, Join)
  /\ UNCHANGED <<browserVars, toClient, serverVars, countVars>>

\* onclose: nothing but the flags changes.  The hook does not reconnect, so
\* what the user still does on this page is not modelled.
Close ==
  /\ sock = "open" /\ sock' = "closed"
  /\ joined' = FALSE /\ admitted' = FALSE
  /\ toServer' = <<>> /\ toClient' = <<>>
  /\ UNCHANGED <<view, prev, queued, inFlight, burst, pending, flushDue,
                 cooling, recent, backoff, clock, tombs, room, roomTombs,
                 otherClock, countVars>>

\* (Changed form: the page is left without sending what is queued.)
LeaveSilently ==
  /\ sock # "left" /\ sock' = "left"
  /\ pending' = NoSnapshot /\ queued' = NoSnapshot /\ inFlight' = 0
  /\ cooling' = FALSE /\ burst' = FALSE /\ backoff' = FALSE
  /\ flushDue' = FALSE /\ joined' = FALSE
  /\ toClient' = <<>>
  /\ UNCHANGED <<view, prev, clock, recent, tombs, toServer, serverVars, countVars>>

\* The effect's cleanup: the canvas is sent once more, everything is reset.
Leave ==
  /\ sock # "left"
  /\ sock' = "left"
  /\ IF sock = "open"
     THEN /\ toServer' = Append(toServer, Save(Reconciled(view)))
          /\ clock' = ClockAfter(view)
     ELSE UNCHANGED <<toServer, clock>>
  /\ pending' = NoSnapshot /\ queued' = NoSnapshot /\ inFlight' = 0
  /\ cooling' = FALSE /\ burst' = FALSE /\ backoff' = FALSE
  /\ flushDue' = FALSE /\ joined' = FALSE
  /\ toClient' = <<>>
  /\ UNCHANGED <<view, prev, recent, tombs, serverVars, countVars>>

(* ------------------------------- server --------------------------------- *)

\* Nobody reads the answers once the browser has left.
Answer(messages) ==
  toClient' = IF sock = "open" THEN toClient \o messages ELSE toClient

\* See RoundTripIsShort: the answer to the last message sent.
TakesLongEnough == RoundTripIsShort \/ ~cooling \/ Len(toServer) > 1

Serve(type) ==
  /\ toServer # <<>> /\ Head(toServer).type = type
  /\ toServer' = Tail(toServer)
  /\ UNCHANGED <<browserVars, sock, otherClock, edits, remotes, removed, early>>

AdmitJoin ==
  /\ Serve("join")
  /\ admitted' = TRUE
  /\ Answer(<<RoomJoined(room)>>)
  /\ UNCHANGED <<room, roomTombs, mishaps>>

RefuseJoin ==
  /\ Serve("join") /\ mishaps < MaxMishaps /\ mishaps' = mishaps + 1
  /\ Answer(<<SyncError("other")>>)
  /\ UNCHANGED <<room, roomTombs, admitted>>

MergeIntoRoom(snapshot) ==
  /\ room' = MergedCopies(room, roomTombs, snapshot.dels, snapshot.shapes)
  /\ roomTombs' = MergedTombs(Metas(room), roomTombs, snapshot.dels,
                              Metas(snapshot.shapes))

CommitSnapshot ==
  /\ Serve("save") /\ TakesLongEnough /\ admitted
  /\ MergeIntoRoom(Head(toServer).snapshot)
  /\ Answer(<<Ack>>)
  /\ UNCHANGED <<admitted, mishaps>>

\* Not a member, or the commit failed three times, the window of the rate
\* limit is full, or the handler threw.
RejectSnapshot(reason) ==
  /\ Serve("save") /\ TakesLongEnough
  /\ IF admitted THEN mishaps < MaxMishaps /\ mishaps' = mishaps + 1
                 ELSE reason = "other" /\ UNCHANGED mishaps
  /\ Answer(IF reason = "mismatch"
            THEN <<SyncError(reason), RoomJoined(room)>>
            ELSE <<SyncError(reason)>>)
  /\ UNCHANGED <<room, roomTombs, admitted>>

(***************************************************************************)
(* Another browser changes or removes shape i and the server's node sends  *)
(* the broadcast on.  That browser may or may not have seen the last       *)
(* state of i.                                                             *)
(***************************************************************************)
Top(i) == IF AtMost(room[i].meta, roomTombs[i])
          THEN roomTombs[i].clock ELSE room[i].meta.clock

OtherCommits(i, gone, seen) ==
  LET ahead == IF seen /\ Top(i) > otherClock THEN Top(i) ELSE otherClock
      meta == [clock |-> ahead + 1, author |-> Other]
      copy == [content |-> [by |-> Other, nth |-> remotes + 1], meta |-> meta]
      snapshot ==
        [shapes |-> [room EXCEPT ![i] = IF gone THEN NoCopy ELSE copy],
         dels |-> [NoEntries EXCEPT ![i] = IF gone THEN meta ELSE Absent]]
  IN  /\ remotes < MaxRemotes /\ remotes' = remotes + 1
      /\ gone => Has(room, i)
      /\ otherClock' = ahead + 1
      /\ removed' = IF gone THEN removed \cup {i} ELSE removed
      /\ MergeIntoRoom(snapshot)
      /\ IF admitted THEN Answer(<<Broadcast([snapshot EXCEPT !.shapes = room'])>>)
                     ELSE UNCHANGED toClient
      /\ UNCHANGED <<browserVars, sock, toServer, admitted, edits, mishaps,
                     early>>

(* ----------------------------- specification ---------------------------- *)

Next ==
  \/ \E i \in Ids, soon \in BOOLEAN : Write(i, soon) \/ Remove(i, soon)
  \/ Tick \/ ApplyRemote \/ Reload
  \/ ReceiveJoined \/ ReceiveBroadcast \/ ReceiveAck \/ ReceiveError
  \/ IntervalOver \/ GraceOver \/ BurstOver \/ BackoffOver
  \/ Open \/ Close \/ Leave
  \/ AdmitJoin \/ RefuseJoin \/ CommitSnapshot
  \/ \E reason \in Reasons : RejectSnapshot(reason)
  \/ \E i \in Ids, gone, seen \in BOOLEAN : OtherCommits(i, gone, seen)

(***************************************************************************)
(* The server answers (RoomSync's Answered), messages of an open socket    *)
(* arrive, timers fire and a visible page gets its animation frames.       *)
(***************************************************************************)
ServerAnswers == AdmitJoin \/ CommitSnapshot \/ \E r \in Reasons : RejectSnapshot(r)
MessageArrives == ReceiveJoined \/ ReceiveBroadcast \/ ReceiveAck \/ ReceiveError

Fairness ==
  /\ WF_vars(ServerAnswers) /\ WF_vars(MessageArrives)
  /\ WF_vars(Tick) /\ WF_vars(IntervalOver) /\ WF_vars(BackoffOver)

Spec == Init /\ [][Next]_vars /\ Fairness

(* ------------------------------ properties ------------------------------ *)

\* Every shape has content and metadata or neither, and the in-flight count of
\* useCanvasSync never goes below zero.
TypeOK ==
  /\ view \in Copies /\ prev \in Copies /\ room \in Copies
  /\ queued \in Snapshot \cup {NoSnapshot}
  /\ pending \in Snapshot \cup {NoSnapshot}
  /\ inFlight \in Nat /\ clock \in Nat /\ otherClock \in Nat
  /\ burst \in BOOLEAN /\ flushDue \in BOOLEAN /\ cooling \in BOOLEAN
  /\ recent \in BOOLEAN /\ backoff \in BOOLEAN /\ joined \in BOOLEAN
  /\ admitted \in BOOLEAN /\ early \in BOOLEAN
  /\ tombs \in Entries /\ roomTombs \in Entries
  /\ sock \in {"connecting", "open", "closed", "left"}
  /\ toServer \in Seq(Outgoing) /\ toClient \in Seq(Incoming)
  /\ removed \subseteq Ids
  /\ edits \in 0..MaxEdits /\ remotes \in 0..MaxRemotes
  /\ mishaps \in 0..MaxMishaps

\* What the browser counts as in flight is really unanswered: an answer that
\* failed to be counted would use up the budget until nothing is sent any more.
Unanswered ==
  Cardinality({k \in DOMAIN toServer : toServer[k].type = "save"})
  + Cardinality({k \in DOMAIN toClient : toClient[k].type \in {"ack", "error"}})
InFlightCovered == sock = "open" => inFlight <= Unanswered

\* A shape is deleted on the server only if a user removed it.  The canvas
\* itself loses shapes in other ways (a late hydration, the snapshot put back
\* by room_joined, a reload), and none may be announced as a deletion.
NothingErased == \A i \in Ids : roomTombs[i] # Absent => i \in removed

\* The next stamp outranks every shape the browser holds, sends or waits to
\* hydrate: an edit is never older than what the user edited.
Held == {view, prev} \cup {s.shapes : s \in {queued, pending} \ {NoSnapshot}}
NextStampIsNewest ==
  joined => \A shapes \in Held, i \in Ids : shapes[i].meta.clock <= clock

\* Throttling, bursts, the budget and leaving the page lose no write: what the
\* user drew last on a shape is queued, on its way or on the server, unless it
\* was drawn before room_joined (with a clock that has seen nothing) or somebody
\* else, an error or a reload interfered.
Undisturbed == /\ remotes = 0 /\ mishaps = 0 /\ ~early
               /\ sock \in {"open", "left"} /\ (admitted \/ toServer # <<>>)
Saves == {toServer[k] : k \in DOMAIN toServer} \ {Join}
WritesKept ==
  Undisturbed =>
    \A i \in Ids : view[i].content.by = Me =>
      \E shapes \in {room} \cup {m.snapshot.shapes : m \in Saves}
                    \cup {s.shapes : s \in {queued} \ {NoSnapshot}} :
        shapes[i].content = view[i].content

\* A queued snapshot of a joined browser is sent: no combination of budget,
\* interval, back-off, errors and resynchronisation leaves it lying.  (Not so
\* when a version mismatch is answered within the send interval: the flush of
\* room_joined does nothing then and no tick is scheduled.)
QueueMoves ==
  (joined /\ queued # NoSnapshot) ~> (queued = NoSnapshot \/ ~joined)
=============================================================================
