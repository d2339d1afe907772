# Canvassync in TLA+

Canvassync is a collaborative whiteboard: browsers edit a room's shapes, several
WebSocket nodes share the room through Redis and RabbitMQ, Postgres keeps it, and an
HTTP backend serves accounts, rooms, history, slides, public links and AI jobs. This
directory specifies how the parts work together, model-checks the specifications with
TLC and proves the main theorems with TLAPS.

Contents: [the system](#the-system) · [modules](#modules) · [runs](#runs) ·
[fairness](#fairness) · [proofs](#proofs) ·
[where the code departs](#where-the-code-departs-from-its-documents) ·
[what is left out](#what-is-left-out) · [plan](#plan)

## The system

| Part | State it keeps | Operations | Where | Module |
|---|---|---|---|---|
| Shape merge | shapes and tombstones, each with a logical clock and an author | merge a snapshot | `packages/common/src/canvas-crdt.ts` | `CanvasCrdt`, `CrdtReplicas` |
| Room synchronisation | Redis: version key, snapshot, WATCHes; per node: room cache, tombstones, seen events | join, snapshot, commit, cross-node event, restart | `apps/ws-backend/src`, `packages/redis-sync` | `RoomSync`, `RoomRegister` |
| Room persistence | pending shapes and timers per node, job queue, Postgres rows | enqueue, consume, debounce, write | `roomSync.ts`, `packages/queue-sync` | `RoomPersist` |
| Version history | rows of versions, a burst's timer per node, the panel's caches | record, prune, list, preview, play, restore | `roomSync.ts`, `room.controller.ts`, `HistoryPanel.tsx` | `CanvasHistory` |
| Slides | the stored deck, each dialog's deck and debounce | load, change, save, close | `room.controller.ts`, `SlidesModal.tsx` | `SlideDeck` |
| Presence and voice | sockets of a room, participants, presences, the call | join, update, close, remote state | `connectionState.ts`, `messageHandler.ts` | `RoomPresence` |
| Room chat | rows, each page's lists, badges and seen marks | write, check, create, relay, bootstrap | `messageHandler.ts`, `useCanvasChat.ts` | `RoomChat` |
| Browser sync client | in-flight count, queued snapshot, pending remote snapshot, clock | draw, send, ack, reject, hydrate | `useCanvasSync.ts` | `CanvasClient` |
| Durable queues | connections, channels, unacknowledged messages | publish, consume, reconnect | `packages/queue-sync` | `JobQueue` |
| Database breaker | breaker state, probe flag, failure window | request, success, failure, time | `packages/db/src/index.ts` | `DbBreaker` |
| Idempotency | pending and kept answers per key | arrive, finish, hang up, expire, prune | `idempotency.middleware.ts` | `Idempotency` |
| Accounts and sessions | tokens, token version, a page's renewal | sign in, renew, sign out, reset | `auth.controller.ts`, `apiClient.ts` | `Sessions`, `HttpApi` |
| Rooms and access | members, roles, requests, what a socket kept of them | ask, decide, remove, join, edit | `room.controller.ts`, `messageHandler.ts` | `RoomAccess`, `RoomOpen` |
| Public link | the room's token, dialogs, polling pages | enable, rotate, disable, view | `public.controller.ts`, `PublicLinkModal.tsx` | `PublicLink` |
| AI jobs | queue, result entries with a TTL, the page's question | ask, run, report, poll | `apps/ai-worker`, `useAiGeneration.ts` | `AiJobs`, `JobQueue` |
| Canvas engine | shapes, undo and redo, gestures, text session, connectors, diagrams | edit, undo, hydrate, arrange, lay out | `packages/canvas-engine` | `CanvasEditor`, `SheetEdits`, `CanvasSheet`, `CanvasDiagram` |

A browser sends snapshots over its WebSocket; its node merges them into its cached
room and commits the result in Redis; the commit publishes an event that the other
nodes apply to their caches and relay to their browsers. A second copy of the event
and a job that writes the shapes to Postgres go through RabbitMQ. The HTTP backend
works on the same Postgres; its pages call it with a cookie session that it renews,
and may repeat a mutation under a key.

What is hard: handlers of a node interleave at every `await` and share one Redis
connection; nodes race for a room's version; events are lost, repeated and reordered;
processes restart between two steps; two requests read the same row before either
writes it; a page hears a late answer to a question it gave up. `PROJECT.json` lists
these hazards at their lines, with the properties that are about them, and every
component with what is modelled of it.

## Modules

The names of operators and variables are those of the source where TLA+ allows it.
Operators whose comment begins with "(Changed form" are not part of a specification:
they are what a plausible mistake would make of the definition after them, and show
that the properties notice it.

| Module | Models | Uses |
|---|---|---|
| `CanvasCrdt` | the merge of one snapshot, per shape id, as operators | |
| `CrdtReplicas` | replicas that merge snapshots in any order, grouping and repetition | `CanvasCrdt` |
| `RoomSync` | one room: nodes, sockets, Redis, cross-node events, restarts | `CanvasCrdt`; refines `RoomRegister` |
| `RoomRegister` | what a room promises, without nodes, caches or Redis | `CanvasCrdt` |
| `CanvasClient` | the browser's hook `useCanvasSync`, against a server that merges atomically | `CanvasCrdt` |
| `DbBreaker` | the circuit breaker and the retries around every database call of a process | |
| `RoomPersist` | the way of a room's versions to Postgres | |
| `RoomAccess` | requests for access, decisions, memberships, and the role a socket keeps | |
| `PublicLink` | the public link, its dialogs and the pages that show it | |
| `RoomOpen` | opening, creating, loading, saving and renaming rooms by their slugs | |
| `Sessions` | one account's cookies, forms and the renewal of a page | |
| `Idempotency` | the store of repeated mutations | |
| `HttpApi` | the calls that pass both | `Sessions`, `Idempotency` |
| `CanvasHistory` | recording, pruning and looking at the versions of a room | |
| `SlideDeck` | the deck's dialogs and the transactions that save it | |
| `RoomPresence` | who is in a room and in its call, on the nodes and on the pages | |
| `RoomChat` | messages and comments from the writer to everybody's lists and badges | |
| `JobQueue` | one consumer's channel, delivery tags and handlers | |
| `AiJobs` | a page's questions, the entries of their jobs, queue and worker | `JobQueue` |
| `CanvasEditor` | undo, pointers, text session, eraser, hydration of one browser | refines `EditTimeline` |
| `EditTimeline` | what undo and redo promise | |
| `SheetEdits` | where shapes come to lie under gestures and page commands | `ShapeGeometry` |
| `CanvasSheet` | the same sheet, tidied by the layered layout and with diagrams inserted | `SheetEdits`, `CanvasDiagram` |
| `CanvasDiagram` | Mermaid and AI specifications to shapes and back | `DiagramLayout` |
| `DiagramLayout` | the layered layout | `ShapeGeometry` |
| `ShapeGeometry` | boxes, hits, resizing, routes | |
| `MC_*` | the instances TLC checks | |
| `CanvasCrdt_proofs`, `RoomSync_proofs`, `CanvasClient_proofs`, `RoomAccess_proofs` | theorems about the module they are named after; the last also about `PublicLink`, `RoomChat` and `RoomOpen` | |
| `Canvas_proofs` | theorems about `CrdtReplicas` and `SheetEdits` | |
| `Database_proofs` | theorems about `DbBreaker` and `RoomPersist` | |
| `HttpApi_proofs` | theorems about `HttpApi`, `CanvasHistory` and `SlideDeck` | |
| `Pages_proofs` | theorems about `RoomPresence`, `AiJobs` and `CanvasEditor` | |

### The room: `CanvasCrdt`, `RoomSync`, `RoomPersist`, `CanvasClient`

**`CanvasCrdt`.** `mergeCanvasCrdtSnapshot` treats each id on its own, so it is defined
on one cell, the shape and the tombstone of an id: `DeleteCell` is one round of the
loop over the deletions, `WriteCell` one of the loop over the incoming shapes. A
shape's drawing attributes are abstracted to the metadata of the write (clock and
author), because every changed shape is stamped with a fresh clock. `Absent` is the
missing map entry, below all metadata, which makes `!existing || newerOrEqual(...)`
one comparison, `AtMost`. Authors are numbered in `localeCompare` order.

**`RoomSync`.** An action is what a handler does between two awaits with the Redis
command it sends. `Join`, `ReceiveSnapshot` start a handler (`pc` says which await it
is at); `ReadVersion`, `ReadSnapshot` or `MissSnapshot`, `RereadVersion`, `ReadDb` or
`DbFails`, `Seed` are `initializeRoomSync`; `Watch`, `GetVersion`, `Unwatch`,
`ExecCommit` or `ExecAbort` are `commitRoomSnapshot`; `FinishCommit` is what follows
EXEC's reply. `ApplyRoomEvent` is `applyCrossNodeRoomEvent`, `ForgetEvent` the expiry
of the deduplication entry, `Restart` a new process, `Reconnect` the loss of the Redis
connection. All handlers of a node share one connection and Redis keeps the WATCH per
connection, so `watch[n]` belongs to the node: this is what makes one handler able to
end the WATCH of another. Redis knows the room at the start, or not yet (`Init`); `Room`
is what a reader of the room gets, the snapshot in Redis or else the shapes of Postgres.
`Record` keeps three history variables that no action reads: `unwatched`, the handlers
between WATCH and EXEC whose connection has lost its WATCH, to another handler of the node
or with the connection; `overwritten`, that one of them made its EXEC; `reseeded`, that a
node missed the snapshot in a room that was committed to meanwhile and seeded it from
Postgres. These are the only ways in which the protocol fails the room, and the properties
say what holds of everything else. A socket handles one message at a time, as its
`messageQueue` does; a socket that closes while its handler runs is represented by one
that stays; events once published may be received any number of times in any order,
which covers Pub/Sub, the RabbitMQ copy and their losses; Postgres holds the initial
shapes or those of some event.

**`RoomPersist`.** A row of the Shape table is named by its shape, its value is the
version that wrote it. `Enqueue`, `Publish`, `PublishFails`, `CoolDown` are
`enqueueRoomPersist`; `TimerFires` is the debounced fallback; `Deliver` and the
transaction (`DeleteMany`, `CommitTx`) with `Finish`, `Retry` and `Fail` are the
consumer's call of `persistShapes`. `sees` keeps the rows a transaction's `deleteMany`
saw at READ COMMITTED. The queue is a set of versions, because delivery order among
several consumers is not guaranteed and a redelivered job is the same job.

**`DbBreaker`.** A call asks the breaker when it starts (`RequestClosed`,
`RequestAfterCooling`, `RequestHalfOpen`) and reports when it ends (`Succeed`,
`FailHard`, `FailTransient`), possibly in another phase, and `probe[c]` is what it was
when it started (`wasHalfOpenRequest`). Time is in ticks: `cool` is how long the
breaker stays open yet and a failure's timestamp is its age, so nothing grows without
bound. Which error is transient is a choice of the outcome, and `calm` says that the
database works.

**`CanvasClient`.** One page's life. A shape is its content and its metadata: only the
reconciled snapshot is stamped, so the shapes of CanvasState keep the metadata of the
last hydration beside content that is newer. `Write` and `Remove` are a local change
(also by undo and redo) with `sendCanvasSnapshot`; `Flush` is `flushQueuedSnapshot`,
`Tick` the animation frame of `scheduleSnapshotFlush`; `ApplyRemote` is
`applyLatestRemoteSnapshot`; `Receive...` are the message handlers; `...Over` is the
passing of the send interval, the idle grace, the burst window and the back-off;
`Open`, `Close`, `Leave` are the socket and the effect's cleanup. `AdmitJoin`,
`RefuseJoin`, `CommitSnapshot`, `RejectSnapshot` are the server, as atomic as
`RoomRegister` promises, and `OtherCommits` is somebody else's commit with its
broadcast. Handlers run to completion, so the flag that suppresses the subscriber
during a hydration is never seen set; the optimistic version the client sends is left
out, since no server code reads it; the hook does not reconnect.

### Coming to a room: `RoomAccess`, `PublicLink`, `RoomOpen`

**`RoomAccess`.** One person with several pages and sockets, and an owner with several
calls under way; rows of different people never meet. A handler is cut at its
queries: `AskMember`, `AskRequest`, `AskWrite` are `requestRoomAccess`; `Examine`,
`UpdateRequest`, `CommitDecision`, `Rollback` the decision, whose check is outside its
transaction; `DeleteMember`, `CommitRemoval` the removal; `JoinQuery`, `Joined`,
`EditQuery`, `EditAnswered` what a socket reads of the role and keeps for `Recheck`.
Transactions lock the rows they write and show them at their commit. `Tick` ages what
has an age, and no query takes longer than `MaxLatency`.

**`PublicLink`.** The owner's dialogs read the room and then write a token, drawn
fresh; the viewers' pages find the room by their token and then read its board, and
poll. `Lasting` says which tokens never ended.

**`RoomOpen`.** A page looks the slug up (`Lookup`), creates the room
(`CreateRoom`), goes to the canonical address (`Resolve`), and reads the shapes page
by page with a cursor on a creation time that all rows of a save share (`ReadPage`);
`SaveCanvas`, `ReloadCanvas`, `Rename` are the toolbar and the list of rooms.

### The HTTP backend: `Sessions`, `Idempotency`, `HttpApi`, `CanvasHistory`, `SlideDeck`

**`Sessions`.** A session is a pair of cookies that carry the user's `tokenVersion`.
A cookie lives as long as its token, so an expired token is one that is no longer in
the jar. Forms (`Submit`, `IssueCurrent`, `ResetWrite`, `FormAnswered`) read the user
and answer later; a call is sent, admitted or refused, waits for the one renewal of
its page (`Intercept`, `Renew`, `RenewFails`, `Renewed`) and is sent once more, or fails
with the renewal. `Watch` remembers
whether an event that excuses a failed call happened while it was under way.

**`Idempotency`.** The store's entries are pending or kept. `Arrive` is the middleware
up to `next()` or the wait for another call, `Write` and `Finish` the handler, `Fail`
its error, `HangUp` the client's disconnection, `LoseEnd` a response that ends without
finishing, `ExpireEntry` and `Pruned` the end of an entry.

**`HttpApi`** puts the two behind each other, as `room.routes.ts` does: what the
session admits arrives at the store, and what the store answers is told to the page.

**`CanvasHistory`.** `Persisted` is `recordCanvasVersion` (at once, or scheduled for
the end of the burst), `TimerFires`, `Create`, `ListStale`, `DeleteStale` its queries.
The panel opens, lists, fetches, plays, exports and restores; a fetch that was
overtaken is cancelled. The versions are a set of rows with increasing ids; `Behind`
counts those newer than one.

**`SlideDeck`.** `Change` starts the debounce, `SaveTimerFires` and `CloseDeck` send
the deck; a save is `SeeRows`, `DeleteRows`, `InsertRows` at READ COMMITTED, so
overlapping saves leave both decks. `mixed` notes when the code gives up the deck that was
changed last (`newest`): two saves overlapped or one failed, or a dialog changed a deck that
was not the newest.

### On the pages: `RoomPresence`, `RoomChat`, `AiJobs`

**`RoomPresence`.** `Join` is `join_room` after its awaits, `UpdatePresence`,
`UpdateVoice` the other messages, `CloseJoined`, `CloseUnjoined` the close handler,
`Fire` the debounced broadcast, `ReceiveState`, `ReceiveVoice` the subscription,
`Restart` a process. A presence is the user's selection, and `view` and `heard` are what
the pages show. A socket joins once. The number of users that a broadcast carries, of its
own node or with the sender's added, is not modelled.

**`RoomChat`.** A message is named by its place in the table; `Content` says whom it
is for. `Check`, `Row`, `Create` are the queries of `send_chat_message`, `Broadcast`
and `Relay` the two ways to the pages; `ReadBootstrap`, `Bootstrapped`, `Hear`,
`Turn`, `Reload` are the page.

**`JobQueue`, `AiJobs`.** A handler knows the tag and the channel it was given, and
acknowledges with the tag on the channel there is by then: `Acknowledge` answers
whichever delivery of the present channel has that tag, `AcknowledgeFails` ends the
process as an error without a listener does. `AiJobs` adds the question of the page,
the entry in Redis that expires, and the worker, which reports a result, and an error
when the report fails. `Generate` and `Ask` look at `isGenerating` of their own render; an
image is chosen first (`ImageChosen`) and its question opened when it was prepared
(`ImageReady`), whatever is open by then, which `overlapped` notes. `receiveAiResult` reads
the entry and sets it later: `Found` is the read, which makes a post, and `Receive` the
write, with the worker's handler going on or long gone (`Late`).

### In the browser: `CanvasEditor`, `SheetEdits`, `CanvasSheet`, `CanvasDiagram`

**`CanvasEditor`** has who may do what and when: a shape is who gave it its look last
and the one link it has (a text's parent, a connector's binding). Gestures begin,
move and end with any of the pointers; the text editor opens and commits; the page
sets shapes of its own; remote snapshots are hydrated between any two events. Its
undo and redo stacks refine `EditTimeline`.

**`SheetEdits`** has where shapes come to lie, in whole multiples of 1/8 pixel: the
gestures of the select tool, drawing, align, distribute, attach labels, and tidy for any
places given to the nodes. **`CanvasSheet`** tidies with the places of the layered layout
and inserts diagrams. **`CanvasDiagram`** is the parser and the export of Mermaid on
parsed lines, and the specification of the AI; **`DiagramLayout`** the layered layout;
**`ShapeGeometry`** boxes, handles, hits and connector routes. The first and the last
do not recurse and are reasoned about; the other three walk graphs with `RECURSIVE`
operators and are only model-checked.

## Runs

All twelve runs pass.

| Run | Instance | States | Shows |
|---|---|---|---|
| `crdt_replicas` | two replicas, one id, every write or deletion with clocks 0 and 1 of two authors | 65 536 | convergence and no resurrection, whatever order, grouping and repetition |
| `roomsync_shared` | two clients of one node and one of another, a room Redis knows or not, three snapshots of which two are sent, one restart or lost connection, events in any order | 1 566 153 | until a commit without its WATCH or a late seed, version and snapshot agree and nothing is lost; and the room is the register but for those two |
| `roomsync_answered` | two clients on two nodes with one snapshot each, a room Redis knows or not, a failing query, one lost connection | 134 620 | every join and snapshot is answered |
| `breaker` | three callers, threshold two, two probes, two attempts | 41 920 | the gate has an owner and the breaker recovers |
| `persist` | two nodes, two versions, two jobs at a time, one failure, one restart | 54 979 | no accepted job is lost, and every version that was queued or given to the fallback is persisted or superseded |
| `client` | two shape ids, two edits, one commit of another user, one error or reload, leaving or losing the connection anywhere | 559 143 | nothing is erased, stamps are new, writes are kept, the queue moves |
| `room_access` | two pages and two calls of the owner, one socket; or two dialogs and a viewer; or two pages that open rooms | 1 431 807 | approvals and removals hold, revocation is bounded, links end and last, pages open the room they name |
| `http` | two calls with one key on one of two devices; or two nodes with three saves and a panel; or two dialogs with two changes | 1 876 012 | sessions, repeated mutations, history and slides |
| `presence` | two nodes, a user with two tabs and another, one speaker, one who selects | 1 333 136 | counts, views and the call |
| `chat` | three users on two nodes, two messages of four contents, one trouble | 739 541 | private stays private, lists catch up, badges are exact |
| `ai_jobs` | two questions, of which any with an image, prefetch two, one fault, two polls each | 722 727 | answers are true, jobs are kept, questions settle |
| `editor` | a box, a text and two fingers; or three sheets with three steps, two AI answers and two charts | 389 506 | undo, remote edits, labels, connectors and layouts |

The properties:

- `crdt_replicas`: `Convergence` (replicas that received the same hold the same),
  `NoResurrection` (no shape at least as old as a known deletion).
- `roomsync_*`: `KeysAgree` (the version in the snapshot is the version key),
  `UpdatesKept` (no committed shape is lost), `ImplementsRegister` (each step of the keys is
  an atomic commit built on the room's last state), all three but for a commit without its
  WATCH and what follows a late seed; `Answered`.
- `breaker`: `GateOwned` (whenever the half-open flag rejects calls, a probe runs whose
  end clears it), `Recovers`. `persist`: `JobsKept`, `Drained`.
- `client`: `NothingErased` (no shape is announced deleted that no user removed),
  `NextStampIsNewest`, `WritesKept` (of undisturbed browsers), `QueueMoves`.
- `room_access`: `ApprovedIsMember`, `RemovalWins`, `RevokedWithinBound`, `LinkHolds`,
  `OpensTheRoom`.
- `http`: `CurrentPassword` (no session that counts began with a replaced password),
  `StaysSignedIn` (a call of a session that counts fails only if the database failed its
  second try, or the renewal it waited for failed on the network or in the server; not
  because many calls found the access token gone at once, nor for an earlier renewal),
  `NoneLeftWaiting`, `RepeatsAreSafe` (two calls of a key both write only if an entry was
  given up; answers are real), `HistoryKept` (pruning keeps the newest, the last of a burst
  is recorded, and the panel shows the version that is selected once its fetch ended well;
  while it is pending or failed, the version before is still shown and can be restored),
  `DeckSaved` (the stored deck is the one that was changed last, also when dialogs close
  before their debounce, while no save fails, no two saves overlap and no dialog changes a
  deck that is not the newest).
- `presence`: `MembersCounted` (counts are the sockets), `ViewsCurrent` (the debounce
  never drops the last change), `CallKnown` (pages know the call as their node does).
- `chat`: `PrivateStaysPrivate`, `CaughtUp`, `UnreadIsExact`.
- `ai_jobs`: `AnswerIsTrue` (a job's shapes are on the canvas once when the page says so
  and never when it says the question failed; `isGenerating` is set only while a question
  is open; one question at a time, but for an image), `JobsKept`, `QuestionsSettle`.
- `editor`: `RemoteKept` (others' shapes survive undo and gestures), `Timeline`
  (refinement of `EditTimeline`), `Attached` (bound ends are where their shapes are),
  `LabelsRide` (a label keeps its place in its box, or on its stroke), `LaidOut`,
  `DiagramKept` (a specification or a chart comes back from its shapes). Of an inserted
  specification or chart, that no two *nodes* overlap; the labels of edges may.

### Why the bounds are enough

The merge is per id and a replica's cell depends on at most the newest write and the
newest deletion, so two clocks and two authors give every comparison, ties included.
A race for the version needs two nodes; a merge base that is stale needs one commit
between the read and the EXEC, and a lost shape needs a third snapshot, which
`roomsync_shared` has to choose from (change, draw, delete). One handler can end the
WATCH of another only on a shared connection, so two of its sockets are on one node; the
third is the node they race with. One fault happens in a behaviour, a restart of the
second node or a lost connection of either, between any two steps; with both nodes
restarting the run has 3 466 000 states and passes. In this run a socket joins once
(`JoinsAgain`); in `roomsync_answered` it may join again. The `VIEW` of the run leaves out
what a handler will write before it reads it again, and the acknowledgements, which none
of the run's properties reads. Three callers are the least with which a call from a
closed phase, the probe of one half-open phase and the probe of the next are alive
together. Two versions and two consumers give every order of two transactions. Two
edits with a budget of one (two in a burst) fill the budget, the queue and the place
behind it; errors and reloads share one bound, so each falls at every point, but not
two of them in one behaviour.

Two calls of the owner race for one request, and two request ids let a decision about
an old request meet a removal and a new one. Two tokens are a link and its successor.
Two calls of a page share a renewal; a second device replaces the password meanwhile.
When a behaviour begins the access tokens have expired, and a user who exists has been sent
a reset link, which only adds steps; with fresh tokens and no link as well, and without the
`VIEW`, which leaves out what nothing reads of a call that ended, the run has 4.7 million
states and passes.
Three saves with two kept versions prune across two nodes. Two dialogs overlap two
saves of the deck. In presence, the tabs of one user sit on one node or on two; only
one socket speaks and one selects, because the call and the selections do not meet.
Two messages order a comment, a direct message and a group message in every pair. In
the AI run a fault may fall between a delivery and its acknowledgement, and the tag
numbers of the old and the new channel overlap. Two handlers are under way at once, those
of a lost channel among them (`MaxRunning`), and a post does not outlive its handler
(`Outlives`); with three handlers the safety properties hold of 1.6 million states, and with
posts that go on after the worker gave them up, one at a time, of 4.4 million.

`MC_RoomAccess`, `MC_HttpApi` and `MC_CanvasEditor` join parts that share no state: a
behaviour is a session of one part and the others stand still, so the states are those
of the parts added up. One event is allowed on the link and on opening (`MaxEvents`).
A mouse that hovers (`Hovering`) is left out of `CanvasEditor.cfg`; with it the run has
1.5 million states and passes. Symmetry is used only where all properties of the run
are invariants or stuttering-closed refinements that treat the members alike: the
pages and calls, the passwords, nodes and dialogs, the nodes of presence, the fingers.
Where a bound matters beyond this, the theorems hold for all values.

`CHECK_DEADLOCK FALSE` stands where the system really stops: `RoomPersist` when the
last version is in Postgres, `CanvasClient` when the page is left and the server has
read everything, `RoomAccess`, `HttpApi`, `RoomPresence`, `RoomChat` and `AiJobs` when
their bounded pages, messages, questions and faults are used up and nothing is under
way. The other systems never stop.

## Fairness

- `RoomSync!FairSpec`: weak fairness of each handler's next step. Redis and Postgres
  answer or fail, and the event loop runs the continuation; nobody has to join, draw,
  restart or deliver an event.
- `DbBreaker!FairBreakerSpec`: callers come again (weak fairness of some request),
  every operation ends (the driver and its pool time out), time passes. The database
  need not recover: `Recovers` says what follows if it does.
- `RoomPersist!FairSpec`: the timer fires, RabbitMQ confirms or refuses and delivers,
  each transaction goes on. Failures and restarts are bounded and not fair: they may
  never happen.
- `CanvasClient!Spec`: the server answers (which `Answered` shows of `RoomSync`),
  messages of an open socket arrive, timers fire and a visible page gets its animation
  frames. Users, other users and mishaps are not fair. A round trip is not shorter
  than the send interval (`RoundTripIsShort = FALSE`); see below.
- `AiJobs!AiSpec`: the answer to a question's POST arrives or the request fails, and
  so does every poll, whose timer fires. Nothing is assumed of RabbitMQ or the worker.

The other specifications state no fairness: only their safety is checked.

## Proofs

All theorems hold for every value of the constants that satisfies the named
assumptions of the modules. They are invariants, action properties and two refinements,
`RoomSync` of `RoomRegister` and `CanvasEditor` of `EditTimeline`. The proofs are laid
out alike: a lemma per operator that several steps use, one lemma per invariant with a
step per action, and a temporal theorem that joins them. Where a fact about data needs
induction (what a recursive function computes, that a finite set has a maximum), it is
proved by a minimal counterexample: the library's `WFMin` for a well-founded order,
`<` on the numbers (`NoLeast`) or strict inclusion.

- **Order and merge** (`CanvasCrdt_proofs`). `AtMost` is a total order on metadata;
  what a merged cell keeps (`MergeCellFacts`), and that a deletion it knows never
  matches the shape it shows (`MergeCellDeleted`).
- **`Canvas_proofs`.** Of the replicas: `CellInv` is inductive: each cell holds a shape
  or a tombstone, covers every write and deletion received, and is one of them. So it is
  the maximum of what was received, up to the tie between a write and a deletion with
  equal metadata, which the deletion wins. `Converges`, `DeletionsHold` and
  `MergesGoForward` follow.
  Of the sheet: `Attached` by `EditInv`. Beside it this says that the sheet is as
  `normalizeShapes` leaves it (`Normal`), that every bound end has its shape, also of
  the connectors a page command left behind (`EndsHeld`), and that a gesture holds a
  shape that is or was on the sheet (`HoldTyped`). Every write of the store
  (`StoreWrites`) puts all ends where they belong; `normalizeShapes` then moves a box
  side by at most a pixel, and with it a place in the box by at most one (`NearPlaces`,
  about `PointIn` in whole numbers), and gives a connector without length one more. A
  page command (`PageWrites`) leaves a connector where it was, with its boxes
  (`Rests`), routes it anew, or counts it as `loose`. Tidy is taken with the connected
  nodes put at *any* places in any ranks (`AnyTidy`), of which the layered layout is
  one. Assumed is a pixel of at least one unit (`PxAssumption`), and that the sheets to
  begin with are normal, with their ends attached (`SheetEditsAssumption`), which TLC
  evaluates on the sheets of the `editor` run.
  `LabelsRide` follows from the same invariant, one lemma per way to move a shape
  (`DragKeepsLabels`, `MultiKeepsLabels`, `AlignKeepsLabels`, `DistributeKeepsLabels`,
  `TidyKeepsLabels`): a label and its shape are moved by one step
  (`TranslatedTogether`), or the label is carried from the old box to the new one, of
  one size, by as much (`CarriedTogether`), or neither moves (`StayedTogether`); the
  clean-up after the step leaves both where they are (`TogetherKept`).
- **`RoomSync_proofs`.** For any nodes and sockets, however many of them on one node, a
  room Redis knows or not, restarts and lost connections, and without assumptions on the
  constants: `TypeCorrect`, `RoomIsCoherent`, `RoomImplementsRegister`,
  `VersionGoesForward`, `NothingLost`, `VersionsAreUnique`. The inductive invariant
  `Coherence` says that whatever a cache, an event or a handler believes *about the current
  version* is true; beliefs about older versions may be wrong, because GET and WATCH stop
  the commit. It holds until a late seed. A commit without its WATCH does not disturb it:
  it makes a new version, about which nobody believes anything; what it breaks is the
  agreement of the two keys and the shapes it overwrites. On a cold start several nodes may
  seed, but until the first commit all seed the same (`FirstVersion`). `NothingLost` needs
  `Retained` beside it: every committed write is in the room, or covered by a deletion
  somebody asked for, and so is every write a handler is about to commit over.
  `VersionsAreUnique` needs `Issued`: the versions acknowledged and those between EXEC and
  its reply are distinct and not above the key. Both hold until an overwriting commit or a
  late seed. `VersionGoesForward` has one exception only: `setRoomSnapshot` of a room that
  was committed to can put the version back, and no commit can, whoever ended its WATCH.
- **`CanvasClient_proofs`.** Types; `OnlyRemovedShapesVanish` by `ErasureInv`: the copy
  the canvas is compared with never has a shape the canvas lacks, so only `Remove`
  produces deletions, and every deletion queued, sent or kept by the server names a
  shape a user removed; `StampsAreNewest`, which is inductive: what is hydrated or
  noted is observed first, and reconciled stamps come from the clock they move.
  `UndisturbedWritesAreKept` by `WriteInv`: an undisturbed page waits for its first
  snapshot (`Waiting`), was left before that came (`Unread`), follows (`Following`), or
  was left and the server has read everything or never knew it (`Gone`). A page that
  follows compares its canvas with a copy that is queued, was sent last or is committed
  (`LastIsNewest`) and that outranks all the server holds and will merge before it
  (`Ranked`), so the merge of the last snapshot is what the user drew.
- **`Database_proofs`.** Of the breaker: types, `GateIsOwned` (a set flag always has a
  running probe, since every step that ends the probe or leaves half-open clears it)
  and `ClosedIsBelow`. Of persistence: types; `PersistInv` strengthens `JobsKept` by
  "what a consumer noted as persisted was written" and "a transaction past its commit
  was written"; without it a job skipped as old could be the newest (`NoJobLost`).
- **`RoomAccess_proofs`.** Types, then `ApprovedIsAlwaysMember`: a request is approved
  only by a transaction that also writes the member, and a member goes only with its
  request; the strengthening says which rows each open transaction has locked, so no
  other can have changed them. `RemovalAlwaysWins` needs `RequestsAreNumbered`: a
  decision in flight names a request id not above the current one, and one about the
  current id after a removal is not about a row the removal replaced.
  `RevocationIsBounded` by `RolesAreRecent`: whatever role a socket holds was true at
  a moment no longer ago than the recheck period and a query. `LinkAlwaysHolds` by
  `LinkIsKnown`: tokens are drawn once, so the token a request carries or has found is
  the current one or has ended, and a board is shown only by a request that found it.
  Of the chat: `ChatInv` is the types and four facts. Whatever a page holds or will hear
  is a message it may read (`SecretsKept`); what a handler has created and not sent is
  its user's (`CreatedOwn`); what a page that was there misses is on its way to it, in
  the bootstrap or the broadcast, or was lost between the nodes (`NothingMissed`); the
  mark stored for a tab is the highest message read in it (`MarksTrue`). From it
  `SecretsAreKept`, `PagesCatchUp` and `BadgesAreExact`. That a finite set of numbers
  has a maximum (`MaxFacts`) is such a minimal counterexample.
  Of opening a room: `OpenInv` says that slugs are unique and that wherever a page is
  in the opening its room is there (`Placed`), whatever the shapes are: their types say
  only that they are in some set, which a step may widen. `PagesMeet` follows, the half
  of `OpensTheRoom` about the room; `OpeningsLoad` is all of it. Its second half needs
  `LoadInv`: no version of a room has a shape twice (`Known`; shapes are numbered as
  they are drawn), and what a page has read so far consists of shapes of the versions
  since its load began and begins with the first page of one of them (`LoadReads`).
  A first page begins as the rows do (`PageFacts`), pages read later are put behind it,
  and leaving out repetitions keeps a beginning that has none (`UnrepeatedFacts`).
  The toolbar's reload is one request, so it needs `PageSize <= DefaultPage`
  (500 in `page.tsx:1598`, 2000 in `room.controller.ts:234`).
- **`HttpApi_proofs`.** Four inductive invariants, of parts that share nothing but the
  calls. `SessionInv`: tokens are sound (`TokensSound`: a token of the account's
  version was begun with its password), forms in flight do not undo each other
  (`FormsApart`), a session that ended has an excuse (`OverIsExcused`), a renewal under
  way will serve those who wait (`RenewalsServe`), who waits for one that failed on the
  network or in the server is excused (`BrokenExcuses`), and so is who was refused twice
  (`SecondTries`). From it `OldPasswordsEnd`, `PagesStaySignedIn` and half of
  `NobodyWaitsInVain`. `StoreInv`: keys and entries belong to the calls that run
  (`EntriesOwned`, `RunnersOwn`), whoever waits is served (`WaitersServed`), answers
  are real; `RepeatsAlwaysSafe` and the other half. `HistoryInv`: what each node
  recorded and is about to delete (`VersionsHeld`: a version picked as stale stays
  stale, since newer ones are only added), the last state of a burst (`LastIsKept`),
  and what the panel knows and follows; `HistoryIsKept`. `DeckInv`: while no saves overlap
  or fail and only the newest deck is changed, the rows are those of the one save that ran,
  and the last change is on its way, in a dialog or stored; `DeckIsSaved`.
- **`Pages_proofs`.** Of presence: `PresenceInv` is the types and `SocketsKnown`, that a
  socket joins once, is in the room of its own node only and stays there while it is
  open; without it a second join would be counted twice and a page could hear of two
  nodes. `MembersAreCounted`, `ViewsAreCurrent` and `CallIsKnown` are inductive beside
  it, the last as `CallInv`: who listens knows the call, who does not knows none of it.
  Of the AI's questions: `QuestionsInv`, whose strengthening `TagsOwned` says that
  while the connection holds a handler's tag is of its own delivery; then
  `AnswersAreTrue` and `NoQuestionLost`.
  Of the editor: each of its actions changes the document in one of five ways
  (`Changes`): not at all, as an edit, a load, an undo or a redo (`EditorSteps`).
  `EditorTypeCorrect` and `RemoteIsKept` are inductive over these five, and so is the
  refinement `EditorKeepsTimeline`: the timeline is what was done, what is, and what was
  undone last first (`Line`), and the cursor stands at what is.

**Only model-checked.** Liveness (`Answered`, `Recovers`, `Drained`, `QueueMoves`,
`QuestionsSettle`) needs fairness and `ENABLED`, which the prover does not reach.
`CanvasSheet`, `CanvasDiagram` and `DiagramLayout` walk graphs with `RECURSIVE`
operators, which take the SMT prover away, so `LaidOut` and `DiagramKept` stay with TLC,
and so do `Attached` and `LabelsRide` when diagrams are inserted and that the layout
gives every connected node a place in whole numbers.

`LabelsRide` speaks of labels on boxes and strokes. A label on a connector
(events.ts:838 gives one any parent but a text) is moved with the connector, but a
connector whose *ends* move with their boxes is set between them after
`syncTextChildrenToParent` has run, and its label stays where it was.

## Where the code departs from its documents

Each of the following is a counterexample that TLC finds by hand: take the named
configuration, change what is said, and check the property alone.

| Property | Configuration | The disagreement |
|---|---|---|
| `VersionMatchesSnapshot` | `RoomSync_shared.cfg` | Commits are said to be atomic in Redis; two clients of one node share a connection, and one EXEC ends the WATCH of the other: the version key runs ahead of the snapshot. |
| `NoLostUpdate` | `RoomSync_shared.cfg` | The same commit overwrites another node's shapes. So does one whose connection was replaced between WATCH and EXEC (`Reconnect`). |
| `VersionForward` | `RoomSync_shared.cfg` | The version is said to be monotonic; `setRoomSnapshot` of the slower of two nodes that initialise a cold room puts it back. |
| `NoOlderBroadcast` | `RoomSync_shared.cfg` | A node is said to broadcast only what is newer than its own state; the `canvas_snapshot` handler does not compare. |
| `OneProbe` | `DbBreaker.cfg` under `BreakerSpec` | One probe at a time; a call that started before the breaker opened clears the running probe's flag when it ends in the half-open phase. |
| `WholeRoom` | `RoomPersist.cfg` under `Spec` with `MaxVersion = 3`, `Rooms <- Session`, no failures and restarts | Persistence is said to replace the whole room; two overlapping jobs leave a mixture of both versions. |
| `QueueMoves` | `CanvasClient.cfg` with `RoundTripIsShort = TRUE`, `MaxEdits = 1`, `MaxRemotes = 0` | A rejected snapshot is said to be sent again when `room_joined` arrives; within the send interval nothing is sent and nothing scheduled. |
| `ResultsShown` | `AiJobs.cfg` with `Jobs = {1}` | Polling is called bulletproof; one failed poll, or the last one before the answer, gives up a question whose result is there. |
| `LeaversGone` | `RoomPresence.cfg` with `Speakers = {s1, s2}`, `Selectors = {s3}` | On disconnect the user is said to be removed from the list; a socket that joins after it closed stays, and a remote merge brings back who left. |

Seen while modelling, without a configuration of its own:

- **Client.** A deletion that only an overwritten or discarded queued snapshot names is
  lost, so the shape comes back (also on leaving the page). Stale metadata in
  CanvasState makes the canvas fall back to an older own edit when a remote snapshot is
  hydrated while edits wait. After an acknowledgement a deferred broadcast that is older
  replaces the canvas until the next one. `room_joined` puts a waiting snapshot back
  over the server's shapes. An edit made before `room_joined` is stamped from clock
  zero. A snapshot refused by the rate limit is not queued again. `observeCrdtClock`
  does not look at deletions. `WritesKept` is stated for undisturbed browsers for these
  reasons.
- **Room.** After an overwriting commit or a late seed two clients may be told the same
  version, and two events carry one version with different shapes (`AckedOnce` and
  `EventsAgree` of `RoomSync` fail in `RoomSync_shared.cfg`).
- **Presence.** A socket that joins the room a second time is counted twice and taken off
  once (`connectionState.ts:131-135`). A user with tabs on two nodes vanishes from the first node's list when
  the tab on the second closes; the debounce can be postponed for ever
  (`connectionState.ts:286`); a queued voice message handled after the close leaves a
  ghost in the call (`index.ts:371`, `:407`).
- **Chat.** Equal bodies within two minutes resolve each other
  (`useCanvasChat.ts:84-115`); any error about chat fails every message that is being
  sent (`:269-286`), and the same error twice, or a lost connection, leaves it "sending"
  for ever; a failed bootstrap empties the lists (`:205-212`); what is written between
  the bootstrap's read and the join is missed until a reload; a shape deleted between
  check and create leaves an orphan comment; a late message with a lower id is never
  counted unread; two tabs write the stored seen mark backwards.
- **Access and link.** Two racing decisions both pass the PENDING check
  (`room.controller.ts:1165`); two enables that race from no link give one caller a dead
  token; a poll that found the room before the link ended may still read later shapes.
- **Opening.** All rows of a save share one `createdAt` (`roomSync.ts:163`,
  `room.controller.ts:745`), so the cursor (`:433`) loses everything after the first
  page of 500; a database error answers an empty list with 200 (`:458-485`); the reload
  of the toolbar reads 2000 only.
- **Sessions.** Signing out with an expired access cookie does not move the token
  version (`auth.controller.ts:320-337`); a renewal answered after a sign-out sets the
  cookie again; `authenticate` turns database errors into 401; a renewal that fails on the
  network or with a 5xx fails every call that waits for it with its first 401, although the
  session counts (`apiClient.ts:80-86`); a handle that is taken
  is reported as a user that exists, and two first calls of `ensureUserHandle`
  overwrite each other.
- **Repeated mutations and limits.** A client that hangs up frees its key while the
  handler runs (`idempotency.middleware.ts:329-338`, against
  `docs/codebase-walkthrough.md:67`); the web client sends no key at all; the 429 of the
  HTTP rate limit is swallowed by its own catch (`rate-limit.middleware.ts:92`).
- **History and slides.** Restore is enabled while another version's fetch is pending
  or failed, and restores the preview before (`HistoryPanel.tsx:278-284`, `:384-389`);
  a failed load says "no versions"; overlapping saves merge both decks
  (`room.controller.ts:1243`). A save replaces the whole deck, so edits are lost when a
  dialog that was opened before another's save, or before its own save on closing had
  landed, is changed and saves later, and when a dialog is changed after its load failed,
  which shows an empty deck (`SlidesModal.tsx:67-70`; `loadedRef` is set and never read).
- **AI.** `handleImageChosen` checks `isGenerating`, prepares the image and calls the
  `generate` of the render it began in, whose check is as old (`page.tsx:2245-2254`,
  `useAiGeneration.ts:233`): a second question opens beside an open one, and the first of
  the two to settle clears `isGenerating` while the other is still polled. `AnswerIsTrue`
  excepts this and nothing else (`overlapped`). `receiveAiResult` reads the entry and then
  sets it (`room.controller.ts:1507-1537`), over whatever another post stored or over an
  entry that has expired meanwhile. An acknowledgement uses an old tag on a new channel, or none
  (`queue-sync` `index.ts:415-446`); the timers that subscribe again catch nothing; a
  late answer turns `done` into `error` (`ai-worker` `index.ts:875`).
- **Engine.** A mouse that hovers stays among the active pointers (`events.ts:924`); a
  second finger's release ends the pan of the others (`:1156`); text that was typed is
  dropped when the text tool is used elsewhere; a hydration drops the undo history
  (`state.ts:181`); an AI edit replaces a selection others changed (`page.tsx:2059`).
- **Diagrams.** Tidying a part of a drawing leaves connectors to shapes outside it
  detached until the next store action; aligning and distributing do not reattach
  connectors bound to the label of a moved box (`arrange.ts:29-42`); attaching binds
  ends up to 24 pixels away, labels only those inside; a label that hangs out jumps at
  its box's first drag (`store.ts:273-289`); the export gives coincident connectors one
  label (`mermaid.ts:522-531`); the labels of edges that skip ranks may overlap nodes.

## What is left out

- **Rate limiting**: counters of fixed windows; their refusals are an error that a
  client may get in `CanvasClient` and `RoomChat`.
- **Rendering, metrics, wire types**: output, counters and stateless validation.
- **Of the WebSocket node**: typing indicators, room timers, WebRTC signalling and
  eviction; authentication happens once, when a socket opens, by the test `Sessions`
  has for calls.
- **Of the HTTP backend**: profile fields, e-mail, deleting rooms, routes of single
  shapes, dashboards; one page per device.
- **Of chat**: mentions, limits above the bounds, read receipts on the server; one page
  per user; a page writes each text once; the hook does not reconnect.
- **Of the AI worker**: prompts, providers and retrieval are data.
- **Of the engine**: shortcuts, wheel and viewport; freehand strokes, lines of several
  points and the measuring of text are abstracted. All numbers are finite.
- **Of the queues**: the persist queue's connection; the node queues of room events are
  the unordered events of `RoomSync`.

## Plan

The models cover the parts that keep shared state, and the safety properties of the
runs that the prover reaches have their theorems. What is left:

- `DiagramLayout` with recursive functions instead of `RECURSIVE` operators, so that
  `LaidOut` can be proved for any diagram.
