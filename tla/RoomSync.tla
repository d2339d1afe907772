------------------------------ MODULE RoomSync ------------------------------
(***************************************************************************)
(* The synchronisation of one room: the WebSocket nodes' message handler   *)
(* (apps/ws-backend/src/ws/messageHandler.ts: join_room, canvas_snapshot), *)
(* their room cache (roomSync.ts), the cross-node events (index.ts) and    *)
(* the Redis protocol under them (packages/redis-sync/src/index.ts).       *)
(*                                                                         *)
(* An action is what a node does between two awaits, together with the     *)
(* Redis command it sends, which Redis executes atomically.  All handlers  *)
(* of a node use one Redis connection, `publisher`, and Redis keeps the    *)
(* WATCH of a connection, not of a handler: watch[n] is that state.        *)
(*                                                                         *)
(* Cross-node events travel twice (Redis Pub/Sub and a RabbitMQ queue per  *)
(* node) and may be lost, repeated and reordered: `events` holds all that  *)
(* were published and a node may receive any of them, again once its       *)
(* deduplication entry expired.                                            *)
(***************************************************************************)
EXTENDS CanvasCrdt, FiniteSets

CONSTANTS Nodes,         \* WebSocket server processes
          Sockets,       \* client connections; a socket's messages are
                         \* handled one at a time (messageQueue in index.ts)
          NodeOf,        \* NodeOf[s]: the node socket s is connected to
          MessagesOf,    \* MessagesOf[s]: the snapshots its client may send
          DbShapes,      \* the shapes Postgres holds at the start
          MaxMessages,   \* bound: snapshots received in a behaviour
          MaxFaults,     \* bound: restarts and Redis connections lost
          Restarting,    \* bound: the nodes that may be restarted
          JoinsAgain     \* bound: whether a socket in the room joins again

Snapshots == [writes : Entries, dels : Entries]

ASSUME RoomSyncAssumption ==
  /\ NodeOf \in [Sockets -> Nodes]
  /\ MessagesOf \in [Sockets -> SUBSET Snapshots]
  /\ DbShapes \in Entries
  /\ MaxMessages \in Nat
  /\ MaxFaults \in Nat
  /\ Restarting \subseteq Nodes
  /\ JoinsAgain \in BOOLEAN

VARIABLES
  ver,        \* Redis: canvas:room:version:<id>, 0 when the key is missing
  snap,       \* Redis: canvas:room:snapshot:<id>
  watch,      \* watch[n]: WATCH state of the connection of node n
  events,     \* the canvas_snapshot_broadcast events published so far
  cache,      \* cache[n]: roomSyncState of node n
  tombs,      \* tombs[n]: roomCrdtTombstones of node n
  seen,       \* seen[n]: seenActionIds of node n
  life,       \* life[n]: restarts of n; <<n, life[n]>> is its NODE_ID
  joined,     \* joined[s]: ws.currentRoomId is the room
  pc,         \* pc[s]: the await the handler of s is at
  goal,       \* goal[s]: what the handler does with initializeRoomSync
  msg,        \* msg[s]: the snapshot being handled
  read,       \* read[s]: the version the handler read last
  base,       \* base[s]: currentRoomState.version
  draft,      \* draft[s]: mergeResult.shapes
  attempt,    \* attempt[s]: the loop counter of commitRoomSnapshot
  received,   \* how many snapshots were received
  faults,     \* how many restarts and lost Redis connections
  requested,  \* history: the snapshots received
  committed,  \* history: the snapshots whose EXEC succeeded
  acks,       \* history: the acknowledgements sent
  unwatched,  \* history: the handlers before EXEC whose WATCH was ended
  overwritten,\* history: one of them made its EXEC
  reseeded    \* history: a room that was committed to was seeded from Postgres

redis == <<ver, snap, watch, events>>
node == <<cache, tombs, seen, life>>
handler == <<pc, goal, msg, read, base, draft, attempt, joined>>
history == <<received, faults, requested, committed, acks>>
state == <<redis, node, handler, history>>
mishaps == <<unwatched, overwritten, reseeded>>
vars == <<state, mishaps>>

-----------------------------------------------------------------------------
NoSnapshot == [version |-> -1, shapes |-> NoEntries]   \* key or cache missing
RoomState == [version : Nat \cup {-1}, shapes : Entries]
NodeIds == Nodes \X Nat
Event == [origin : NodeIds, version : Nat, shapes : Entries, dels : Entries]
NoMessage == [writes |-> NoEntries, dels |-> NoEntries]

\* Redis may know the room already, or not yet.
Init ==
  /\ ver = 0
  /\ snap \in {NoSnapshot, [version |-> 0, shapes |-> DbShapes]}
  /\ watch = [n \in Nodes |-> "none"]
  /\ events = {}
  /\ cache = [n \in Nodes |-> NoSnapshot]
  /\ tombs = [n \in Nodes |-> NoEntries]
  /\ seen = [n \in Nodes |-> {}]
  /\ life = [n \in Nodes |-> 0]
  /\ joined = [s \in Sockets |-> FALSE]
  /\ pc = [s \in Sockets |-> "idle"]
  /\ goal = [s \in Sockets |-> "join"]
  /\ msg = [s \in Sockets |-> NoMessage]
  /\ read = [s \in Sockets |-> 0]
  /\ base = [s \in Sockets |-> 0]
  /\ draft = [s \in Sockets |-> NoEntries]
  /\ attempt = [s \in Sockets |-> 0]
  /\ received = 0
  /\ faults = 0
  /\ requested = {}
  /\ committed = {}
  /\ acks = {}
  /\ unwatched = {}
  /\ overwritten = FALSE
  /\ reseeded = FALSE

-----------------------------------------------------------------------------
(***************************************************************************)
(* The handler got its room state st for snapshot m: merge, remember the   *)
(* tombstones (before the commit, whatever becomes of it) and go on to     *)
(* WATCH.                                                                  *)
(***************************************************************************)
BeginCommitOf(s, m, st, merged) ==
  LET n == NodeOf[s] IN
  /\ draft' = [draft EXCEPT ![s] = merged]
  /\ tombs' = [tombs EXCEPT ![n] =
                 MergedTombs(st.shapes, tombs[n], m.dels, m.writes)]
  /\ base' = [base EXCEPT ![s] = st.version]
  /\ attempt' = [attempt EXCEPT ![s] = 0]
  /\ pc' = [pc EXCEPT ![s] = "watch"]

\* (Changed form: the snapshot replaces the room instead of joining it.)
BeginCommitReplace(s, m, st) == BeginCommitOf(s, m, st, m.writes)

BeginCommit(s, m, st) ==
  BeginCommitOf(s, m, st,
    MergedShapes(st.shapes, tombs[NodeOf[s]], m.dels, m.writes))

(***************************************************************************)
(* initializeRoomSync returned st: a join enters the room and answers      *)
(* room_joined, a failed commit answers sync_error and room_joined, a      *)
(* snapshot that found no cached state goes on with its merge.             *)
(***************************************************************************)
RoomReady(s, st) ==
  \/ /\ goal[s] = "join"
     /\ joined' = [joined EXCEPT ![s] = TRUE]
     /\ pc' = [pc EXCEPT ![s] = "idle"]
     /\ UNCHANGED <<tombs, base, draft, attempt>>
  \/ /\ goal[s] = "resync"
     /\ pc' = [pc EXCEPT ![s] = "idle"]
     /\ UNCHANGED <<joined, tombs, base, draft, attempt>>
  \/ /\ goal[s] = "merge"
     /\ BeginCommit(s, msg[s], st)
     /\ UNCHANGED joined

\* join_room after its role check: initializeRoomSync.
Join(s) ==
  /\ pc[s] = "idle"
  /\ joined[s] => JoinsAgain
  /\ pc' = [pc EXCEPT ![s] = "readVersion"]
  /\ goal' = [goal EXCEPT ![s] = "join"]
  /\ UNCHANGED <<redis, node, history, msg, read, base, draft, attempt, joined>>

(***************************************************************************)
(* canvas_snapshot from a socket that is in the room and may edit: merge   *)
(* with the cached state or, if there is none, initialise it first.        *)
(***************************************************************************)
ReceiveSnapshot(s, m) ==
  /\ pc[s] = "idle"
  /\ joined[s]
  /\ received < MaxMessages
  /\ received' = received + 1
  /\ requested' = requested \cup {m}
  /\ msg' = [msg EXCEPT ![s] = m]
  /\ goal' = [goal EXCEPT ![s] = "merge"]
  /\ LET st == cache[NodeOf[s]] IN
     \/ /\ st # NoSnapshot
        /\ BeginCommit(s, m, st)
     \/ /\ st = NoSnapshot
        /\ pc' = [pc EXCEPT ![s] = "readVersion"]
        /\ UNCHANGED <<tombs, base, draft, attempt>>
  /\ UNCHANGED <<redis, cache, seen, life, read, joined, faults, committed, acks>>

-----------------------------------------------------------------------------
(***************************************************************************)
(* initializeRoomSync and getRoomSnapshot.  The version and the snapshot   *)
(* are two GETs, and another connection's EXEC may fall between them.      *)
(***************************************************************************)
ReadVersion(s) ==
  /\ pc[s] = "readVersion"
  /\ read' = [read EXCEPT ![s] = ver]
  /\ pc' = [pc EXCEPT ![s] = "readSnapshot"]
  /\ UNCHANGED <<redis, node, history, goal, msg, base, draft, attempt, joined>>

\* Redis has the snapshot: cache it and use it.
ReadSnapshot(s) ==
  /\ pc[s] = "readSnapshot"
  /\ snap # NoSnapshot
  /\ LET st == [version |-> read[s], shapes |-> snap.shapes] IN
     /\ cache' = [cache EXCEPT ![NodeOf[s]] = st]
     /\ RoomReady(s, st)
  /\ UNCHANGED <<redis, history, seen, life, goal, msg, read>>

\* Redis has no snapshot: getRoomVersion, then the shapes of Postgres.
MissSnapshot(s) ==
  /\ pc[s] = "readSnapshot"
  /\ snap = NoSnapshot
  /\ pc' = [pc EXCEPT ![s] = "rereadVersion"]
  /\ UNCHANGED <<redis, node, history, goal, msg, read, base, draft, attempt, joined>>

RereadVersion(s) ==
  /\ pc[s] = "rereadVersion"
  /\ read' = [read EXCEPT ![s] = ver]
  /\ pc' = [pc EXCEPT ![s] = "readDb"]
  /\ UNCHANGED <<redis, node, history, goal, msg, base, draft, attempt, joined>>

(***************************************************************************)
(* Postgres follows the room with a delay (RoomPersist): it holds the      *)
(* shapes of the start or of some committed snapshot.  The state is cached *)
(* before setRoomSnapshot.                                                 *)
(***************************************************************************)
ReadDb(s) ==
  /\ pc[s] = "readDb"
  /\ \E shapes \in {DbShapes} \cup {e.shapes : e \in events} :
       /\ cache' = [cache EXCEPT ![NodeOf[s]] =
                      [version |-> read[s], shapes |-> shapes]]
       /\ draft' = [draft EXCEPT ![s] = shapes]
  /\ pc' = [pc EXCEPT ![s] = "seed"]
  /\ UNCHANGED <<redis, tombs, seen, life, history, goal, msg, read, base,
                 attempt, joined>>

\* The query fails: join_room and the message queue answer sync_error.
DbFails(s) ==
  /\ pc[s] = "readDb"
  /\ pc' = [pc EXCEPT ![s] = "idle"]
  /\ UNCHANGED <<redis, node, history, goal, msg, read, base, draft, attempt, joined>>

\* (Changed form: no WATCH, a write goes unnoticed.)
AfterWriteUnnoticed(n) == [watch EXCEPT ![n] = "none"]

\* A write of the version key dirties the WATCH of the other connections;
\* EXEC ends the WATCH of its own.
AfterWrite(n) == [k \in Nodes |-> CASE k = n -> "none"
                                    [] k # n /\ watch[k] = "clean" -> "dirty"
                                    [] OTHER -> watch[k]]

(***************************************************************************)
(* setRoomSnapshot: MULTI, SET version, SET snapshot, EXEC.  It checks     *)
(* neither the keys nor the reply; on a dirty connection EXEC does         *)
(* nothing.                                                                *)
(***************************************************************************)
Seed(s) ==
  LET n == NodeOf[s]
      st == [version |-> read[s], shapes |-> draft[s]]
  IN
  /\ pc[s] = "seed"
  /\ \/ /\ watch[n] = "dirty"
        /\ watch' = [watch EXCEPT ![n] = "none"]
        /\ UNCHANGED <<ver, snap>>
     \/ /\ watch[n] # "dirty"
        /\ ver' = read[s]
        /\ snap' = st
        /\ watch' = AfterWrite(n)
  /\ RoomReady(s, st)
  /\ UNCHANGED <<events, cache, seen, life, history, goal, msg, read>>

-----------------------------------------------------------------------------
(***************************************************************************)
(* commitRoomSnapshot: up to three rounds of WATCH, GET, MULTI ... EXEC.   *)
(***************************************************************************)
MaxAttempts == 3

Watch(s) ==
  /\ pc[s] = "watch"
  /\ watch' = [watch EXCEPT ![NodeOf[s]] = IF @ = "none" THEN "clean" ELSE @]
  /\ pc' = [pc EXCEPT ![s] = "get"]
  /\ UNCHANGED <<ver, snap, events, node, history, goal, msg, read, base,
                 draft, attempt, joined>>

GetVersion(s) ==
  /\ pc[s] = "get"
  /\ read' = [read EXCEPT ![s] = ver]
  /\ pc' = [pc EXCEPT ![s] = "check"]
  /\ UNCHANGED <<redis, node, history, goal, msg, base, draft, attempt, joined>>

\* (Changed form: the loop goes on to the next round without counting it.)
UnwatchForever(s) ==
  /\ pc[s] = "check"
  /\ read[s] # base[s]
  /\ watch' = [watch EXCEPT ![NodeOf[s]] = "none"]
  /\ pc' = [pc EXCEPT ![s] = "watch"]
  /\ UNCHANGED <<ver, snap, events, node, history, goal, msg, read, base,
                 draft, attempt, joined>>

\* The room moved on: UNWATCH, return null, and initialise again.
Unwatch(s) ==
  /\ pc[s] = "check"
  /\ read[s] # base[s]
  /\ watch' = [watch EXCEPT ![NodeOf[s]] = "none"]
  /\ pc' = [pc EXCEPT ![s] = "readVersion"]
  /\ goal' = [goal EXCEPT ![s] = "resync"]
  /\ UNCHANGED <<ver, snap, events, node, history, msg, read, base, draft,
                 attempt, joined>>

\* EXEC of a clean connection: INCR, SET and PUBLISH as one step.
ExecStoring(s, stored) ==
  LET n == NodeOf[s] IN
  /\ pc[s] = "check"
  /\ read[s] = base[s]
  /\ watch[n] # "dirty"
  /\ ver' = ver + 1
  /\ snap' = [version |-> stored, shapes |-> draft[s]]
  /\ events' = events \cup
       {[origin |-> <<n, life[n]>>, version |-> read[s] + 1,
         shapes |-> draft[s], dels |-> msg[s].dels]}
  /\ watch' = AfterWrite(n)
  /\ pc' = [pc EXCEPT ![s] = "committed"]
  /\ committed' = committed \cup {msg[s]}
  /\ UNCHANGED <<node, received, faults, requested, acks, goal, msg, read,
                 base, draft, attempt, joined>>

\* (Changed form: the blob is stored with currentVersion.)
ExecCommitOffByOne(s) == ExecStoring(s, read[s])

\* The blob carries nextVersion, which is not what INCR returns but read + 1.
ExecCommit(s) == ExecStoring(s, read[s] + 1)

\* EXEC of a dirty connection returns nil: next round, or give up.
ExecAbort(s) ==
  LET n == NodeOf[s] IN
  /\ pc[s] = "check"
  /\ read[s] = base[s]
  /\ watch[n] = "dirty"
  /\ watch' = [watch EXCEPT ![n] = "none"]
  /\ attempt' = [attempt EXCEPT ![s] = @ + 1]
  /\ IF attempt[s] + 1 < MaxAttempts
     THEN /\ pc' = [pc EXCEPT ![s] = "watch"]
          /\ UNCHANGED goal
     ELSE /\ pc' = [pc EXCEPT ![s] = "readVersion"]
          /\ goal' = [goal EXCEPT ![s] = "resync"]
  /\ UNCHANGED <<ver, snap, events, node, history, msg, read, base, draft, joined>>

\* The handler resumes: cache (whatever the cache holds by now), ack, broadcast.
FinishCaching(s, shapes) ==
  /\ pc[s] = "committed"
  /\ cache' = [cache EXCEPT ![NodeOf[s]] =
                 [version |-> read[s] + 1, shapes |-> shapes]]
  /\ acks' = acks \cup {[socket |-> s, version |-> read[s] + 1]}
  /\ pc' = [pc EXCEPT ![s] = "idle"]
  /\ UNCHANGED <<redis, tombs, seen, life, received, faults, requested,
                 committed, goal, msg, read, base, draft, attempt, joined>>

FinishCommit(s) == FinishCaching(s, draft[s])

-----------------------------------------------------------------------------
(***************************************************************************)
(* applyCrossNodeRoomEvent: a node ignores its own events and those it has *)
(* handled, drops a version it already has, and otherwise takes the        *)
(* event's shapes and tombstones.                                          *)
(***************************************************************************)
ApplyRoomEvent(n, e) ==
  /\ e.origin # <<n, life[n]>>
  /\ e \notin seen[n]
  /\ seen' = [seen EXCEPT ![n] = @ \cup {e}]
  /\ \/ /\ e.version <= cache[n].version
        /\ UNCHANGED <<cache, tombs>>
     \/ /\ e.version > cache[n].version
        /\ cache' = [cache EXCEPT ![n] =
                       [version |-> e.version, shapes |-> e.shapes]]
        /\ tombs' = [tombs EXCEPT ![n] =
                       [i \in Ids |-> IF e.dels[i] # Absent THEN e.dels[i]
                                      ELSE tombs[n][i]]]
  /\ UNCHANGED <<redis, handler, history, life>>

\* The sweep of seenActionIds after ACTION_ID_TTL_MS.
ForgetEvent(n, e) ==
  /\ e \in seen[n]
  /\ seen' = [seen EXCEPT ![n] = @ \ {e}]
  /\ UNCHANGED <<redis, handler, history, cache, tombs, life>>

\* The process dies and is started again, with a new NODE_ID.
Restart(n) ==
  LET lost == {s \in Sockets : NodeOf[s] = n} IN
  /\ n \in Restarting
  /\ faults < MaxFaults
  /\ faults' = faults + 1
  /\ life' = [life EXCEPT ![n] = @ + 1]
  /\ watch' = [watch EXCEPT ![n] = "none"]
  /\ cache' = [cache EXCEPT ![n] = NoSnapshot]
  /\ tombs' = [tombs EXCEPT ![n] = NoEntries]
  /\ seen' = [seen EXCEPT ![n] = {}]
  /\ pc' = [s \in Sockets |-> IF s \in lost THEN "idle" ELSE pc[s]]
  /\ joined' = [s \in Sockets |-> joined[s] /\ s \notin lost]
  /\ UNCHANGED <<ver, snap, events, goal, msg, read, base, draft, attempt,
                 received, requested, committed, acks>>

(***************************************************************************)
(* The Redis connection of n breaks and ioredis opens a new one: there is  *)
(* no limit of retries (maxRetriesPerRequest: null) and no command fails;  *)
(* those not replied to are sent again, an EXEC whose reply was lost too,  *)
(* but not the WATCH.  (A loss that changes nothing is left out.)          *)
(***************************************************************************)
Reconnect(n) ==
  /\ faults < MaxFaults
  /\ faults' = faults + 1
  /\ watch' = [watch EXCEPT ![n] = "none"]
  /\ \E again \in SUBSET {s \in Sockets : NodeOf[s] = n /\ pc[s] = "committed"} :
       /\ again # {} \/ watch[n] # "none"
       /\ pc' = [s \in Sockets |-> IF s \in again THEN "check" ELSE pc[s]]
  /\ UNCHANGED <<ver, snap, events, node, goal, msg, read, base, draft, attempt,
                 joined, received, requested, committed, acks>>

-----------------------------------------------------------------------------
InitializeRoomSync(s) ==
  \/ ReadVersion(s) \/ ReadSnapshot(s) \/ MissSnapshot(s)
  \/ RereadVersion(s) \/ ReadDb(s) \/ DbFails(s) \/ Seed(s)

CommitRoomSnapshot(s) ==
  \/ Watch(s) \/ GetVersion(s) \/ Unwatch(s)
  \/ ExecCommit(s) \/ ExecAbort(s) \/ FinishCommit(s)

HandlerStep(s) == InitializeRoomSync(s) \/ CommitRoomSnapshot(s)

Step ==
  \/ \E s \in Sockets : \/ Join(s)
                        \/ \E m \in MessagesOf[s] : ReceiveSnapshot(s, m)
                        \/ HandlerStep(s)
  \/ \E n \in Nodes : \/ \E e \in events : ApplyRoomEvent(n, e)
                      \/ \E e \in seen[n] : ForgetEvent(n, e)
                      \/ Restart(n)
                      \/ Reconnect(n)

(***************************************************************************)
(* Three history variables record where the protocol does not protect the  *)
(* room; no action reads them.  A handler between WATCH and EXEC is        *)
(* unwatched once its connection has no WATCH any more: another handler of *)
(* the node ended it (EXEC and UNWATCH are of the connection, and so is    *)
(* setRoomSnapshot's EXEC) or the connection is a new one, on which ioredis*)
(* may send the EXEC again.  A later WATCH of another handler does not     *)
(* help: the version may have changed in between.                          *)
(***************************************************************************)
Record ==
  /\ unwatched' = {s \in Sockets : /\ pc'[s] \in {"get", "check"}
                                   /\ \/ s \in unwatched
                                      \/ watch'[NodeOf[s]] = "none"}
  /\ overwritten' = (overwritten \/ \E s \in unwatched : pc'[s] = "committed")
  /\ reseeded' = (\/ reseeded
                  \/ ver > 0 /\ \E s \in Sockets : RereadVersion(s) \/ Seed(s))

Next == Step /\ Record

Spec == Init /\ [][Next]_vars

\* Redis and Postgres answer, and the event loop runs what it is given.
FairSpec == Spec /\ \A s \in Sockets : WF_state(HandlerStep(s))

-----------------------------------------------------------------------------
PcValues == {"idle", "readVersion", "readSnapshot", "rereadVersion", "readDb",
             "seed", "watch", "get", "check", "committed"}

\* Redis, the caches and the handlers hold well-formed states and versions.
TypeOK ==
  /\ ver \in Nat
  /\ snap \in RoomState
  /\ watch \in [Nodes -> {"none", "clean", "dirty"}]
  /\ events \subseteq Event
  /\ cache \in [Nodes -> RoomState]
  /\ tombs \in [Nodes -> Entries]
  /\ seen \in [Nodes -> SUBSET Event]
  /\ life \in [Nodes -> Nat]
  /\ joined \in [Sockets -> BOOLEAN]
  /\ pc \in [Sockets -> PcValues]
  /\ goal \in [Sockets -> {"join", "merge", "resync"}]
  /\ msg \in [Sockets -> Snapshots]
  /\ read \in [Sockets -> Nat]
  /\ base \in [Sockets -> Nat \cup {-1}]
  /\ draft \in [Sockets -> Entries]
  /\ attempt \in [Sockets -> Nat]
  /\ received \in Nat
  /\ faults \in Nat
  /\ requested \subseteq Snapshots
  /\ committed \subseteq Snapshots
  /\ acks \subseteq [socket : Sockets, version : Nat]
  /\ unwatched \subseteq Sockets
  /\ overwritten \in BOOLEAN
  /\ reseeded \in BOOLEAN

\* The shapes of the room: while Redis does not know it, those of Postgres.
Room == IF snap = NoSnapshot THEN DbShapes ELSE snap.shapes

(***************************************************************************)
(* A commit changes the version key and the snapshot together: the version *)
(* stored in the snapshot is the value of the version key.  (The comment   *)
(* above commitRoomSnapshot: "version increment, snapshot replacement, and *)
(* Pub/Sub fan-out all happen together".)  The code keeps this only until  *)
(* an EXEC without its WATCH or a late seed: KeysAgree.                    *)
(***************************************************************************)
VersionMatchesSnapshot == snap # NoSnapshot => snap.version = ver

KeysAgree == overwritten \/ reseeded \/ VersionMatchesSnapshot

(***************************************************************************)
(* No committed shape is lost: the room still has it, or a newer one, or a *)
(* client asked for a deletion at least as new.  (A commit that was built  *)
(* on anything but the latest snapshot would drop the shapes in between.)  *)
(* The code keeps this only until an EXEC without its WATCH or a late      *)
(* seed: UpdatesKept.                                                      *)
(***************************************************************************)
NoLostUpdate ==
  \A m \in committed, i \in Ids :
    \/ AtMost(m.writes[i], Room[i])
    \/ \E r \in requested : r.dels[i] # Absent /\ AtMost(m.writes[i], r.dels[i])

UpdatesKept == overwritten \/ reseeded \/ NoLostUpdate

\* A version is acknowledged to one client only: acks order the commits.
AckedOnce ==
  \A a, b \in acks : a.version = b.version => a.socket = b.socket

\* No event carries a version that another event carries with other shapes.
EventsAgree ==
  \A e, f \in events : e.version = f.version => e = f

\* Until an EXEC without its WATCH or a late seed, a version names one commit.
VersionsNameCommits == overwritten \/ reseeded \/ (AckedOnce /\ EventsAgree)

(***************************************************************************)
(* The version key never goes back (architecture-realtime-sync.md: "the    *)
(* monotonic version of the room"), so that the monotonic guards of nodes  *)
(* and browsers, which drop what is not newer, never drop a new state.     *)
(***************************************************************************)
VersionForward == [][ver' >= ver]_vars

(***************************************************************************)
(* What the code keeps of it: only setRoomSnapshot can put the version     *)
(* back, and only where a node seeds a room that was committed to since it *)
(* missed the snapshot; no commit does, whoever ended its WATCH.           *)
(***************************************************************************)
OnlySeedsGoBack ==
  [][ver' >= ver \/ (ver > 0 /\ \E s \in Sockets : Seed(s))]_vars

(***************************************************************************)
(* A node never broadcasts a snapshot older than its own state.            *)
(* (architecture-security-model.md on the Monotonic Guard: it "only        *)
(* broadcasts snapshots that are strictly newer than its local state".)    *)
(***************************************************************************)
NoOlderBroadcast ==
  [][\A s \in Sockets : FinishCommit(s) => read[s] + 1 >= cache[NodeOf[s]].version]_vars

(***************************************************************************)
(* Every snapshot and every join is answered, however often other nodes    *)
(* win the race for the version.                                           *)
(***************************************************************************)
Answered == \A s \in Sockets : pc[s] # "idle" ~> pc[s] = "idle"

(***************************************************************************)
(* The nodes, their caches and Redis together implement the register of    *)
(* RoomRegister: the version key and the room of Redis are its version and *)
(* shapes, and the successful EXECs are its commits.  Excepted are only an *)
(* EXEC that is made without its WATCH, and all that follows a late seed.  *)
(***************************************************************************)
AllMessages == UNION {MessagesOf[s] : s \in Sockets}

Register == INSTANCE RoomRegister WITH Messages <- AllMessages,
              InitialShapes <- DbShapes, version <- ver, shapes <- Room

ImplementsRegister ==
  /\ Register!Init
  /\ [][\/ Register!Commit
        \/ \E s \in unwatched : ExecCommit(s)
        \/ reseeded']_<<ver, Room>>

(***************************************************************************)
(* The inductive invariant behind these properties: as long as no late     *)
(* seed happened, everything a handler, a cache or an event believes about *)
(* the version Redis has now is true.  What they believe about older       *)
(* versions does not matter, because GET and WATCH stop the commit; and an *)
(* EXEC without its WATCH makes a new version that nobody has heard of.    *)
(***************************************************************************)
Committing == {"watch", "get", "check"}
BeforeReply == Committing \cup {"committed"}

\* A cached room is never ahead of Redis, and at Redis's version it is Redis's
\* room, whatever the cross-node events did to the cache.
CacheCoherent ==
  \A n \in Nodes : /\ cache[n].version <= ver
                   /\ cache[n].version = ver => cache[n].shapes = Room

EventsCoherent ==
  \A e \in events : /\ e.version <= ver
                    /\ e.version = ver => e.shapes = Room

\* Until the first commit the room is what Postgres held at the start.
FirstVersion == ver = 0 => events = {} /\ Room = DbShapes

SocketCoherent(s) ==
  /\ read[s] <= ver
  /\ pc[s] \in {"readDb", "seed"} => read[s] = 0
  /\ pc[s] = "seed" /\ ver = 0 => draft[s] = DbShapes
  /\ pc[s] \in BeforeReply \/ goal[s] = "merge" => msg[s] \in MessagesOf[s]
  /\ pc[s] \in Committing =>
       /\ base[s] <= ver
       /\ base[s] = ver => Register!Successor(Room, draft[s], msg[s])
  /\ pc[s] \in {"get", "check"} /\ s \notin unwatched => watch[NodeOf[s]] # "none"
  /\ pc[s] = "check" /\ s \notin unwatched /\ watch[NodeOf[s]] = "clean" =>
       read[s] = ver
  /\ pc[s] = "committed" =>
       /\ base[s] = read[s]
       /\ read[s] < ver
       /\ read[s] + 1 = ver => draft[s] = Room

Coherence == /\ snap = NoSnapshot => ver = 0
             /\ FirstVersion
             /\ CacheCoherent
             /\ EventsCoherent
             /\ \A s \in Sockets : SocketCoherent(s)

\* The room is coherent until a late seed.
CoherentUntilReseeded == reseeded \/ Coherence

=============================================================================
