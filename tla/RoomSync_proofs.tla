--------------------------- MODULE RoomSync_proofs ---------------------------
(***************************************************************************)
(* Theorems about RoomSync, for any nodes, sockets, ids, authors and       *)
(* messages.                                                               *)
(***************************************************************************)
EXTENDS RoomSync, CanvasCrdt_proofs

-----------------------------------------------------------------------------
LEMMA NoEntriesType == NoEntries \in Entries /\ NoSnapshot \in RoomState
  BY AbsentIn DEF NoEntries, Entries, NoSnapshot, RoomState

LEMMA BeginCommitType ==
  ASSUME TypeOK, NEW s \in Sockets, NEW m \in Snapshots, NEW st \in RoomState,
         BeginCommit(s, m, st)
  PROVE  /\ pc' \in [Sockets -> PcValues]
         /\ tombs' \in [Nodes -> Entries]
         /\ base' \in [Sockets -> Nat \cup {-1}]
         /\ draft' \in [Sockets -> Entries]
         /\ attempt' \in [Sockets -> Nat]
<1>1. NodeOf[s] \in Nodes /\ st.shapes \in Entries /\ st.version \in Nat \cup {-1}
      /\ m.dels \in Entries /\ m.writes \in Entries
  BY RoomSyncAssumption DEF RoomState, Snapshots
<1>2. tombs[NodeOf[s]] \in Entries
  BY <1>1 DEF TypeOK
<1>3. /\ MergedShapes(st.shapes, tombs[NodeOf[s]], m.dels, m.writes) \in Entries
      /\ MergedTombs(st.shapes, tombs[NodeOf[s]], m.dels, m.writes) \in Entries
  BY <1>1, <1>2, MergeType
<1> QED BY <1>1, <1>3 DEF BeginCommit, BeginCommitOf, TypeOK, PcValues

LEMMA RoomReadyType ==
  ASSUME TypeOK, NEW s \in Sockets, NEW st \in RoomState, RoomReady(s, st)
  PROVE  /\ pc' \in [Sockets -> PcValues]
         /\ joined' \in [Sockets -> BOOLEAN]
         /\ tombs' \in [Nodes -> Entries]
         /\ base' \in [Sockets -> Nat \cup {-1}]
         /\ draft' \in [Sockets -> Entries]
         /\ attempt' \in [Sockets -> Nat]
<1>1. CASE goal[s] \in {"join", "resync"}
  BY <1>1 DEF RoomReady, TypeOK, PcValues
<1>2. CASE goal[s] = "merge"
  <2>1. msg[s] \in Snapshots /\ BeginCommit(s, msg[s], st) /\ joined' = joined
    BY <1>2 DEF RoomReady, TypeOK
  <2> QED BY <2>1, BeginCommitType DEF TypeOK
<1> QED BY <1>1, <1>2 DEF TypeOK

LEMMA AfterWriteType ==
  ASSUME TypeOK, NEW n \in Nodes
  PROVE  AfterWrite(n) \in [Nodes -> {"none", "clean", "dirty"}]
  BY DEF AfterWrite, TypeOK

\* Whatever nodes, clients and failures do, Redis, the caches and the handlers
\* of messageHandler.ts hold well-formed room states, versions and snapshots.
THEOREM TypeCorrect == Spec => []TypeOK
<1>1. Init => TypeOK
  <2> SUFFICES ASSUME Init PROVE TypeOK
    OBVIOUS
  <2>1. snap \in RoomState
    BY NoEntriesType, RoomSyncAssumption DEF Init, RoomState
  <2> QED BY <2>1, NoEntriesType, RoomSyncAssumption
          DEF Init, TypeOK, PcValues, NoMessage, Snapshots, RoomState
<1>2. TypeOK /\ [Next]_vars => TypeOK'
  <2> SUFFICES ASSUME TypeOK, Step, Record PROVE TypeOK'
    BY DEF Next, vars, state, mishaps, redis, node, handler, history, TypeOK
  <2>0. unwatched' \subseteq Sockets /\ overwritten' \in BOOLEAN /\ reseeded' \in BOOLEAN
    BY DEF Record, TypeOK
  <2> USE <2>0 DEF redis, node, handler, history
  <2>1. ASSUME NEW s \in Sockets, Join(s) PROVE TypeOK'
    BY <2>1 DEF Join, TypeOK, PcValues
  <2>2. ASSUME NEW s \in Sockets, NEW m \in MessagesOf[s], ReceiveSnapshot(s, m)
        PROVE  TypeOK'
    <3>1. m \in Snapshots /\ NodeOf[s] \in Nodes
      BY RoomSyncAssumption
    <3>2. /\ received' \in Nat /\ requested' \subseteq Snapshots
          /\ msg' \in [Sockets -> Snapshots]
          /\ goal' \in [Sockets -> {"join", "merge", "resync"}]
      BY <2>2, <3>1 DEF ReceiveSnapshot, TypeOK
    <3>3. /\ pc' \in [Sockets -> PcValues]
          /\ tombs' \in [Nodes -> Entries]
          /\ base' \in [Sockets -> Nat \cup {-1}]
          /\ draft' \in [Sockets -> Entries]
          /\ attempt' \in [Sockets -> Nat]
      <4>1. CASE cache[NodeOf[s]] # NoSnapshot
        <5>1. BeginCommit(s, m, cache[NodeOf[s]])
          BY <2>2, <4>1 DEF ReceiveSnapshot
        <5> QED BY <3>1, <5>1, BeginCommitType DEF TypeOK
      <4>2. CASE cache[NodeOf[s]] = NoSnapshot
        BY <2>2, <4>2 DEF ReceiveSnapshot, TypeOK, PcValues
      <4> QED BY <4>1, <4>2
    <3> QED BY <2>2, <3>2, <3>3 DEF ReceiveSnapshot, TypeOK
  <2>3. ASSUME NEW s \in Sockets, ReadVersion(s) PROVE TypeOK'
    BY <2>3 DEF ReadVersion, TypeOK, PcValues
  <2>4. ASSUME NEW s \in Sockets, ReadSnapshot(s) PROVE TypeOK'
    <3> DEFINE st == [version |-> read[s], shapes |-> snap.shapes]
    <3>1. st \in RoomState /\ NodeOf[s] \in Nodes
      BY RoomSyncAssumption DEF TypeOK, RoomState
    <3>2. RoomReady(s, st) /\ cache' = [cache EXCEPT ![NodeOf[s]] = st]
      BY <2>4 DEF ReadSnapshot
    <3> HIDE DEF st
    <3> QED BY <2>4, <3>1, <3>2, RoomReadyType DEF ReadSnapshot, TypeOK
  <2>5. ASSUME NEW s \in Sockets, MissSnapshot(s) PROVE TypeOK'
    BY <2>5 DEF MissSnapshot, TypeOK, PcValues
  <2>6. ASSUME NEW s \in Sockets, RereadVersion(s) PROVE TypeOK'
    BY <2>6 DEF RereadVersion, TypeOK, PcValues
  <2>7. ASSUME NEW s \in Sockets, ReadDb(s) PROVE TypeOK'
    <3>1. PICK shapes \in {DbShapes} \cup {e.shapes : e \in events} :
            /\ cache' = [cache EXCEPT ![NodeOf[s]] =
                           [version |-> read[s], shapes |-> shapes]]
            /\ draft' = [draft EXCEPT ![s] = shapes]
      BY <2>7 DEF ReadDb
    <3>2. shapes \in Entries
      BY RoomSyncAssumption DEF TypeOK, Event
    <3>3. [version |-> read[s], shapes |-> shapes] \in RoomState
      BY <3>2 DEF TypeOK, RoomState
    <3> QED BY <2>7, <3>1, <3>2, <3>3 DEF ReadDb, TypeOK, PcValues
  <2>8. ASSUME NEW s \in Sockets, DbFails(s) PROVE TypeOK'
    BY <2>8 DEF DbFails, TypeOK, PcValues
  <2>9. ASSUME NEW s \in Sockets, Seed(s) PROVE TypeOK'
    <3> DEFINE st == [version |-> read[s], shapes |-> draft[s]]
    <3>1. st \in RoomState /\ NodeOf[s] \in Nodes
      BY RoomSyncAssumption DEF TypeOK, RoomState
    <3>2. RoomReady(s, st)
      BY <2>9 DEF Seed
    <3>3. /\ ver' \in Nat /\ snap' \in RoomState
          /\ watch' \in [Nodes -> {"none", "clean", "dirty"}]
      <4>1. CASE UNCHANGED <<ver, snap>> /\ watch' = [watch EXCEPT ![NodeOf[s]] = "none"]
        BY <4>1, <3>1 DEF TypeOK
      <4>2. CASE ver' = read[s] /\ snap' = st /\ watch' = AfterWrite(NodeOf[s])
        BY <4>2, <3>1, AfterWriteType DEF TypeOK
      <4> QED BY <2>9, <4>1, <4>2 DEF Seed
    <3> HIDE DEF st
    <3> QED BY <2>9, <3>1, <3>2, <3>3, RoomReadyType DEF Seed, TypeOK
  <2>10. ASSUME NEW s \in Sockets, Watch(s) PROVE TypeOK'
    BY <2>10, RoomSyncAssumption DEF Watch, TypeOK, PcValues
  <2>11. ASSUME NEW s \in Sockets, GetVersion(s) PROVE TypeOK'
    BY <2>11 DEF GetVersion, TypeOK, PcValues
  <2>12. ASSUME NEW s \in Sockets, Unwatch(s) PROVE TypeOK'
    BY <2>12, RoomSyncAssumption DEF Unwatch, TypeOK, PcValues
  <2>13. ASSUME NEW s \in Sockets, ExecCommit(s) PROVE TypeOK'
    <3>1. /\ NodeOf[s] \in Nodes /\ ver + 1 \in Nat /\ read[s] + 1 \in Nat
          /\ draft[s] \in Entries /\ msg[s] \in Snapshots /\ msg[s].dels \in Entries
          /\ <<NodeOf[s], life[NodeOf[s]]>> \in NodeIds
      BY RoomSyncAssumption DEF TypeOK, Snapshots, NodeIds
    <3>2. [version |-> read[s] + 1, shapes |-> draft[s]] \in RoomState
      BY <3>1 DEF RoomState
    <3>3. [origin |-> <<NodeOf[s], life[NodeOf[s]]>>, version |-> read[s] + 1,
           shapes |-> draft[s], dels |-> msg[s].dels] \in Event
      BY <3>1 DEF Event
    <3>4. watch' \in [Nodes -> {"none", "clean", "dirty"}]
      BY <2>13, <3>1, AfterWriteType DEF ExecCommit, ExecStoring
    <3>5. ver' \in Nat /\ snap' \in RoomState /\ events' \subseteq Event
          /\ committed' \subseteq Snapshots /\ pc' \in [Sockets -> PcValues]
      BY <2>13, <3>1, <3>2, <3>3 DEF ExecCommit, ExecStoring, TypeOK, PcValues
    <3> QED BY <2>13, <3>4, <3>5 DEF ExecCommit, ExecStoring, TypeOK
  <2>14. ASSUME NEW s \in Sockets, ExecAbort(s) PROVE TypeOK'
    <3>1. NodeOf[s] \in Nodes /\ attempt[s] + 1 \in Nat
      BY RoomSyncAssumption DEF TypeOK
    <3>2. watch' \in [Nodes -> {"none", "clean", "dirty"}] /\ attempt' \in [Sockets -> Nat]
      BY <2>14, <3>1 DEF ExecAbort, TypeOK
    <3>3. /\ pc' \in [Sockets -> PcValues]
          /\ goal' \in [Sockets -> {"join", "merge", "resync"}]
      <4>1. CASE attempt[s] + 1 < MaxAttempts
        BY <2>14, <4>1 DEF ExecAbort, TypeOK, PcValues
      <4>2. CASE ~(attempt[s] + 1 < MaxAttempts)
        BY <2>14, <4>2 DEF ExecAbort, TypeOK, PcValues
      <4> QED BY <4>1, <4>2
    <3> QED BY <2>14, <3>2, <3>3 DEF ExecAbort, TypeOK
  <2>15. ASSUME NEW s \in Sockets, FinishCommit(s) PROVE TypeOK'
    <3>1. NodeOf[s] \in Nodes /\ read[s] + 1 \in Nat /\ draft[s] \in Entries
      BY RoomSyncAssumption DEF TypeOK
    <3>2. [version |-> read[s] + 1, shapes |-> draft[s]] \in RoomState
      BY <3>1 DEF RoomState
    <3> QED BY <2>15, <3>1, <3>2 DEF FinishCommit, FinishCaching, TypeOK, PcValues
  <2>16. ASSUME NEW n \in Nodes, NEW e \in events, ApplyRoomEvent(n, e) PROVE TypeOK'
    <3>1. e \in Event /\ e.version \in Nat /\ e.shapes \in Entries /\ e.dels \in Entries
      BY DEF TypeOK, Event
    <3>2. [version |-> e.version, shapes |-> e.shapes] \in RoomState
      BY <3>1 DEF RoomState
    <3>3. [i \in Ids |-> IF e.dels[i] # Absent THEN e.dels[i] ELSE tombs[n][i]] \in Entries
      BY <3>1 DEF TypeOK, Entries
    <3>4. cache' \in [Nodes -> RoomState] /\ tombs' \in [Nodes -> Entries]
          /\ seen' \in [Nodes -> SUBSET Event]
      BY <2>16, <3>1, <3>2, <3>3 DEF ApplyRoomEvent, TypeOK
    <3> QED BY <2>16, <3>4 DEF ApplyRoomEvent, TypeOK
  <2>17. ASSUME NEW n \in Nodes, NEW e \in seen[n], ForgetEvent(n, e) PROVE TypeOK'
    BY <2>17 DEF ForgetEvent, TypeOK
  <2>18. ASSUME NEW n \in Nodes, Restart(n) PROVE TypeOK'
    BY <2>18, NoEntriesType DEF Restart, TypeOK, PcValues
  <2>19. ASSUME NEW n \in Nodes, Reconnect(n) PROVE TypeOK'
    BY <2>19 DEF Reconnect, TypeOK, PcValues
  <2> QED
    BY <2>1, <2>2, <2>3, <2>4, <2>5, <2>6, <2>7, <2>8, <2>9, <2>10, <2>11, <2>12,
       <2>13, <2>14, <2>15, <2>16, <2>17, <2>18, <2>19
    DEF Step, HandlerStep, InitializeRoomSync, CommitRoomSnapshot
<1> QED BY <1>1, <1>2, PTL DEF Spec

-----------------------------------------------------------------------------
(* A merge is a Successor of its base, whatever the tombstones are.        *)

LEMMA MergeCellSuccessor ==
  ASSUME NEW c \in Cell, NEW d \in MaybeMeta, NEW w \in MaybeMeta
  PROVE  LET n == MergeCell(c, d, w).shape IN
         \/ n = c.shape
         \/ w # Absent /\ n = w /\ AtMost(c.shape, w)
         \/ d # Absent /\ n = Absent /\ AtMost(c.shape, d)
<1> DEFINE k == DeleteCell(c, d)
           n == WriteCell(k, w)
<1>1. c.shape \in MaybeMeta /\ c.tomb \in MaybeMeta
  BY DEF Cell
<1>2. k = c \/ (d # Absent /\ k = [shape |-> Absent, tomb |-> d] /\ AtMost(c.shape, d))
  BY <1>1, AbsentBelow DEF DeleteCell
<1>3. n = k \/ (w # Absent /\ n.shape = w /\ ~AtMost(w, k.tomb) /\ AtMost(k.shape, w))
  BY DEF WriteCell
<1>4. MergeCell(c, d, w) = n
  BY DEF MergeCell
<1>5. CASE k = c
  BY <1>3, <1>4, <1>5
<1>6. CASE d # Absent /\ k = [shape |-> Absent, tomb |-> d] /\ AtMost(c.shape, d)
  <2>1. k.shape = Absent /\ k.tomb = d
    BY <1>6
  <2>2. CASE n = k
    BY <1>4, <1>6, <2>1, <2>2
  <2>3. CASE w # Absent /\ n.shape = w /\ ~AtMost(w, d)
    <3>1. AtMost(c.shape, w)
      BY <1>1, <1>6, <2>3, AtMostTotal, AtMostTransitive
    <3> QED BY <1>4, <2>3, <3>1
  <2> QED BY <1>3, <2>1, <2>2, <2>3
<1> QED BY <1>2, <1>5, <1>6

LEMMA MergeSuccessor ==
  ASSUME NEW s \in Entries, NEW t \in Entries, NEW m \in Snapshots
  PROVE  Register!Successor(s, MergedShapes(s, t, m.dels, m.writes), m)
<1> SUFFICES ASSUME NEW i \in Ids
    PROVE LET n == MergedShapes(s, t, m.dels, m.writes)[i] IN
          \/ Register!Kept(s[i], n)
          \/ Register!Written(s[i], n, m.writes[i])
          \/ Register!Deleted(s[i], n, m.dels[i])
  BY DEF Register!Successor
<1> DEFINE c == [shape |-> s[i], tomb |-> t[i]]
<1>1. c \in Cell /\ m.dels[i] \in MaybeMeta /\ m.writes[i] \in MaybeMeta
  BY DEF Cell, Entries, Snapshots
<1>2. MergedShapes(s, t, m.dels, m.writes)[i] = MergeCell(c, m.dels[i], m.writes[i]).shape
  BY DEF MergedShapes, MergedCell
<1>3. c.shape = s[i]
  OBVIOUS
<1> HIDE DEF c
<1>4. /\ Register!Absent = Absent
      /\ \A a, b : Register!AtMost(a, b) <=> AtMost(a, b)
  BY DEF Register!Absent, Absent, Register!AtMost, AtMost
<1> QED BY <1>1, <1>2, <1>3, <1>4, MergeCellSuccessor
        DEF Register!Kept, Register!Written, Register!Deleted

-----------------------------------------------------------------------------
(***************************************************************************)
(* The invariants.  Nothing is assumed of the constants: nodes may have    *)
(* any number of sockets on one Redis connection, connections may be lost, *)
(* and Redis may know the room or not.  What the protocol cannot protect   *)
(* is recorded by the history variables, and the theorems say exactly what *)
(* they except.                                                            *)
(***************************************************************************)

\* The parts of a handler that Coherence speaks of.
SameHandler(t) == /\ pc'[t] = pc[t] /\ goal'[t] = goal[t] /\ msg'[t] = msg[t]
                  /\ read'[t] = read[t] /\ base'[t] = base[t] /\ draft'[t] = draft[t]

\* No step turns a dirty WATCH into a clean one.
NoneCleaned == \A n \in Nodes : watch[n] = "dirty" => watch'[n] # "clean"

\* A handler before its EXEC is watched by its connection or recorded.
LEMMA WatchedOrRecorded ==
  ASSUME Record, NEW t \in Sockets, pc'[t] \in {"get", "check"}, t \notin unwatched'
  PROVE  t \notin unwatched /\ watch'[NodeOf[t]] # "none"
  BY DEF Record

\* A step that leaves the room alone keeps everybody else coherent.
LEMMA OthersKeep ==
  ASSUME TypeOK, Coherence, Record, NoneCleaned, ver' = ver, Room' = Room,
         NEW t \in Sockets, SameHandler(t)
  PROVE  SocketCoherent(t)'
<1>1. SocketCoherent(t) /\ NodeOf[t] \in Nodes
  BY RoomSyncAssumption DEF Coherence
<1>2. pc'[t] \in {"get", "check"} /\ t \notin unwatched' =>
        t \notin unwatched /\ watch'[NodeOf[t]] # "none"
  BY WatchedOrRecorded
<1>3. pc'[t] = "check" /\ t \notin unwatched' /\ watch'[NodeOf[t]] = "clean" =>
        read'[t] = ver'
  <2> SUFFICES ASSUME pc'[t] = "check", t \notin unwatched', watch'[NodeOf[t]] = "clean"
               PROVE  read[t] = ver
    BY DEF SameHandler
  <2>1. t \notin unwatched /\ pc[t] = "check"
    BY <1>2 DEF SameHandler
  <2>2. watch[NodeOf[t]] # "none" /\ watch[NodeOf[t]] # "dirty"
    BY <1>1, <2>1 DEF SocketCoherent, NoneCleaned
  <2>3. watch[NodeOf[t]] = "clean"
    BY <1>1, <2>2 DEF TypeOK
  <2> QED BY <1>1, <2>1, <2>3 DEF SocketCoherent
<1>4. (base[t] = ver => Register!Successor(Room, draft[t], msg[t])) =>
      (base[t] = ver => Register!Successor(Room, draft[t], msg[t]))'
  BY DEF SameHandler, Register!Successor, Register!Kept, Register!Written,
         Register!Deleted
<1> QED BY <1>1, <1>2, <1>3, <1>4 DEF SocketCoherent, SameHandler, Committing, BeforeReply

\* The handler of s starts a commit from a coherent room state.
LEMMA BeginCommitCoherent ==
  ASSUME TypeOK, NEW s \in Sockets, NEW m \in MessagesOf[s], NEW st \in RoomState,
         BeginCommit(s, m, st), ver' = ver, Room' = Room,
         msg'[s] = m, read'[s] <= ver,
         st.version <= ver, st.version = ver => st.shapes = Room
  PROVE  SocketCoherent(s)'
<1>1. m \in Snapshots /\ st.shapes \in Entries /\ tombs[NodeOf[s]] \in Entries
  BY RoomSyncAssumption DEF RoomState, TypeOK
<1>2. /\ pc'[s] = "watch" /\ base'[s] = st.version
      /\ draft'[s] = MergedShapes(st.shapes, tombs[NodeOf[s]], m.dels, m.writes)
  BY DEF BeginCommit, BeginCommitOf, TypeOK
<1>3. Register!Successor(st.shapes, draft'[s], m)
  BY <1>1, <1>2, MergeSuccessor
<1>4. base'[s] = ver' => Register!Successor(Room', draft'[s], msg'[s])
  BY <1>2, <1>3
<1>5. (base[s] = ver => Register!Successor(Room, draft[s], msg[s]))'
  BY <1>4 DEF Register!Successor, Register!Kept, Register!Written, Register!Deleted
<1> QED BY <1>2, <1>5 DEF SocketCoherent, Committing, BeforeReply

\* initializeRoomSync gives the handler of s a coherent room state.
LEMMA RoomReadyCoherent ==
  ASSUME TypeOK, Coherence, NEW s \in Sockets, NEW st \in RoomState, RoomReady(s, st),
         UNCHANGED <<goal, msg, read>>, ver' = ver, Room' = Room, pc[s] # "idle",
         st.version <= ver, st.version = ver => st.shapes = Room
  PROVE  SocketCoherent(s)'
<1>1. read[s] <= ver /\ (goal[s] = "merge" => msg[s] \in MessagesOf[s])
  BY DEF Coherence, SocketCoherent
<1>2. CASE goal[s] \in {"join", "resync"}
  <2>1. pc'[s] = "idle" /\ goal'[s] # "merge" /\ read'[s] <= ver'
    BY <1>1, <1>2 DEF RoomReady, TypeOK
  <2> QED BY <2>1 DEF SocketCoherent, Committing, BeforeReply
<1>3. CASE goal[s] = "merge"
  <2>1. BeginCommit(s, msg[s], st) /\ msg[s] \in MessagesOf[s] /\ msg'[s] = msg[s]
        /\ read'[s] <= ver
    BY <1>1, <1>3 DEF RoomReady
  <2> QED BY <2>1, BeginCommitCoherent
<1> QED BY <1>2, <1>3 DEF TypeOK

LEMMA RoomReadyOthers ==
  ASSUME TypeOK, NEW s \in Sockets, NEW st, RoomReady(s, st), UNCHANGED <<goal, msg, read>>
  PROVE  \A t \in Sockets \ {s} : SameHandler(t)
  BY DEF RoomReady, BeginCommit, BeginCommitOf, SameHandler, TypeOK

LEMMA InitCoherent == Init => Coherence
<1> SUFFICES ASSUME Init PROVE Coherence
  OBVIOUS
<1>1. ver = 0 /\ Room = DbShapes /\ events = {}
  BY DEF Init, Room
<1>2. CacheCoherent
  BY <1>1 DEF Init, CacheCoherent, NoSnapshot
<1>3. EventsCoherent /\ FirstVersion
  BY <1>1 DEF EventsCoherent, FirstVersion
<1>4. ASSUME NEW s \in Sockets PROVE SocketCoherent(s)
  BY <1>1 DEF Init, SocketCoherent, Committing, BeforeReply
<1> QED BY <1>1, <1>2, <1>3, <1>4 DEF Coherence

\* A step that neither writes to Redis nor publishes, and what it caches is
\* coherent, keeps the room coherent if it keeps the handlers so.
LEMMA QuietCoherent ==
  ASSUME TypeOK, Coherence, ver' = ver, Room' = Room, snap' = snap, events' = events,
         CacheCoherent', \A t \in Sockets : SocketCoherent(t)'
  PROVE  Coherence'
  BY DEF Coherence, FirstVersion, EventsCoherent

LEMMA SameCacheCoherent ==
  ASSUME Coherence, ver' = ver, Room' = Room, cache' = cache
  PROVE  CacheCoherent'
  BY DEF Coherence, CacheCoherent

\* What one node caches must not be ahead of Redis, nor differ at its version.
LEMMA NewCacheCoherent ==
  ASSUME TypeOK, Coherence, ver' = ver, Room' = Room, NEW n \in Nodes, NEW st,
         st.version <= ver, st.version = ver => st.shapes = Room,
         cache' = [cache EXCEPT ![n] = st]
  PROVE  CacheCoherent'
<1>1. \A k \in Nodes : cache'[k] = IF k = n THEN st ELSE cache[k]
  BY DEF TypeOK
<1>2. \A k \in Nodes : cache[k].version <= ver /\ (cache[k].version = ver => cache[k].shapes = Room)
  BY DEF Coherence, CacheCoherent
<1> QED BY <1>1, <1>2 DEF CacheCoherent

LEMMA CommitCoherent ==
  ASSUME TypeOK, Coherence, Record, NEW s \in Sockets, ExecCommit(s)
  PROVE  /\ Coherence'
         /\ Room' = draft[s]
         /\ s \notin unwatched => read[s] = ver
<1> USE DEF redis, node, handler, history
<1>1. /\ pc[s] = "check" /\ read[s] = base[s] /\ pc'[s] = "committed"
      /\ ver' = ver + 1 /\ ver \in Nat /\ read[s] \in Nat /\ read[s] <= ver
      /\ snap' = [version |-> read[s] + 1, shapes |-> draft[s]]
      /\ watch' = AfterWrite(NodeOf[s])
      /\ watch[NodeOf[s]] # "dirty" /\ watch[NodeOf[s]] \in {"none", "clean", "dirty"}
      /\ UNCHANGED <<cache, goal, msg, read, base, draft>>
  BY RoomSyncAssumption DEF ExecCommit, ExecStoring, TypeOK, Coherence, SocketCoherent
<1>2. s \notin unwatched => read[s] = ver
  BY <1>1 DEF Coherence, SocketCoherent
<1>3. snap' # NoSnapshot /\ Room' = draft[s]
  <2>1. snap'.version # -1 /\ snap'.shapes = draft[s]
    BY <1>1
  <2>2. snap' # NoSnapshot
    BY <2>1 DEF NoSnapshot
  <2> QED BY <2>1, <2>2 DEF Room
<1>4. CacheCoherent'
  <2>1. \A n \in Nodes : cache[n].version \in Nat \cup {-1} /\ cache[n].version <= ver
    BY DEF Coherence, CacheCoherent, TypeOK, RoomState
  <2> QED BY <1>1, <2>1 DEF CacheCoherent
<1>5. EventsCoherent'
  <2>1. \A e \in events : e.version \in Nat /\ e.version <= ver
    BY DEF Coherence, EventsCoherent, TypeOK, Event
  <2>2. \A e \in events' : e \in events \/ (e.version = read[s] + 1 /\ e.shapes = draft[s])
    BY DEF ExecCommit, ExecStoring
  <2> QED BY <1>1, <1>3, <2>1, <2>2 DEF EventsCoherent
<1>6. SocketCoherent(s)'
  <2>1. read'[s] < ver' /\ draft'[s] = Room' /\ read'[s] <= ver' /\ base'[s] = read'[s]
    BY <1>1, <1>3
  <2>2. msg'[s] \in MessagesOf[s]
    BY <1>1 DEF Coherence, SocketCoherent, Committing, BeforeReply
  <2> QED BY <1>1, <2>1, <2>2 DEF SocketCoherent, Committing, BeforeReply
<1>7. ASSUME NEW t \in Sockets, t # s PROVE SocketCoherent(t)'
  <2>1. SocketCoherent(t) /\ SameHandler(t) /\ NodeOf[t] \in Nodes
    BY <1>1, <1>7, RoomSyncAssumption
    DEF Coherence, ExecCommit, ExecStoring, SameHandler, TypeOK
  <2>2. watch'[NodeOf[t]] # "clean"
    BY <1>1, <2>1 DEF AfterWrite
  <2>3. pc'[t] \in {"get", "check"} /\ t \notin unwatched' => watch'[NodeOf[t]] # "none"
    BY WatchedOrRecorded
  <2>4. read[t] \in Nat /\ base[t] \in Nat \cup {-1} /\ ver' = ver + 1 /\ ver \in Nat
    BY <1>1 DEF TypeOK
  <2> QED BY <2>1, <2>2, <2>3, <2>4 DEF SocketCoherent, SameHandler, Committing, BeforeReply
<1>8. FirstVersion' /\ (snap = NoSnapshot => ver = 0)'
  BY <1>1, <1>3 DEF FirstVersion
<1> QED BY <1>2, <1>3, <1>4, <1>5, <1>6, <1>7, <1>8 DEF Coherence

\* setRoomSnapshot on a room nobody committed to writes what is there.
LEMMA SeedCoherent ==
  ASSUME TypeOK, Coherence, Record, ~reseeded', NEW s \in Sockets, Seed(s)
  PROVE  Coherence' /\ ver' = ver /\ Room' = Room /\ (snap' = snap \/ snap'.version = ver')
<1> DEFINE st == [version |-> read[s], shapes |-> draft[s]]
<1>1. ver = 0 /\ pc[s] = "seed" /\ ver \in Nat
  BY DEF Record, Seed, TypeOK
<1>2. read[s] = 0 /\ draft[s] = DbShapes /\ Room = DbShapes /\ NodeOf[s] \in Nodes
  BY <1>1, RoomSyncAssumption DEF Coherence, SocketCoherent, FirstVersion
<1>3. st \in RoomState /\ st.version = ver /\ st.shapes = Room /\ st # NoSnapshot
  BY <1>1, <1>2, RoomSyncAssumption DEF RoomState, NoSnapshot
<1>4. /\ RoomReady(s, st)
      /\ UNCHANGED <<events, cache, goal, msg, read>>
  BY DEF Seed, history
<1>5. /\ ver' = ver
      /\ snap' \in {snap, st}
      /\ NoneCleaned
  <2>1. CASE watch[NodeOf[s]] = "dirty"
    BY <1>2, <2>1 DEF Seed, TypeOK, NoneCleaned
  <2>2. CASE watch[NodeOf[s]] # "dirty"
    <3>1. ver' = read[s] /\ snap' = st /\ watch' = AfterWrite(NodeOf[s])
      BY <2>2 DEF Seed
    <3> QED BY <1>1, <1>2, <3>1 DEF AfterWrite, NoneCleaned
  <2> QED BY <2>1, <2>2
<1> HIDE DEF st
<1>6. Room' = Room
  BY <1>2, <1>3, <1>5 DEF Room
<1>7. SocketCoherent(s)'
  BY <1>1, <1>3, <1>4, <1>5, <1>6, RoomReadyCoherent
<1>8. \A t \in Sockets : SocketCoherent(t)'
  BY <1>4, <1>5, <1>6, <1>7, RoomReadyOthers, OthersKeep
<1>9. CacheCoherent'
  BY <1>4, <1>5, <1>6, SameCacheCoherent
<1>10. EventsCoherent' /\ FirstVersion' /\ (snap = NoSnapshot => ver = 0)'
  BY <1>1, <1>4, <1>5, <1>6 DEF Coherence, EventsCoherent, FirstVersion
<1> QED BY <1>3, <1>5, <1>6, <1>8, <1>9, <1>10 DEF Coherence

LEMMA StepCoherent ==
  ASSUME TypeOK, Coherence, Step, Record, ~reseeded'
  PROVE  Coherence'
<1> USE DEF redis, node, handler, history
<1>1. (\A s \in Sockets : NodeOf[s] \in Nodes) /\ ver \in Nat
  BY RoomSyncAssumption DEF TypeOK
<1>2. (\A s \in Sockets : SocketCoherent(s)) /\ CacheCoherent /\ EventsCoherent
      /\ FirstVersion /\ (snap = NoSnapshot => ver = 0)
  BY DEF Coherence
\* A step of the handler of s that neither writes to Redis nor caches.
<1>3. ASSUME NEW s \in Sockets, UNCHANGED <<ver, snap, events, cache>>,
             NoneCleaned, SocketCoherent(s)', \A t \in Sockets \ {s} : SameHandler(t)
      PROVE  Coherence'
  <2>1. Room' = Room
    BY <1>3 DEF Room
  <2>2. \A t \in Sockets : SocketCoherent(t)'
    BY <1>3, <2>1, OthersKeep
  <2> QED BY <1>3, <2>1, <2>2, SameCacheCoherent, QuietCoherent
<1>4. ASSUME NEW s \in Sockets, Join(s) PROVE Coherence'
  <2>1. SocketCoherent(s)'
    BY <1>2, <1>4 DEF Join, SocketCoherent, Committing, BeforeReply, TypeOK
  <2> QED BY <1>3, <1>4, <2>1 DEF Join, SameHandler, NoneCleaned, TypeOK
<1>5. ASSUME NEW s \in Sockets, NEW m \in MessagesOf[s], ReceiveSnapshot(s, m)
      PROVE  Coherence'
  <2>1. UNCHANGED <<ver, snap, events, cache, read, watch>> /\ msg' = [msg EXCEPT ![s] = m]
        /\ goal' = [goal EXCEPT ![s] = "merge"] /\ msg'[s] = m
    BY <1>5 DEF ReceiveSnapshot, TypeOK
  <2>2. Room' = Room /\ read'[s] <= ver
    BY <1>2, <2>1 DEF Room, SocketCoherent
  <2>3. SocketCoherent(s)'
    <3>1. CASE cache[NodeOf[s]] # NoSnapshot
      <4>1. cache[NodeOf[s]] \in RoomState /\ BeginCommit(s, m, cache[NodeOf[s]])
        BY <1>1, <1>5, <3>1 DEF ReceiveSnapshot, TypeOK
      <4>2. /\ cache[NodeOf[s]].version <= ver
            /\ cache[NodeOf[s]].version = ver => cache[NodeOf[s]].shapes = Room
        BY <1>1, <1>2 DEF CacheCoherent
      <4> QED BY <2>1, <2>2, <4>1, <4>2, BeginCommitCoherent
    <3>2. CASE cache[NodeOf[s]] = NoSnapshot
      <4>1. pc'[s] = "readVersion"
        BY <1>5, <3>2 DEF ReceiveSnapshot, TypeOK
      <4> QED BY <2>1, <2>2, <4>1 DEF SocketCoherent, Committing, BeforeReply
    <3> QED BY <3>1, <3>2
  <2>4. \A t \in Sockets \ {s} : SameHandler(t)
    <3>1. CASE cache[NodeOf[s]] # NoSnapshot
      BY <1>5, <2>1, <3>1 DEF ReceiveSnapshot, BeginCommit, BeginCommitOf, SameHandler, TypeOK
    <3>2. CASE cache[NodeOf[s]] = NoSnapshot
      BY <1>5, <2>1, <3>2 DEF ReceiveSnapshot, SameHandler, TypeOK
    <3> QED BY <3>1, <3>2
  <2> QED BY <1>3, <2>1, <2>3, <2>4 DEF NoneCleaned
<1>6. ASSUME NEW s \in Sockets, ReadVersion(s) PROVE Coherence'
  <2>1. SocketCoherent(s)'
    BY <1>1, <1>2, <1>6 DEF ReadVersion, SocketCoherent, Committing, BeforeReply, TypeOK
  <2> QED BY <1>3, <1>6, <2>1 DEF ReadVersion, SameHandler, NoneCleaned, TypeOK
<1>7. ASSUME NEW s \in Sockets, ReadSnapshot(s) PROVE Coherence'
  <2> DEFINE st == [version |-> read[s], shapes |-> snap.shapes]
  <2>1. /\ UNCHANGED <<ver, snap, events, watch, goal, msg, read>> /\ snap # NoSnapshot
        /\ cache' = [cache EXCEPT ![NodeOf[s]] = st] /\ RoomReady(s, st)
        /\ pc[s] = "readSnapshot"
    BY <1>7 DEF ReadSnapshot
  <2>2. st \in RoomState /\ st.version = read[s] /\ st.shapes = Room
        /\ read[s] <= ver
    BY <1>2, <2>1 DEF TypeOK, RoomState, SocketCoherent, Room
  <2>3. Room' = Room /\ NoneCleaned
    BY <2>1 DEF Room, NoneCleaned
  <2> HIDE DEF st
  <2>4. CacheCoherent'
    BY <1>1, <2>1, <2>2, <2>3, NewCacheCoherent
  <2>5. SocketCoherent(s)'
    BY <2>1, <2>2, <2>3, RoomReadyCoherent
  <2>6. \A t \in Sockets : SocketCoherent(t)'
    BY <2>1, <2>3, <2>5, RoomReadyOthers, OthersKeep
  <2> QED BY <2>1, <2>3, <2>4, <2>6, QuietCoherent
<1>8. ASSUME NEW s \in Sockets, MissSnapshot(s) \/ RereadVersion(s) \/ DbFails(s)
      PROVE  Coherence'
  <2>1. RereadVersion(s) => ver = 0
    BY <1>1 DEF Record
  <2>2. /\ read'[s] <= ver' /\ pc'[s] \in {"rereadVersion", "readDb", "idle"}
        /\ pc'[s] = "readDb" => read'[s] = 0
        /\ goal'[s] = "merge" => msg'[s] \in MessagesOf[s]
    BY <1>1, <1>2, <1>8, <2>1
    DEF MissSnapshot, RereadVersion, DbFails, SocketCoherent, TypeOK
  <2>3. SocketCoherent(s)'
    BY <2>2 DEF SocketCoherent, Committing, BeforeReply
  <2> QED BY <1>3, <1>8, <2>3
          DEF MissSnapshot, RereadVersion, DbFails, SameHandler, NoneCleaned, TypeOK
<1>9. ASSUME NEW s \in Sockets, ReadDb(s) PROVE Coherence'
  <2>1. PICK shapes \in {DbShapes} \cup {e.shapes : e \in events} :
          /\ cache' = [cache EXCEPT ![NodeOf[s]] =
                         [version |-> read[s], shapes |-> shapes]]
          /\ draft' = [draft EXCEPT ![s] = shapes]
    BY <1>9 DEF ReadDb
  <2>2. /\ pc[s] = "readDb" /\ pc' = [pc EXCEPT ![s] = "seed"]
        /\ UNCHANGED <<ver, snap, events, watch, goal, msg, read, base>>
    BY <1>9 DEF ReadDb
  <2>3. read[s] = 0 /\ (ver = 0 => shapes = Room /\ shapes = DbShapes)
    BY <1>2, <2>2 DEF SocketCoherent, FirstVersion
  <2>4. Room' = Room /\ NoneCleaned
    BY <2>2 DEF Room, NoneCleaned
  <2> DEFINE st == [version |-> read[s], shapes |-> shapes]
  <2>5. /\ st.version <= ver /\ (st.version = ver => st.shapes = Room)
        /\ cache' = [cache EXCEPT ![NodeOf[s]] = st]
    BY <1>1, <2>1, <2>3
  <2> HIDE DEF st
  <2>6. CacheCoherent'
    BY <1>1, <2>5, <2>2, <2>4, NewCacheCoherent
  <2>7. /\ pc'[s] = "seed" /\ draft'[s] = shapes /\ read'[s] = 0 /\ ver' = ver
        /\ goal'[s] = "merge" => msg'[s] \in MessagesOf[s]
    BY <1>2, <2>1, <2>2, <2>3 DEF SocketCoherent, TypeOK
  <2>8. SocketCoherent(s)'
    BY <1>1, <2>3, <2>7 DEF SocketCoherent, Committing, BeforeReply
  <2>9. \A t \in Sockets \ {s} : SameHandler(t)
    BY <2>1, <2>2 DEF SameHandler, TypeOK
  <2>10. \A t \in Sockets : SocketCoherent(t)'
    BY <2>2, <2>4, <2>8, <2>9, OthersKeep
  <2> QED BY <2>2, <2>4, <2>6, <2>10, QuietCoherent
<1>10. ASSUME NEW s \in Sockets, Watch(s) PROVE Coherence'
  <2>1. /\ pc[s] = "watch" /\ pc'[s] = "get" /\ UNCHANGED <<ver, snap, goal, msg, read, base, draft>>
        /\ Room' = Room
    BY <1>10 DEF Watch, TypeOK, Room
  <2>2. (base[s] = ver => Register!Successor(Room, draft[s], msg[s]))'
    BY <1>2, <2>1 DEF SocketCoherent, Committing, BeforeReply,
       Register!Successor, Register!Kept, Register!Written, Register!Deleted
  <2>3. SocketCoherent(s)'
    BY <1>2, <2>1, <2>2, WatchedOrRecorded DEF SocketCoherent, Committing, BeforeReply
  <2>4. (\A t \in Sockets \ {s} : SameHandler(t)) /\ NoneCleaned
    BY <1>1, <1>10 DEF Watch, SameHandler, NoneCleaned, TypeOK
  <2> QED BY <1>3, <1>10, <2>3, <2>4 DEF Watch
<1>11. ASSUME NEW s \in Sockets, GetVersion(s) PROVE Coherence'
  <2>1. /\ pc[s] = "get" /\ pc'[s] = "check" /\ read'[s] = ver
        /\ UNCHANGED <<ver, snap, goal, msg, base, draft>> /\ Room' = Room
    BY <1>11 DEF GetVersion, TypeOK, Room
  <2>2. (base[s] = ver => Register!Successor(Room, draft[s], msg[s]))'
    BY <1>2, <2>1 DEF SocketCoherent, Committing, BeforeReply,
       Register!Successor, Register!Kept, Register!Written, Register!Deleted
  <2>3. SocketCoherent(s)'
    BY <1>1, <1>2, <2>1, <2>2, WatchedOrRecorded DEF SocketCoherent, Committing, BeforeReply
  <2> QED BY <1>3, <1>11, <2>3 DEF GetVersion, SameHandler, NoneCleaned, TypeOK
<1>12. ASSUME NEW s \in Sockets, Unwatch(s) PROVE Coherence'
  <2>1. SocketCoherent(s)'
    BY <1>2, <1>12 DEF Unwatch, SocketCoherent, Committing, BeforeReply, TypeOK
  <2>2. (\A t \in Sockets \ {s} : SameHandler(t)) /\ NoneCleaned
    BY <1>1, <1>12 DEF Unwatch, SameHandler, NoneCleaned, TypeOK
  <2> QED BY <1>3, <1>12, <2>1, <2>2 DEF Unwatch
<1>13. ASSUME NEW s \in Sockets, ExecAbort(s) PROVE Coherence'
  <2>1. /\ pc[s] = "check" /\ pc'[s] \in {"watch", "readVersion"}
        /\ goal'[s] \in {goal[s], "resync"} /\ Room' = Room
        /\ UNCHANGED <<ver, snap, events, cache, msg, read, base, draft>>
        /\ watch' = [watch EXCEPT ![NodeOf[s]] = "none"]
    BY <1>13 DEF ExecAbort, TypeOK, Room
  <2>2. (base[s] = ver => Register!Successor(Room, draft[s], msg[s]))'
    BY <1>2, <2>1 DEF SocketCoherent, Committing, BeforeReply,
       Register!Successor, Register!Kept, Register!Written, Register!Deleted
  <2>3. SocketCoherent(s)'
    BY <1>2, <2>1, <2>2 DEF SocketCoherent, Committing, BeforeReply
  <2>4. (\A t \in Sockets \ {s} : SameHandler(t)) /\ NoneCleaned
    BY <1>1, <1>13, <2>1 DEF ExecAbort, SameHandler, NoneCleaned, TypeOK
  <2> QED BY <1>3, <2>1, <2>3, <2>4
<1>14. ASSUME NEW s \in Sockets, FinishCommit(s) PROVE Coherence'
  <2> DEFINE st == [version |-> read[s] + 1, shapes |-> draft[s]]
  <2>1. /\ pc[s] = "committed" /\ pc'[s] = "idle"
        /\ cache' = [cache EXCEPT ![NodeOf[s]] = st]
        /\ UNCHANGED <<ver, snap, events, watch, goal, msg, read, base, draft>>
        /\ \A t \in Sockets \ {s} : SameHandler(t)
    BY <1>14 DEF FinishCommit, FinishCaching, SameHandler, TypeOK
  <2>2. /\ read[s] < ver /\ (read[s] + 1 = ver => draft[s] = Room)
        /\ read[s] \in Nat
    BY <1>2, <2>1 DEF SocketCoherent, TypeOK
  <2>3. st.version <= ver /\ (st.version = ver => st.shapes = Room)
    BY <1>1, <2>2
  <2>4. Room' = Room /\ NoneCleaned
    BY <2>1 DEF Room, NoneCleaned
  <2> HIDE DEF st
  <2>5. CacheCoherent'
    BY <1>1, <2>1, <2>3, <2>4, NewCacheCoherent
  <2>6. SocketCoherent(s)'
    BY <1>2, <2>1 DEF SocketCoherent, Committing, BeforeReply
  <2>7. \A t \in Sockets : SocketCoherent(t)'
    BY <2>1, <2>4, <2>6, OthersKeep
  <2> QED BY <2>1, <2>4, <2>5, <2>7, QuietCoherent
<1>15. ASSUME NEW n \in Nodes, NEW e \in events, ApplyRoomEvent(n, e) PROVE Coherence'
  <2> DEFINE st == [version |-> e.version, shapes |-> e.shapes]
  <2>1. UNCHANGED <<ver, snap, events, watch>> /\ \A t \in Sockets : SameHandler(t)
    BY <1>15 DEF ApplyRoomEvent, SameHandler
  <2>2. cache' = cache \/ cache' = [cache EXCEPT ![n] = st]
    BY <1>15 DEF ApplyRoomEvent
  <2>3. st.version <= ver /\ (st.version = ver => st.shapes = Room)
    BY <1>2 DEF EventsCoherent
  <2>4. Room' = Room /\ NoneCleaned
    BY <2>1 DEF Room, NoneCleaned
  <2> HIDE DEF st
  <2>5. CacheCoherent'
    BY <2>1, <2>2, <2>3, <2>4, SameCacheCoherent, NewCacheCoherent
  <2>6. \A t \in Sockets : SocketCoherent(t)'
    BY <2>1, <2>4, OthersKeep
  <2> QED BY <2>1, <2>4, <2>5, <2>6, QuietCoherent
<1>16. ASSUME NEW n \in Nodes, NEW e \in seen[n], ForgetEvent(n, e) PROVE Coherence'
  <2>1. UNCHANGED <<ver, snap, events, cache, watch>> /\ \A t \in Sockets : SameHandler(t)
    BY <1>16 DEF ForgetEvent, SameHandler
  <2>2. Room' = Room /\ NoneCleaned
    BY <2>1 DEF Room, NoneCleaned
  <2>3. \A t \in Sockets : SocketCoherent(t)'
    BY <2>1, <2>2, OthersKeep
  <2> QED BY <2>1, <2>2, <2>3, SameCacheCoherent, QuietCoherent
<1>17. ASSUME NEW n \in Nodes, Restart(n) PROVE Coherence'
  <2>1. /\ UNCHANGED <<ver, snap, events, goal, msg, read, base, draft>>
        /\ watch' = [watch EXCEPT ![n] = "none"]
        /\ cache' = [cache EXCEPT ![n] = NoSnapshot]
        /\ \A t \in Sockets : pc'[t] = IF NodeOf[t] = n THEN "idle" ELSE pc[t]
    BY <1>17 DEF Restart
  <2>2. Room' = Room /\ NoneCleaned
    BY <2>1 DEF Room, NoneCleaned, TypeOK
  <2>3. NoSnapshot.version <= ver /\ NoSnapshot.version # ver
    BY <1>1 DEF NoSnapshot
  <2>4. CacheCoherent'
    BY <2>1, <2>2, <2>3, NewCacheCoherent
  <2>5. ASSUME NEW t \in Sockets PROVE SocketCoherent(t)'
    <3>1. CASE NodeOf[t] = n
      BY <1>2, <2>1, <3>1 DEF SocketCoherent, Committing, BeforeReply
    <3>2. CASE NodeOf[t] # n
      BY <1>1, <2>1, <2>2, <3>2, OthersKeep DEF SameHandler
    <3> QED BY <3>1, <3>2
  <2> QED BY <2>1, <2>2, <2>4, <2>5, QuietCoherent
<1>18. ASSUME NEW n \in Nodes, Reconnect(n) PROVE Coherence'
  <2>1. /\ UNCHANGED <<ver, snap, events, cache, goal, msg, read, base, draft>>
        /\ watch' = [watch EXCEPT ![n] = "none"]
        /\ \A t \in Sockets : \/ pc'[t] = pc[t]
                              \/ /\ NodeOf[t] = n /\ pc[t] = "committed"
                                 /\ pc'[t] = "check"
    BY <1>18 DEF Reconnect
  <2>2. Room' = Room /\ NoneCleaned
    BY <2>1 DEF Room, NoneCleaned, TypeOK
  <2>3. ASSUME NEW t \in Sockets PROVE SocketCoherent(t)'
    <3>1. CASE pc'[t] = pc[t]
      BY <2>1, <2>2, <3>1, OthersKeep DEF SameHandler
    <3>2. CASE NodeOf[t] = n /\ pc[t] = "committed" /\ pc'[t] = "check"
      <4>1. /\ base[t] = read[t] /\ read[t] < ver /\ msg[t] \in MessagesOf[t]
            /\ read[t] \in Nat
        BY <1>2, <3>2 DEF SocketCoherent, BeforeReply, TypeOK
      <4>2. watch'[NodeOf[t]] = "none"
        BY <2>1, <3>2 DEF TypeOK
      <4>3. t \in unwatched'
        BY <3>2, <4>2 DEF Record
      <4>4. base'[t] # ver' /\ base'[t] <= ver' /\ read'[t] <= ver'
        BY <1>1, <2>1, <4>1
      <4> QED BY <2>1, <3>2, <4>1, <4>3, <4>4 DEF SocketCoherent, Committing, BeforeReply
    <3> QED BY <2>1, <3>1, <3>2
  <2> QED BY <2>1, <2>2, <2>3, SameCacheCoherent, QuietCoherent
<1> QED
  BY CommitCoherent, SeedCoherent, <1>4, <1>5, <1>6, <1>7, <1>8, <1>9, <1>10, <1>11,
     <1>12, <1>13, <1>14, <1>15, <1>16, <1>17, <1>18
  DEF Step, HandlerStep, InitializeRoomSync, CommitRoomSnapshot

\* One step keeps the invariant, whatever it is: Next and stuttering.
LEMMA NextCoherent ==
  TypeOK /\ CoherentUntilReseeded /\ [Next]_vars => CoherentUntilReseeded'
<1> SUFFICES ASSUME TypeOK, CoherentUntilReseeded, [Next]_vars, ~reseeded'
             PROVE  Coherence'
  BY DEF CoherentUntilReseeded
<1>1. CASE Step /\ Record
  <2>1. ~reseeded
    BY <1>1 DEF Record
  <2> QED BY <1>1, <2>1, StepCoherent DEF CoherentUntilReseeded
<1>2. CASE UNCHANGED vars
  <2>1. Coherence
    BY <1>2 DEF CoherentUntilReseeded, vars, mishaps
  <2> QED BY <1>2, <2>1 DEF Coherence, CacheCoherent, EventsCoherent, FirstVersion,
             SocketCoherent, Room, vars, state, mishaps, redis, node, handler,
             Register!Successor, Register!Kept, Register!Written, Register!Deleted
<1> QED BY <1>1, <1>2 DEF Next

\* The steps that write to Redis.
LEMMA OnlyTheseWrite ==
  ASSUME Step
  PROVE  \/ UNCHANGED <<ver, snap, events, committed>>
         \/ \E s \in Sockets : ExecCommit(s) \/ Seed(s)
<1> USE DEF redis, history
<1>1. ASSUME NEW s \in Sockets, HandlerStep(s)
      PROVE  UNCHANGED <<ver, snap, events, committed>> \/ ExecCommit(s) \/ Seed(s)
  <2>1. CASE InitializeRoomSync(s)
    BY <2>1 DEF InitializeRoomSync, ReadVersion, ReadSnapshot, MissSnapshot,
       RereadVersion, ReadDb, DbFails
  <2>2. CASE CommitRoomSnapshot(s)
    BY <2>2 DEF CommitRoomSnapshot, Watch, GetVersion, Unwatch, ExecAbort,
       FinishCommit, FinishCaching
  <2> QED BY <1>1, <2>1, <2>2 DEF HandlerStep
<1>2. ASSUME NEW s \in Sockets,
             Join(s) \/ \E m \in MessagesOf[s] : ReceiveSnapshot(s, m)
      PROVE  UNCHANGED <<ver, snap, events, committed>>
  BY <1>2 DEF Join, ReceiveSnapshot
<1>3. ASSUME NEW n \in Nodes, \/ \E e \in events : ApplyRoomEvent(n, e)
                              \/ \E e \in seen[n] : ForgetEvent(n, e)
                              \/ Restart(n) \/ Reconnect(n)
      PROVE  UNCHANGED <<ver, snap, events, committed>>
  BY <1>3 DEF ApplyRoomEvent, ForgetEvent, Restart, Reconnect
<1> QED BY <1>1, <1>2, <1>3 DEF Step

\* An EXEC of a handler that is not watched is recorded.
LEMMA UnwatchedRecorded ==
  ASSUME TypeOK, Record, NEW s \in Sockets, ExecCommit(s), ~overwritten'
  PROVE  s \notin unwatched
  BY DEF TypeOK, Record, ExecCommit, ExecStoring

LEMMA NextKeysAgree ==
  TypeOK /\ CoherentUntilReseeded /\ KeysAgree /\ [Next]_vars => KeysAgree'
<1> SUFFICES ASSUME TypeOK, CoherentUntilReseeded, KeysAgree, [Next]_vars,
                    ~reseeded', ~overwritten'
             PROVE  VersionMatchesSnapshot'
  BY DEF KeysAgree
<1>1. CASE Step /\ Record
  <2>1. Coherence /\ VersionMatchesSnapshot
    BY <1>1 DEF Record, CoherentUntilReseeded, KeysAgree
  <2>2. ASSUME NEW s \in Sockets, ExecCommit(s) PROVE VersionMatchesSnapshot'
    <3>1. read[s] = ver
      BY <1>1, <2>1, <2>2, CommitCoherent, UnwatchedRecorded
    <3> QED BY <2>2, <3>1 DEF ExecCommit, ExecStoring, VersionMatchesSnapshot
  <2>3. ASSUME NEW s \in Sockets, Seed(s) PROVE VersionMatchesSnapshot'
    BY <1>1, <2>1, <2>3, SeedCoherent DEF VersionMatchesSnapshot
  <2>4. CASE UNCHANGED <<ver, snap>>
    BY <2>1, <2>4 DEF VersionMatchesSnapshot
  <2> QED BY <1>1, <2>2, <2>3, <2>4, OnlyTheseWrite
<1>2. CASE UNCHANGED vars
  BY <1>2 DEF KeysAgree, VersionMatchesSnapshot, vars, state, mishaps, redis
<1> QED BY <1>1, <1>2 DEF Next

(***************************************************************************)
(* What nodes, caches, events and handlers believe about the current       *)
(* version is true until a node seeds from Postgres a room that was        *)
(* committed to meanwhile; and Redis' two keys agree until that or until   *)
(* an EXEC is made after its WATCH was ended.  For any number of sockets   *)
(* on a node, cold or warm, with restarts and lost connections.            *)
(***************************************************************************)
THEOREM RoomIsCoherent == Spec => [](CoherentUntilReseeded /\ KeysAgree)
<1>1. Init => CoherentUntilReseeded /\ KeysAgree
  <2>1. Init => KeysAgree
    BY DEF Init, KeysAgree, VersionMatchesSnapshot
  <2> QED BY <2>1, InitCoherent DEF CoherentUntilReseeded
<1> QED BY <1>1, NextCoherent, NextKeysAgree, TypeCorrect, PTL DEF Spec

\* The version key and the room in Redis are the register of RoomRegister:
\* commitRoomSnapshot changes both, or neither, in one step.  Excepted are an
\* EXEC that is made without its WATCH and what follows a late seed.
THEOREM RoomImplementsRegister == Spec => ImplementsRegister
<1>1. Init => Register!Init
  BY DEF Init, Register!Init, Room
<1>2. ASSUME TypeOK, CoherentUntilReseeded, [Next]_vars
      PROVE  [\/ Register!Commit
              \/ \E s \in unwatched : ExecCommit(s)
              \/ reseeded']_<<ver, Room>>
  <2>1. CASE UNCHANGED vars
    BY <2>1 DEF vars, state, redis, Room
  <2>2. CASE Step /\ Record /\ ~reseeded'
    <3>1. Coherence
      BY <1>2, <2>2 DEF Record, CoherentUntilReseeded
    <3>2. ASSUME NEW s \in Sockets, ExecCommit(s), s \notin unwatched
          PROVE  Register!Commit
      <4>1. /\ pc[s] = "check" /\ read[s] = base[s] /\ ver' = ver + 1
        BY <3>2 DEF ExecCommit, ExecStoring
      <4>2. base[s] = ver /\ Room' = draft[s]
        BY <1>2, <2>2, <3>1, <3>2, <4>1, CommitCoherent
      <4>3. Register!Successor(Room, draft[s], msg[s]) /\ msg[s] \in AllMessages
        BY <3>1, <4>1, <4>2 DEF Coherence, SocketCoherent, Committing, BeforeReply, AllMessages
      <4> QED BY <4>1, <4>2, <4>3 DEF Register!Commit, Register!Successor,
                 Register!Kept, Register!Written, Register!Deleted
    <3>3. ASSUME NEW s \in Sockets, Seed(s) PROVE UNCHANGED <<ver, Room>>
      BY <1>2, <2>2, <3>1, <3>3, SeedCoherent
    <3>4. CASE UNCHANGED <<ver, snap>>
      BY <3>4 DEF Room
    <3> QED BY <2>2, <3>2, <3>3, <3>4, OnlyTheseWrite
  <2> QED BY <1>2, <2>1, <2>2 DEF Next
<1> QED BY <1>1, <1>2, TypeCorrect, RoomIsCoherent, PTL DEF Spec, ImplementsRegister

(***************************************************************************)
(* No commit puts the version key back, whoever ended its WATCH; only      *)
(* setRoomSnapshot does, of a room that was committed to since the node    *)
(* missed its snapshot.                                                    *)
(***************************************************************************)
THEOREM VersionGoesForward == Spec => OnlySeedsGoBack
<1>1. ASSUME TypeOK, [Next]_vars
      PROVE  [ver' >= ver \/ (ver > 0 /\ \E s \in Sockets : Seed(s))]_vars
  <2>1. ASSUME NEW s \in Sockets, ExecCommit(s) PROVE ver' >= ver
    BY <1>1, <2>1 DEF ExecCommit, ExecStoring, TypeOK
  <2>2. ASSUME NEW s \in Sockets, Seed(s), ~(ver > 0) PROVE ver' >= ver
    <3>1. ver = 0 /\ read[s] >= 0
      BY <1>1, <2>2 DEF TypeOK
    <3> QED BY <2>2, <3>1 DEF Seed
  <2>3. CASE UNCHANGED ver
    BY <1>1, <2>3 DEF TypeOK
  <2> QED BY <1>1, <2>1, <2>2, <2>3, OnlyTheseWrite DEF Next
<1> QED BY <1>1, TypeCorrect, PTL DEF Spec, OnlySeedsGoBack

-----------------------------------------------------------------------------
(***************************************************************************)
(* No committed shape is lost.  The invariant is that every tombstone and  *)
(* every draft came from the snapshots received: Retained.                 *)
(***************************************************************************)
Asked(R, i, d) == \E r \in R : r.dels[i] = d
Hidden(R, i, w) == \E r \in R : r.dels[i] # Absent /\ AtMost(w, r.dels[i])

TombsAsked == \A n \in Nodes, i \in Ids :
  tombs[n][i] # Absent => Asked(requested, i, tombs[n][i])

EventsAsked == \A e \in events, i \in Ids :
  e.dels[i] # Absent => Asked(requested, i, e.dels[i])

SocketRetains(s) ==
  /\ pc[s] \in BeforeReply \/ goal[s] = "merge" => msg[s] \in requested
  /\ pc[s] \in BeforeReply => \A i \in Ids :
       AtMost(msg[s].writes[i], draft[s][i]) \/ Hidden(requested, i, msg[s].writes[i])

Retained == /\ TombsAsked
            /\ EventsAsked
            /\ \A s \in Sockets : SocketRetains(s)
            /\ NoLostUpdate

LEMMA MergeCellRetains ==
  ASSUME NEW c \in Cell, NEW d \in MaybeMeta, NEW w \in MaybeMeta
  PROVE  LET n == MergeCell(c, d, w) IN
         /\ \/ AtMost(w, n.shape)
            \/ d # Absent /\ AtMost(w, d)
            \/ c.tomb # Absent /\ AtMost(w, c.tomb)
         /\ n.tomb \in {c.tomb, d, Absent}
<1> DEFINE k == DeleteCell(c, d)
           n == WriteCell(k, w)
<1>1. k \in Cell /\ k.shape \in MaybeMeta /\ k.tomb \in MaybeMeta
      /\ k.tomb \in {c.tomb, d} /\ n.shape \in MaybeMeta /\ (k.tomb = d => d = Absent \/ d # Absent)
  BY AbsentIn DEF Cell, DeleteCell, WriteCell
<1>2. MergeCell(c, d, w) = n
  BY DEF MergeCell
<1>3. n.tomb \in {k.tomb, Absent}
  BY DEF WriteCell
<1>4. \/ AtMost(w, n.shape)
      \/ k.tomb # Absent /\ AtMost(w, k.tomb)
  <2>1. CASE w = Absent
    BY <1>1, <2>1, AbsentBelow
  <2>2. CASE w # Absent /\ AtMost(w, k.tomb)
    BY <1>1, <2>2, AtMostAbsent
  <2>3. CASE ~AtMost(w, k.tomb) /\ ~AtMost(k.shape, w)
    BY <1>1, <2>3, AtMostTotal DEF WriteCell
  <2>4. CASE w # Absent /\ ~AtMost(w, k.tomb) /\ AtMost(k.shape, w)
    BY <2>4, AtMostReflexive DEF WriteCell
  <2> QED BY <2>1, <2>2, <2>3, <2>4
<1> HIDE DEF n, k
<1> QED BY <1>1, <1>2, <1>3, <1>4

\* Clients only ever ask for more.
LEMMA RequestsGrow ==
  ASSUME requested \subseteq requested'
  PROVE  /\ \A i, d : Asked(requested, i, d) => Asked(requested', i, d)
         /\ \A i, w : Hidden(requested, i, w) => Hidden(requested', i, w)
  BY DEF Asked, Hidden

\* A new draft has every write of its snapshot that no deletion hides.
LEMMA BeginCommitRetains ==
  ASSUME TypeOK, Retained, NEW s \in Sockets, NEW m \in Snapshots, NEW st \in RoomState,
         BeginCommit(s, m, st), requested \subseteq requested', m \in requested'
  PROVE  /\ \A i \in Ids : AtMost(m.writes[i], draft'[s][i]) \/ Hidden(requested', i, m.writes[i])
         /\ TombsAsked'
<1> DEFINE n == NodeOf[s]
<1>1. /\ n \in Nodes /\ st.shapes \in Entries /\ tombs[n] \in Entries
      /\ m.writes \in Entries /\ m.dels \in Entries
  BY RoomSyncAssumption DEF RoomState, TypeOK, Snapshots
<1>2. /\ draft'[s] = MergedShapes(st.shapes, tombs[n], m.dels, m.writes)
      /\ tombs'[n] = MergedTombs(st.shapes, tombs[n], m.dels, m.writes)
      /\ \A k \in Nodes : k # n => tombs'[k] = tombs[k]
  BY <1>1 DEF BeginCommit, BeginCommitOf, TypeOK
<1>3. ASSUME NEW i \in Ids
      PROVE  /\ AtMost(m.writes[i], draft'[s][i]) \/ Hidden(requested', i, m.writes[i])
             /\ tombs'[n][i] # Absent => Asked(requested', i, tombs'[n][i])
  <2> DEFINE c == [shape |-> st.shapes[i], tomb |-> tombs[n][i]]
             r == MergeCell(c, m.dels[i], m.writes[i])
  <2>1. /\ c \in Cell /\ m.dels[i] \in MaybeMeta /\ m.writes[i] \in MaybeMeta
        /\ c.tomb = tombs[n][i]
    BY <1>1 DEF Cell, Entries
  <2>2. draft'[s][i] = r.shape /\ tombs'[n][i] = r.tomb
    BY <1>2 DEF MergedShapes, MergedTombs, MergedCell
  <2> HIDE DEF c
  <2>3. /\ \/ AtMost(m.writes[i], r.shape)
           \/ m.dels[i] # Absent /\ AtMost(m.writes[i], m.dels[i])
           \/ c.tomb # Absent /\ AtMost(m.writes[i], c.tomb)
        /\ r.tomb \in {c.tomb, m.dels[i], Absent}
    BY <2>1, MergeCellRetains
  <2> HIDE DEF r
  <2>4. c.tomb # Absent => Asked(requested', i, c.tomb)
    BY <1>1, <2>1, RequestsGrow DEF Retained, TombsAsked
  <2>5. m.dels[i] # Absent => Asked(requested', i, m.dels[i])
    BY DEF Asked
  <2>6. ASSUME NEW d, d # Absent, Asked(requested', i, d), AtMost(m.writes[i], d)
        PROVE  Hidden(requested', i, m.writes[i])
    BY <2>6 DEF Asked, Hidden
  <2>7. AtMost(m.writes[i], draft'[s][i]) \/ Hidden(requested', i, m.writes[i])
    BY <2>2, <2>3, <2>4, <2>5, <2>6
  <2> QED BY <2>2, <2>3, <2>4, <2>5, <2>7
<1>4. ASSUME NEW k \in Nodes, k # n, NEW i \in Ids, tombs'[k][i] # Absent
      PROVE  Asked(requested', i, tombs'[k][i])
  BY <1>2, <1>4, RequestsGrow DEF Retained, TombsAsked
<1> HIDE DEF n
<1>5. \A k \in Nodes, i \in Ids : tombs'[k][i] # Absent => Asked(requested', i, tombs'[k][i])
  BY <1>3, <1>4
<1> QED BY <1>3, <1>5 DEF TombsAsked

\* What holds of a handler goes on holding while it waits.
LEMMA WaitingRetains ==
  ASSUME Retained, requested \subseteq requested', NEW t \in Sockets, SameHandler(t)
  PROVE  SocketRetains(t)'
<1>1. SocketRetains(t)
  BY DEF Retained
<1>2. /\ pc'[t] \in BeforeReply \/ goal'[t] = "merge" => msg'[t] \in requested'
      /\ pc'[t] \in BeforeReply => \A i \in Ids :
           AtMost(msg'[t].writes[i], draft'[t][i])
             \/ Hidden(requested', i, msg'[t].writes[i])
  BY <1>1, RequestsGrow DEF SocketRetains, SameHandler, Committing, BeforeReply
<1> QED BY <1>2 DEF SocketRetains, Committing, BeforeReply, Hidden, AtMost

\* A handler that is not committing after the step has no draft to answer for.
LEMMA NotCommittingRetains ==
  ASSUME Retained, UNCHANGED requested, NEW t \in Sockets, pc'[t] \notin BeforeReply,
         msg'[t] = msg[t], goal'[t] \in {goal[t], "join", "resync"}
  PROVE  SocketRetains(t)'
  BY DEF Retained, SocketRetains, Committing, BeforeReply

\* A draft is started for the snapshot m: the rest of the proof for its socket.
LEMMA StartRetains ==
  ASSUME TypeOK, Retained, NEW s \in Sockets, NEW m \in Snapshots, NEW st \in RoomState,
         BeginCommit(s, m, st), requested \subseteq requested', m \in requested',
         msg'[s] = m, Room' = Room, UNCHANGED <<committed, events>>,
         \A t \in Sockets \ {s} : SameHandler(t)
  PROVE  Retained'
<1>1. /\ \A i \in Ids : AtMost(m.writes[i], draft'[s][i])
                         \/ Hidden(requested', i, m.writes[i])
      /\ TombsAsked'
  BY BeginCommitRetains
<1>2. SocketRetains(s)'
  BY <1>1 DEF SocketRetains, Hidden, AtMost
<1>3. \A t \in Sockets \ {s} : SocketRetains(t)'
  BY WaitingRetains
<1>4. EventsAsked'
  BY RequestsGrow DEF Retained, EventsAsked, Asked
<1>5. NoLostUpdate'
  BY DEF Retained, NoLostUpdate
<1> QED BY <1>1, <1>2, <1>3, <1>4, <1>5 DEF Retained

\* A step that starts and ends no commit.
LEMMA QuietRetains ==
  ASSUME Retained, TombsAsked', Room' = Room,
         UNCHANGED <<committed, events, requested>>,
         \A t \in Sockets : \/ SameHandler(t)
                           \/ /\ pc'[t] \notin BeforeReply
                              /\ msg'[t] = msg[t]
                              /\ goal'[t] \in {goal[t], "join", "resync"}
  PROVE  Retained'
<1>1. \A t \in Sockets : SocketRetains(t)'
  BY WaitingRetains, NotCommittingRetains
<1>2. EventsAsked' /\ NoLostUpdate'
  BY DEF Retained, EventsAsked, Asked, NoLostUpdate
<1> QED BY <1>1, <1>2 DEF Retained

\* The commit: what the snapshot had is kept, renewed or deleted on request.
LEMMA CommitRetains ==
  ASSUME TypeOK, Coherence, Record, ~overwritten', Retained,
         NEW s \in Sockets, ExecCommit(s)
  PROVE  Retained'
<1>1. /\ pc[s] = "check" /\ read[s] = base[s] /\ watch[NodeOf[s]] # "dirty"
      /\ committed' = committed \cup {msg[s]}
      /\ pc' = [pc EXCEPT ![s] = "committed"]
      /\ UNCHANGED <<tombs, requested, msg, goal, read, base, draft>>
      /\ \A e \in events' : e \in events \/ e.dels = msg[s].dels
  BY DEF ExecCommit, ExecStoring, node
<1>2. /\ SocketCoherent(s) /\ SocketRetains(s)
      /\ watch[NodeOf[s]] \in {"none", "clean", "dirty"}
  BY RoomSyncAssumption DEF Coherence, Retained, TypeOK
<1>3. Register!Successor(Room, draft[s], msg[s]) /\ Room' = draft[s]
  BY <1>1, <1>2, CommitCoherent, UnwatchedRecorded DEF SocketCoherent, Committing
<1>4. msg[s] \in requested /\ msg[s] \in Snapshots /\ Room \in Entries
      /\ committed \subseteq Snapshots /\ draft[s] \in Entries
  BY <1>1, <1>2, RoomSyncAssumption
  DEF SocketRetains, Committing, BeforeReply, TypeOK, RoomState, Room
<1>5. ASSUME NEW m \in committed', NEW i \in Ids
      PROVE  AtMost(m.writes[i], draft[s][i]) \/ Hidden(requested, i, m.writes[i])
  <2> DEFINE w == m.writes[i]
             old == Room[i]
             d == msg[s].dels[i]
  <2>1. CASE m = msg[s]
    BY <1>1, <1>2, <2>1 DEF SocketRetains, Committing, BeforeReply
  <2>2. CASE m \in committed
    <3>1. AtMost(w, old) \/ Hidden(requested, i, w)
      BY <2>2 DEF Retained, NoLostUpdate, Hidden
    <3>2. w \in MaybeMeta /\ old \in MaybeMeta /\ d \in MaybeMeta
          /\ draft[s][i] \in MaybeMeta
      BY <1>4, <2>2 DEF Snapshots, Entries
    <3>3. \/ draft[s][i] = old
          \/ AtMost(old, draft[s][i])
          \/ d # Absent /\ AtMost(old, d)
      BY <1>3 DEF Register!Successor, Register!Kept, Register!Written,
         Register!Deleted, Register!Absent, Absent, Register!AtMost, AtMost
    <3>4. AtMost(w, old) => AtMost(w, draft[s][i]) \/ (d # Absent /\ AtMost(w, d))
      BY <3>2, <3>3, AtMostTransitive
    <3>5. d # Absent /\ AtMost(w, d) => Hidden(requested, i, w)
      BY <1>4 DEF Hidden
    <3> QED BY <3>1, <3>4, <3>5
  <2> QED BY <1>1, <2>1, <2>2
<1>6. NoLostUpdate'
  BY <1>1, <1>3, <1>5 DEF NoLostUpdate, Hidden, AtMost
<1>7. TombsAsked' /\ EventsAsked'
  BY <1>1, <1>4 DEF Retained, TombsAsked, EventsAsked, Asked
<1>8. \A t \in Sockets : SocketRetains(t)'
  <2>1. ASSUME NEW t \in Sockets, t # s PROVE SocketRetains(t)'
    BY <1>1, <2>1, WaitingRetains DEF SameHandler, TypeOK
  <2>2. SocketRetains(s)'
    BY <1>1, <1>2 DEF SocketRetains, Committing, BeforeReply, Hidden, AtMost
  <2> QED BY <2>1, <2>2
<1> QED BY <1>6, <1>7, <1>8 DEF Retained

\* initializeRoomSync is done: a draft is started, or nothing is.
LEMMA ReadyRetains ==
  ASSUME TypeOK, Retained, NEW s \in Sockets, NEW st \in RoomState, RoomReady(s, st),
         UNCHANGED <<committed, events, requested, goal, msg, read>>, Room' = Room
  PROVE  Retained'
<1>1. CASE goal[s] = "merge"
  <2>1. BeginCommit(s, msg[s], st)
    BY <1>1 DEF RoomReady
  <2>2. msg[s] \in requested /\ msg[s] \in Snapshots
    BY <1>1 DEF Retained, SocketRetains, TypeOK
  <2>3. \A t \in Sockets \ {s} : SameHandler(t)
    BY RoomReadyOthers
  <2> QED BY <2>1, <2>2, <2>3, StartRetains
<1>2. CASE goal[s] # "merge"
  <2>1. pc' = [pc EXCEPT ![s] = "idle"] /\ UNCHANGED <<tombs, base, draft>>
    BY <1>2 DEF RoomReady
  <2>2. TombsAsked'
    BY <2>1 DEF Retained, TombsAsked, Asked
  <2> QED BY <2>1, <2>2, QuietRetains DEF SameHandler, Committing, BeforeReply, TypeOK
<1> QED BY <1>1, <1>2

LEMMA StepRetained ==
  ASSUME TypeOK, Coherence, Retained, Step, Record, ~reseeded', ~overwritten'
  PROVE  Retained'
<1> USE DEF redis, node, handler, history
<1>1. ASSUME NEW s \in Sockets, Join(s) PROVE Retained'
  BY <1>1, QuietRetains
  DEF Join, Room, Retained, TombsAsked, SameHandler, Committing, BeforeReply, TypeOK
<1>2. ASSUME NEW s \in Sockets, NEW m \in MessagesOf[s], ReceiveSnapshot(s, m)
      PROVE  Retained'
  <2>1. m \in Snapshots /\ NodeOf[s] \in Nodes
    BY RoomSyncAssumption
  <2>2. /\ requested' = requested \cup {m} /\ msg'[s] = m
        /\ UNCHANGED <<committed, events>> /\ Room' = Room
    BY <1>2 DEF ReceiveSnapshot, TypeOK, Room
  <2>3. CASE cache[NodeOf[s]] # NoSnapshot
    <3>1. BeginCommit(s, m, cache[NodeOf[s]]) /\ cache[NodeOf[s]] \in RoomState
      BY <1>2, <2>1, <2>3 DEF ReceiveSnapshot, TypeOK
    <3>2. \A t \in Sockets \ {s} : SameHandler(t)
      BY <1>2, <3>1 DEF ReceiveSnapshot, BeginCommit, BeginCommitOf, SameHandler, TypeOK
    <3> QED BY <2>1, <2>2, <3>1, <3>2, StartRetains
  <2>4. CASE cache[NodeOf[s]] = NoSnapshot
    <3>1. /\ pc' = [pc EXCEPT ![s] = "readVersion"] /\ UNCHANGED <<tombs, draft, read, base>>
          /\ msg' = [msg EXCEPT ![s] = m] /\ goal' = [goal EXCEPT ![s] = "merge"]
      BY <1>2, <2>4 DEF ReceiveSnapshot
    <3>2. \A t \in Sockets \ {s} : SocketRetains(t)'
      BY <2>2, <3>1, WaitingRetains DEF SameHandler, TypeOK
    <3>3. SocketRetains(s)'
      BY <2>2, <3>1 DEF SocketRetains, Committing, BeforeReply, TypeOK
    <3>4. TombsAsked' /\ EventsAsked'
      BY <2>2, <3>1, RequestsGrow DEF Retained, TombsAsked, EventsAsked, Asked
    <3>5. NoLostUpdate'
      BY <2>2 DEF Retained, NoLostUpdate
    <3> QED BY <3>2, <3>3, <3>4, <3>5 DEF Retained
  <2> QED BY <2>3, <2>4
<1>3. ASSUME NEW s \in Sockets, ReadSnapshot(s) PROVE Retained'
  <2> DEFINE st == [version |-> read[s], shapes |-> snap.shapes]
  <2>1. /\ st \in RoomState /\ RoomReady(s, st)
        /\ UNCHANGED <<events, history, goal, msg, read>> /\ Room' = Room
    BY <1>3 DEF ReadSnapshot, TypeOK, RoomState, Room
  <2> HIDE DEF st
  <2> QED BY <2>1, ReadyRetains
<1>4. ASSUME NEW s \in Sockets, Seed(s) PROVE Retained'
  <2> DEFINE st == [version |-> read[s], shapes |-> draft[s]]
  <2>1. /\ st \in RoomState /\ RoomReady(s, st)
        /\ UNCHANGED <<events, history, goal, msg, read>>
    BY <1>4 DEF Seed, TypeOK, RoomState
  <2>2. Room' = Room
    BY <1>4, SeedCoherent
  <2> HIDE DEF st
  <2> QED BY <2>1, <2>2, ReadyRetains
<1>5. ASSUME NEW s \in Sockets,
             ReadVersion(s) \/ MissSnapshot(s) \/ RereadVersion(s) \/ DbFails(s)
      PROVE  Retained'
  BY <1>5, QuietRetains
  DEF ReadVersion, MissSnapshot, RereadVersion, DbFails, Room, Retained, TombsAsked,
      SameHandler, Committing, BeforeReply, TypeOK
<1>6. ASSUME NEW s \in Sockets, ReadDb(s) PROVE Retained'
  BY <1>6, QuietRetains
  DEF ReadDb, Retained, TombsAsked, SameHandler, Committing, BeforeReply, TypeOK, Room
<1>7. ASSUME NEW s \in Sockets, Watch(s) \/ GetVersion(s) PROVE Retained'
  <2>1. /\ pc[s] \in Committing /\ UNCHANGED <<snap, events, node, history, goal, msg, draft>>
        /\ \A t \in Sockets \ {s} : SameHandler(t)
    BY <1>7 DEF Watch, GetVersion, SameHandler, Committing, BeforeReply, TypeOK
  <2>2. SocketRetains(s)'
    BY <2>1 DEF Retained, SocketRetains, Committing, BeforeReply
  <2>3. \A t \in Sockets \ {s} : SocketRetains(t)'
    BY <2>1, WaitingRetains
  <2> QED BY <2>1, <2>2, <2>3 DEF Retained, TombsAsked, EventsAsked, NoLostUpdate, Room
<1>8. ASSUME NEW s \in Sockets, Unwatch(s) \/ FinishCommit(s) PROVE Retained'
  BY <1>8, QuietRetains
  DEF Unwatch, FinishCommit, FinishCaching, Room, Retained, TombsAsked, SameHandler,
      Committing, BeforeReply, TypeOK
<1>9. ASSUME NEW s \in Sockets, ExecCommit(s) PROVE Retained'
  BY <1>9, CommitRetains
<1>10. ASSUME NEW s \in Sockets, ExecAbort(s) PROVE Retained'
  <2>1. /\ pc[s] \in Committing /\ UNCHANGED <<snap, events, node, history, msg, draft>>
        /\ goal'[s] \in {goal[s], "resync"}
        /\ \A t \in Sockets \ {s} : SameHandler(t)
    BY <1>10 DEF ExecAbort, SameHandler, Committing, BeforeReply, TypeOK
  <2>2. SocketRetains(s)'
    BY <2>1 DEF Retained, SocketRetains, Committing, BeforeReply
  <2>3. \A t \in Sockets \ {s} : SocketRetains(t)'
    BY <2>1, WaitingRetains
  <2> QED BY <2>1, <2>2, <2>3 DEF Retained, TombsAsked, EventsAsked, NoLostUpdate, Room
<1>11. ASSUME NEW n \in Nodes, NEW e \in events, ApplyRoomEvent(n, e) PROVE Retained'
  <2>1. \A k \in Nodes, i \in Ids : tombs'[k][i] \in {tombs[k][i], e.dels[i]}
    BY <1>11 DEF ApplyRoomEvent, TypeOK
  <2>2. TombsAsked'
    BY <1>11, <2>1 DEF Retained, TombsAsked, EventsAsked, Asked, ApplyRoomEvent
  <2> QED BY <1>11, <2>2, QuietRetains DEF ApplyRoomEvent, SameHandler, Room
<1>12. ASSUME NEW n \in Nodes, NEW e \in seen[n], ForgetEvent(n, e) PROVE Retained'
  BY <1>12, QuietRetains DEF ForgetEvent, Room, Retained, TombsAsked, SameHandler
<1>13. ASSUME NEW n \in Nodes, Restart(n) PROVE Retained'
  <2>1. \A k \in Nodes, i \in Ids : tombs'[k][i] \in {tombs[k][i], Absent}
    BY <1>13 DEF Restart, NoEntries, TypeOK
  <2>2. TombsAsked'
    BY <1>13, <2>1 DEF Retained, TombsAsked, Restart
  <2> QED BY <1>13, <2>2, QuietRetains DEF Restart, Room, SameHandler, Committing, BeforeReply
<1>14. ASSUME NEW n \in Nodes, Reconnect(n) PROVE Retained'
  <2>1. /\ UNCHANGED <<snap, events, node, goal, msg, read, base, draft, requested, committed>>
        /\ \A t \in Sockets : \/ pc'[t] = pc[t]
                              \/ pc[t] = "committed" /\ pc'[t] = "check"
    BY <1>14 DEF Reconnect
  <2>2. ASSUME NEW t \in Sockets PROVE SocketRetains(t)'
    <3>1. SocketRetains(t)
      BY DEF Retained
    <3>2. (pc[t] \in BeforeReply) <=> (pc'[t] \in BeforeReply)
      BY <2>1 DEF Committing, BeforeReply
    <3> QED BY <2>1, <3>1, <3>2 DEF SocketRetains, Hidden, AtMost
  <2> QED BY <2>1, <2>2 DEF Retained, TombsAsked, EventsAsked, NoLostUpdate, Room
<1> QED
  BY <1>1, <1>2, <1>3, <1>4, <1>5, <1>6, <1>7, <1>8, <1>9, <1>10, <1>11, <1>12, <1>13, <1>14
  DEF Step, HandlerStep, InitializeRoomSync, CommitRoomSnapshot

(***************************************************************************)
(* UpdatesKept, for any number of nodes, sockets, ids, authors and         *)
(* snapshots: no committed shape is lost until an EXEC is made without its *)
(* WATCH or a late seed, with restarts and lost connections.               *)
(***************************************************************************)
KeptSoFar == overwritten \/ reseeded \/ Retained

THEOREM NothingLost == Spec => []UpdatesKept
<1>1. Init => KeptSoFar
  BY DEF Init, KeptSoFar, Retained, TombsAsked, EventsAsked, SocketRetains, NoLostUpdate,
     Committing, BeforeReply, NoEntries
<1>2. TypeOK /\ CoherentUntilReseeded /\ KeptSoFar /\ [Next]_vars => KeptSoFar'
  <2> SUFFICES ASSUME TypeOK, CoherentUntilReseeded, KeptSoFar, [Next]_vars,
                      ~reseeded', ~overwritten'
               PROVE  Retained'
    BY DEF KeptSoFar
  <2>1. CASE Step /\ Record
    <3>1. Coherence /\ Retained
      BY <2>1 DEF Record, CoherentUntilReseeded, KeptSoFar
    <3> QED BY <2>1, <3>1, StepRetained
  <2>2. CASE UNCHANGED vars
    <3>1. /\ Retained /\ UNCHANGED <<committed, events, requested, tombs>>
          /\ \A t \in Sockets : SameHandler(t)
      BY <2>2 DEF KeptSoFar, vars, state, mishaps, redis, node, handler, history, SameHandler
    <3>2. Room' = Room
      BY <2>2 DEF vars, state, redis, Room
    <3>3. TombsAsked'
      BY <3>1 DEF Retained, TombsAsked, Asked
    <3> QED BY <3>1, <3>2, <3>3, QuietRetains
  <2> QED BY <2>1, <2>2 DEF Next
<1>3. KeptSoFar => UpdatesKept
  BY DEF KeptSoFar, Retained, UpdatesKept
<1> QED BY <1>1, <1>2, <1>3, TypeCorrect, RoomIsCoherent, PTL DEF Spec

-----------------------------------------------------------------------------
(***************************************************************************)
(* A version names one commit: no two events and no two acknowledgements   *)
(* share it.  The versions in use are those of the acknowledgements and of *)
(* the handlers between EXEC and its reply; none is above the version key. *)
(***************************************************************************)
Issued ==
  /\ \A a \in acks : a.version <= ver
  /\ AckedOnce
  /\ \A s \in Sockets : pc[s] = "committed" =>
       /\ \A a \in acks : a.version # read[s] + 1
       /\ \A t \in Sockets \ {s} : pc[t] = "committed" => read[t] # read[s]
  /\ EventsAgree

LEMMA StepIssued ==
  ASSUME TypeOK, Coherence, Issued, Step, Record, ~reseeded', ~overwritten'
  PROVE  Issued'
<1> USE DEF redis, node, handler, history
<1>1. ASSUME NEW s \in Sockets, ExecCommit(s) PROVE Issued'
  <2>1. /\ pc[s] = "check" /\ read[s] = base[s] /\ watch[NodeOf[s]] # "dirty"
        /\ ver' = ver + 1 /\ pc' = [pc EXCEPT ![s] = "committed"]
        /\ UNCHANGED <<acks, read>>
        /\ \E e : e.version = read[s] + 1 /\ events' = events \cup {e}
    BY <1>1 DEF ExecCommit, ExecStoring
  <2>2. read[s] = ver /\ ver \in Nat /\ read \in [Sockets -> Nat]
        /\ \A a \in acks : a.version \in Nat
    BY <1>1, <2>1, CommitCoherent, UnwatchedRecorded DEF TypeOK
  <2>3. \A e \in events : e.version \in Nat /\ e.version <= ver
    BY DEF Coherence, EventsCoherent, TypeOK, Event
  <2>4. EventsAgree'
    BY <2>1, <2>2, <2>3 DEF Issued, EventsAgree
  <2>5. \A t \in Sockets : pc[t] = "committed" => read[t] < ver
    BY DEF Coherence, SocketCoherent
  <2>6. \A t \in Sockets : pc'[t] = IF t = s THEN "committed" ELSE pc[t]
    BY <2>1 DEF TypeOK
  <2>7. \A a \in acks : a.version <= ver
    BY DEF Issued
  <2>8. /\ \A a \in acks' : a.version <= ver'
        /\ AckedOnce'
    BY <2>1, <2>2, <2>7 DEF Issued, AckedOnce
  <2>9. ASSUME NEW t \in Sockets, pc'[t] = "committed"
        PROVE  /\ \A a \in acks' : a.version # read'[t] + 1
               /\ \A u \in Sockets \ {t} : pc'[u] = "committed" => read'[u] # read'[t]
    <3>1. CASE t = s
      BY <2>1, <2>2, <2>5, <2>6, <2>7, <3>1
    <3>2. CASE t # s
      <4>1. pc[t] = "committed" /\ read[t] < ver /\ read[t] \in Nat
        BY <2>2, <2>5, <2>6, <2>9, <3>2
      <4>2. \A a \in acks : a.version # read[t] + 1
        BY <4>1 DEF Issued
      <4>3. \A u \in Sockets \ {t} : pc[u] = "committed" => read[u] # read[t]
        BY <4>1 DEF Issued
      <4> QED BY <2>1, <2>2, <2>6, <4>1, <4>2, <4>3
    <3> QED BY <3>1, <3>2
  <2> QED BY <2>4, <2>8, <2>9 DEF Issued
<1>2. ASSUME NEW s \in Sockets, FinishCommit(s) PROVE Issued'
  <2>1. /\ pc[s] = "committed" /\ pc' = [pc EXCEPT ![s] = "idle"]
        /\ acks' = acks \cup {[socket |-> s, version |-> read[s] + 1]}
        /\ UNCHANGED <<ver, read, events>>
    BY <1>2 DEF FinishCommit, FinishCaching
  <2>2. read[s] < ver /\ ver \in Nat /\ read \in [Sockets -> Nat]
    BY <2>1 DEF Coherence, SocketCoherent, TypeOK
  <2>3. \A a \in acks : a.version # read[s] + 1 /\ a.version <= ver
    BY <2>1 DEF Issued
  <2>4. AckedOnce'
    BY <2>1, <2>3 DEF Issued, AckedOnce
  <2>5. \A a \in acks' : a.version <= ver'
    BY <2>1, <2>2, <2>3
  <2>6. ASSUME NEW t \in Sockets, pc'[t] = "committed"
        PROVE  /\ \A a \in acks' : a.version # read'[t] + 1
               /\ \A u \in Sockets \ {t} : pc'[u] = "committed" => read'[u] # read'[t]
    <3>1. t # s /\ pc[t] = "committed" /\ read[t] \in Nat
      BY <2>1, <2>2, <2>6 DEF TypeOK
    <3>2. read[t] # read[s] /\ \A a \in acks : a.version # read[t] + 1
      BY <2>1, <3>1 DEF Issued
    <3>3. \A u \in Sockets \ {t} : pc[u] = "committed" => read[u] # read[t]
      BY <3>1 DEF Issued
    <3>4. \A u \in Sockets : pc'[u] = "committed" => pc[u] = "committed"
      BY <2>1 DEF TypeOK
    <3> QED BY <2>1, <2>2, <3>1, <3>2, <3>3, <3>4
  <2>7. EventsAgree'
    BY <2>1 DEF Issued, EventsAgree
  <2> QED BY <2>4, <2>5, <2>6, <2>7 DEF Issued
<1>3. ASSUME UNCHANGED <<ver, events, acks>>,
             \A t \in Sockets : pc'[t] = "committed" => pc[t] = "committed" /\ read'[t] = read[t]
      PROVE  Issued'
  BY <1>3 DEF Issued, AckedOnce, EventsAgree
<1>4. ASSUME NEW s \in Sockets,
             ReadVersion(s) \/ MissSnapshot(s) \/ RereadVersion(s) \/ DbFails(s)
             \/ Watch(s) \/ GetVersion(s) \/ Unwatch(s) \/ ExecAbort(s) \/ Join(s)
      PROVE  Issued'
  BY <1>3, <1>4
  DEF ReadVersion, MissSnapshot, RereadVersion, DbFails, Watch, GetVersion,
      Unwatch, ExecAbort, Join, TypeOK
<1>5. ASSUME NEW s \in Sockets, Seed(s) PROVE Issued'
  <2>1. ver' = ver
    BY <1>5, SeedCoherent
  <2> QED BY <1>3, <1>5, <2>1 DEF Seed, RoomReady, BeginCommit, BeginCommitOf, TypeOK
<1>6. ASSUME NEW s \in Sockets, ReadSnapshot(s) \/ ReadDb(s) PROVE Issued'
  BY <1>3, <1>6 DEF ReadSnapshot, ReadDb, RoomReady, BeginCommit, BeginCommitOf, TypeOK
<1>7. ASSUME NEW s \in Sockets, NEW m \in MessagesOf[s], ReceiveSnapshot(s, m)
      PROVE  Issued'
  BY <1>3, <1>7 DEF ReceiveSnapshot, BeginCommit, BeginCommitOf, TypeOK
<1>8. ASSUME NEW n \in Nodes, \/ \E e \in events : ApplyRoomEvent(n, e)
                              \/ \E e \in seen[n] : ForgetEvent(n, e)
                              \/ Restart(n) \/ Reconnect(n)
      PROVE  Issued'
  BY <1>3, <1>8 DEF ApplyRoomEvent, ForgetEvent, Restart, Reconnect
<1> QED
  BY <1>1, <1>2, <1>4, <1>5, <1>6, <1>7, <1>8
  DEF Step, HandlerStep, InitializeRoomSync, CommitRoomSnapshot

(***************************************************************************)
(* Acknowledgements and events order the commits, whatever order the nodes *)
(* hear of them in, until an EXEC is made without its WATCH or a late seed.*)
(***************************************************************************)
IssuedSoFar == overwritten \/ reseeded \/ Issued

THEOREM VersionsAreUnique == Spec => []VersionsNameCommits
<1>1. Init => IssuedSoFar
  BY DEF Init, IssuedSoFar, Issued, AckedOnce, EventsAgree
<1>2. TypeOK /\ CoherentUntilReseeded /\ IssuedSoFar /\ [Next]_vars => IssuedSoFar'
  <2> SUFFICES ASSUME TypeOK, CoherentUntilReseeded, IssuedSoFar, [Next]_vars,
                      ~reseeded', ~overwritten'
               PROVE  Issued'
    BY DEF IssuedSoFar
  <2>1. CASE Step /\ Record
    <3>1. Coherence /\ Issued
      BY <2>1 DEF Record, CoherentUntilReseeded, IssuedSoFar
    <3> QED BY <2>1, <3>1, StepIssued
  <2>2. CASE UNCHANGED vars
    <3>1. Issued /\ UNCHANGED <<ver, events, acks, pc, read>>
      BY <2>2 DEF IssuedSoFar, vars, state, mishaps, redis, handler, history
    <3> QED BY <3>1 DEF Issued, AckedOnce, EventsAgree
  <2> QED BY <2>1, <2>2 DEF Next
<1>3. IssuedSoFar => VersionsNameCommits
  BY DEF IssuedSoFar, Issued, VersionsNameCommits
<1> QED BY <1>1, <1>2, <1>3, TypeCorrect, RoomIsCoherent, PTL DEF Spec

=============================================================================
