------------------------ MODULE CanvasClient_proofs ------------------------
(***************************************************************************)
(* Theorems about CanvasClient for every set of shapes, every budget and   *)
(* every number of edits, commits of others and mishaps: type correctness, *)
(* no shape is deleted that nobody removed, stamps are always new, and     *)
(* what an undisturbed user drew is kept.                                  *)
(***************************************************************************)
EXTENDS CanvasClient, CanvasCrdt_proofs, FiniteSetTheorems

MaybeCopy == Copy \cup {NoCopy}

LEMMA CopyFacts ==
  ASSUME NEW c \in MaybeCopy
  PROVE  /\ c.meta \in MaybeMeta
         /\ c.meta.clock \in Int
         /\ c # NoCopy => c \in Copy /\ c.meta \in Meta /\ c.content \in Content
         /\ c = NoCopy => c.meta = Absent
<1>1. CASE c = NoCopy
  BY <1>1, AbsentIn DEF NoCopy
<1>2. CASE c \in Copy
  <2>1. c.meta \in Meta /\ c.content \in Content
    BY <1>2 DEF Copy
  <2>2. c # NoCopy
    <3>1. c.meta # Absent
      BY <2>1, MetaFields DEF MaybeMeta, Meta, Absent
    <3> QED BY <3>1 DEF NoCopy
  <2> QED BY <1>2, <2>1, <2>2, MetaFields DEF MaybeMeta
<1> QED BY <1>1, <1>2 DEF MaybeCopy

LEMMA CopiesAre == Copies = [Ids -> MaybeCopy]
  BY DEF Copies, MaybeCopy

LEMMA NoCopiesType == NoCopies \in Copies
  BY DEF NoCopies, Copies

LEMMA MetasType ==
  ASSUME NEW shapes \in Copies
  PROVE  Metas(shapes) \in Entries
  BY CopiesAre, CopyFacts DEF Metas, Entries

LEMMA MergedCopiesType ==
  ASSUME NEW current \in Copies, NEW ts \in Entries, NEW dels \in Entries,
         NEW incoming \in Copies
  PROVE  MergedCopies(current, ts, dels, incoming) \in Copies
<1>1. ASSUME NEW i \in Ids
      PROVE  MergedCopy(current[i], ts[i], dels[i], incoming[i]) \in MaybeCopy
  <2>1. current[i] \in MaybeCopy /\ incoming[i] \in MaybeCopy /\ NoCopy \in MaybeCopy
    BY CopiesAre DEF MaybeCopy
  <2> QED BY <2>1 DEF MergedCopy
<1> QED BY <1>1, CopiesAre DEF MergedCopies

LEMMA HighestFacts ==
  ASSUME NEW shapes \in Copies, NEW n \in Nat, NEW c \in Highest(shapes, n)
  PROVE  c \in Nat /\ c >= n /\ \A i \in Ids : c >= shapes[i].meta.clock
<1>1. \A i \in Ids : shapes[i].meta.clock \in Int
  BY CopiesAre, CopyFacts
<1>2. c \in Int /\ c >= n
  BY <1>1 DEF Highest
<1> QED BY <1>2 DEF Highest

LEMMA EntriesUpdated ==
  ASSUME NEW e \in Entries, NEW i \in Ids, NEW v \in MaybeMeta
  PROVE  [e EXCEPT ![i] = v] \in Entries
  BY DEF Entries

LEMMA CopiesUpdated ==
  ASSUME NEW shapes \in Copies, NEW i \in Ids, NEW c \in MaybeCopy
  PROVE  [shapes EXCEPT ![i] = c] \in Copies
  BY DEF Copies, MaybeCopy

LEMMA NoEntriesIn == NoEntries \in Entries
  BY AbsentIn DEF NoEntries, Entries

-----------------------------------------------------------------------------
(* Reconciliation: its stamps lie between clock and ClockAfter.            *)

Rank(shapes, i) == Cardinality({j \in Changed(shapes) : j <= i})

LEMMA RankFacts ==
  ASSUME NEW shapes, NEW i \in Ids
  PROVE  /\ Cardinality(Changed(shapes)) \in Nat
         /\ Rank(shapes, i) \in Nat
         /\ Rank(shapes, i) <= Cardinality(Changed(shapes))
<1>1. IsFiniteSet(Changed(shapes))
  BY ClientAssumption, FS_Subset DEF Changed
<1>2. {j \in Changed(shapes) : j <= i} \subseteq Changed(shapes)
  OBVIOUS
<1> QED BY <1>1, <1>2, FS_Subset, FS_CardinalityType DEF Rank

LEMMA ReconciledFacts ==
  ASSUME clock \in Nat, prev \in Copies, NEW shapes \in Copies
  PROVE  LET s == Reconciled(shapes)
         IN  /\ s \in Snapshot
             /\ ClockAfter(shapes) \in Nat /\ ClockAfter(shapes) >= clock
             /\ \A i \in Ids : Has(s.shapes, i) <=> Has(shapes, i)
             /\ \A i \in Ids : s.dels[i] # Absent => Has(prev, i) /\ ~Has(shapes, i)
             /\ \A i \in Ids : \/ s.shapes[i].meta.clock <= ClockAfter(shapes)
                               \/ s.shapes[i].meta.clock = prev[i].meta.clock
<1> DEFINE s == Reconciled(shapes)
           card == Cardinality(Changed(shapes))
           Stamp(n) == [clock |-> clock + n, author |-> Me]
<1>1. card \in Nat
  BY ClientAssumption, FS_Subset, FS_CardinalityType DEF Changed
<1>2. /\ ClockAfter(shapes) \in Nat
      /\ ClockAfter(shapes) >= clock + card
  <2>1. ClockAfter(shapes) = clock + card + (IF Dropped(shapes) = {} THEN 0 ELSE 1)
    BY DEF ClockAfter
  <2> HIDE DEF card
  <2> QED BY <1>1, <2>1
<1>3. \A n \in Nat : Stamp(n) \in Meta /\ Stamp(n).clock = clock + n
  BY ClientAssumption DEF Meta
<1>4. ASSUME NEW i \in Ids
      PROVE  /\ s.shapes[i] \in MaybeCopy
             /\ Has(s.shapes, i) <=> Has(shapes, i)
             /\ \/ s.shapes[i].meta.clock <= ClockAfter(shapes)
                \/ s.shapes[i].meta.clock = prev[i].meta.clock
  <2>0. shapes[i] \in MaybeCopy /\ prev[i] \in MaybeCopy
    BY CopiesAre
  <2>1. CASE ~Has(shapes, i)
    <3>1. s.shapes[i] = NoCopy
      BY <2>1 DEF Reconciled
    <3>2. s.shapes[i].meta.clock = -1
      BY <3>1, AbsentIn DEF NoCopy
    <3> HIDE DEF s
    <3> QED BY <2>1, <3>1, <3>2, <1>1, <1>2 DEF Has, MaybeCopy
  <2>2. CASE Has(shapes, i) /\ i \in Changed(shapes)
    <3>1. s.shapes[i] = [content |-> shapes[i].content, meta |-> Stamp(Rank(shapes, i))]
      BY <2>2 DEF Reconciled, Rank
    <3>2. Rank(shapes, i) \in Nat /\ Rank(shapes, i) <= card
      BY RankFacts
    <3>3. shapes[i].content \in Content
      BY <2>0, <2>2, CopyFacts DEF Has
    <3>4. s.shapes[i] \in Copy
      BY <1>3, <3>1, <3>2, <3>3 DEF Copy
    <3>5. s.shapes[i].meta.clock = clock + Rank(shapes, i)
      BY <1>3, <3>1, <3>2
    <3>6. s.shapes[i].meta.clock <= ClockAfter(shapes)
      <4> HIDE DEF s, card
      <4> QED BY <1>1, <1>2, <3>2, <3>5
    <3>7. s.shapes[i] # NoCopy
      BY <3>4, CopyFacts, MetaFields DEF MaybeCopy, Copy, NoCopy, Absent, Meta
    <3> QED BY <2>2, <3>4, <3>6, <3>7 DEF MaybeCopy, Has
  <2>3. CASE Has(shapes, i) /\ i \notin Changed(shapes)
    <3>1. s.shapes[i] = [content |-> shapes[i].content, meta |-> prev[i].meta]
      BY <2>3 DEF Reconciled
    <3>2. Has(prev, i)
      BY <2>3 DEF Changed
    <3>3. shapes[i].content \in Content /\ prev[i].meta \in Meta
      BY <2>0, <2>3, <3>2, CopyFacts DEF Has
    <3>4. s.shapes[i] \in Copy
      BY <3>1, <3>3 DEF Copy
    <3>5. s.shapes[i] # NoCopy
      BY <3>4, CopyFacts, MetaFields DEF MaybeCopy, Copy, NoCopy, Absent, Meta
    <3> QED BY <2>3, <3>1, <3>4, <3>5 DEF MaybeCopy, Has
  <2> QED BY <2>1, <2>2, <2>3
<1>5. \A i \in Ids : /\ s.dels[i] \in MaybeMeta
                     /\ s.dels[i] # Absent => Has(prev, i) /\ ~Has(shapes, i)
  <2>1. card + 1 \in Nat
    <3> HIDE DEF card
    <3> QED BY <1>1
  <2>2. \A i \in Ids : s.dels[i] = IF i \in Dropped(shapes)
                                   THEN Stamp(card + 1) ELSE Absent
    BY DEF Reconciled
  <2> QED BY <1>3, <2>1, <2>2, AbsentIn DEF Dropped, MaybeMeta
<1>6. s \in Snapshot
  <2>1. s = [shapes |-> s.shapes, dels |-> s.dels]
    BY DEF Reconciled
  <2>2. s.shapes \in Copies
    <3>1. s.shapes = [i \in Ids |-> s.shapes[i]]
      BY DEF Reconciled
    <3> QED BY <1>4, <3>1, CopiesAre
  <2>3. s.dels \in Entries
    <3>1. s.dels = [i \in Ids |-> s.dels[i]]
      BY DEF Reconciled
    <3> QED BY <1>5, <3>1 DEF Entries
  <2> QED BY <2>1, <2>2, <2>3 DEF Snapshot
<1>7. ClockAfter(shapes) >= clock
  <2> HIDE DEF card
  <2> QED BY <1>1, <1>2
<1> QED BY <1>2, <1>4, <1>5, <1>6, <1>7

-----------------------------------------------------------------------------
(* Type correctness.                                                       *)

LEMMA SaveType == \A s \in Snapshot : Save(s) \in Outgoing
  BY DEF Save, Outgoing

LEMMA FlushType ==
  ASSUME TypeOK, NEW snapshot \in Snapshot \cup {NoSnapshot}, NEW n \in Nat,
         NEW in, NEW inBurst, Flush(snapshot, n, in, inBurst)
  PROVE  /\ toServer' \in Seq(Outgoing)
         /\ queued' \in Snapshot \cup {NoSnapshot}
         /\ inFlight' \in Nat /\ cooling' \in BOOLEAN
<1>1. CASE snapshot # NoSnapshot /\ LineIsOpen(in) /\ IntervalAllows(n, inBurst)
  <2>1. Save(snapshot) \in Outgoing
    BY <1>1, SaveType
  <2>2. /\ toServer' = Append(toServer, Save(snapshot))
        /\ queued' = NoSnapshot /\ inFlight' = n + 1 /\ cooling' = TRUE
    BY <1>1 DEF Flush
  <2> QED BY <2>1, <2>2 DEF TypeOK
<1>2. CASE ~(snapshot # NoSnapshot /\ LineIsOpen(in) /\ IntervalAllows(n, inBurst))
  BY <1>2 DEF Flush, TypeOK
<1> QED BY <1>1, <1>2

LEMMA SendType ==
  ASSUME TypeOK, NEW shapes \in Copies, NEW soon \in BOOLEAN,
         SendCanvasSnapshot(shapes, soon),
         edits' \in 0..MaxEdits, early' \in BOOLEAN, removed' \subseteq Ids
  PROVE  TypeOK'
<1>1. Reconciled(shapes) \in Snapshot /\ ClockAfter(shapes) \in Nat
  BY ReconciledFacts DEF TypeOK
<1>2. Reconciled(shapes).shapes \in Copies
  BY <1>1 DEF Snapshot
<1>3. Flush(Reconciled(shapes), inFlight, joined, burst \/ soon)
  BY DEF SendCanvasSnapshot
<1>4. /\ toServer' \in Seq(Outgoing) /\ queued' \in Snapshot \cup {NoSnapshot}
      /\ inFlight' \in Nat /\ cooling' \in BOOLEAN
  <2>1. inFlight \in Nat
    BY DEF TypeOK
  <2> QED BY <1>1, <1>3, <2>1, FlushType
<1>5. /\ view' \in Copies /\ prev' \in Copies /\ clock' \in Nat
      /\ burst' \in BOOLEAN /\ recent' \in BOOLEAN /\ flushDue' \in BOOLEAN
  BY <1>1, <1>2 DEF SendCanvasSnapshot, TypeOK
<1> QED BY <1>4, <1>5 DEF SendCanvasSnapshot, TypeOK, serverVars

LEMMA ReceiveType ==
  ASSUME TypeOK, NEW type, Receive(type)
  PROVE  /\ toClient' \in Seq(Incoming)
         /\ Head(toClient) \in Incoming
         /\ sock' = sock /\ UNCHANGED serverVars /\ UNCHANGED countVars
         /\ Head(toClient).type = type
  BY DEF Receive, TypeOK

LEMMA IncomingFields ==
  ASSUME NEW m \in Incoming
  PROVE  /\ m.type = "joined" => m.shapes \in Copies
         /\ m.type = "broadcast" => m.snapshot \in Snapshot
         /\ m.type = "error" => m.reason \in Reasons
  BY DEF Incoming

LEMMA ServeType ==
  ASSUME TypeOK, NEW type, Serve(type)
  PROVE  /\ toServer' \in Seq(Outgoing)
         /\ Head(toServer) \in Outgoing
         /\ Head(toServer).type = type
         /\ type = "save" => Head(toServer).snapshot \in Snapshot
<1>1. Head(toServer) \in Outgoing /\ toServer' \in Seq(Outgoing)
  BY DEF Serve, TypeOK
<1>2. Head(toServer).type = type
  BY DEF Serve
<1> QED BY <1>1, <1>2 DEF Outgoing

LEMMA AnswerType ==
  ASSUME TypeOK, NEW messages \in Seq(Incoming), Answer(messages)
  PROVE  toClient' \in Seq(Incoming)
  BY DEF Answer, TypeOK

LEMMA AnswersAre ==
  /\ <<Ack>> \in Seq(Incoming)
  /\ \A s \in Copies : <<RoomJoined(s)>> \in Seq(Incoming)
  /\ \A s \in Snapshot : <<Broadcast(s)>> \in Seq(Incoming)
  /\ \A r \in Reasons, s \in Copies :
       /\ <<SyncError(r)>> \in Seq(Incoming)
       /\ <<SyncError(r), RoomJoined(s)>> \in Seq(Incoming)
<1>1. /\ Ack \in Incoming
      /\ \A s \in Copies : RoomJoined(s) \in Incoming
      /\ \A s \in Snapshot : Broadcast(s) \in Incoming
      /\ \A r \in Reasons : SyncError(r) \in Incoming
  BY DEF Ack, RoomJoined, Broadcast, SyncError, Incoming
<1> QED BY <1>1

LEMMA MergeIntoRoomType ==
  ASSUME TypeOK, NEW snapshot \in Snapshot, MergeIntoRoom(snapshot)
  PROVE  room' \in Copies /\ roomTombs' \in Entries
<1>1. snapshot.shapes \in Copies /\ snapshot.dels \in Entries
  BY DEF Snapshot
<1>2. room \in Copies /\ roomTombs \in Entries
  BY DEF TypeOK
<1>3. room' \in Copies
  BY <1>1, <1>2, MergedCopiesType DEF MergeIntoRoom
<1>4. Metas(room) \in Entries /\ Metas(snapshot.shapes) \in Entries
  BY <1>1, <1>2, MetasType
<1>5. roomTombs' \in Entries
  BY <1>1, <1>2, <1>4, MergeType DEF MergeIntoRoom
<1> QED BY <1>3, <1>5

LEMMA OtherSnapshotType ==
  ASSUME TypeOK, NEW i \in Ids, NEW gone \in BOOLEAN, NEW seen \in BOOLEAN,
         OtherCommits(i, gone, seen)
  PROVE  \E snapshot \in Snapshot :
           /\ MergeIntoRoom(snapshot)
           /\ \A j \in Ids : snapshot.dels[j] # Absent => j \in removed'
           /\ IF admitted THEN Answer(<<Broadcast([snapshot EXCEPT !.shapes = room'])>>)
                          ELSE UNCHANGED toClient
           /\ otherClock' \in Nat
<1> DEFINE ahead == IF seen /\ Top(i) > otherClock THEN Top(i) ELSE otherClock
           meta == [clock |-> ahead + 1, author |-> Other]
           copy == [content |-> [by |-> Other, nth |-> remotes + 1], meta |-> meta]
           snapshot ==
             [shapes |-> [room EXCEPT ![i] = IF gone THEN NoCopy ELSE copy],
              dels |-> [NoEntries EXCEPT ![i] = IF gone THEN meta ELSE Absent]]
<1>1. ahead \in Nat
  <2>1. room[i] \in MaybeCopy /\ roomTombs[i] \in MaybeMeta
    BY CopiesAre DEF TypeOK, Entries
  <2>2. Top(i) \in Int
    BY <2>1, CopyFacts, MetaFields DEF Top
  <2>3. otherClock \in Nat
    BY DEF TypeOK
  <2> QED BY <2>2, <2>3
<1>2. meta \in Meta
  <2>1. ahead + 1 \in Nat
    <3> HIDE DEF ahead
    <3> QED BY <1>1
  <2> QED BY <2>1, ClientAssumption DEF Meta
<1>3. copy \in Copy
  <2>1. remotes + 1 \in Nat
    BY ClientAssumption DEF TypeOK
  <2> QED BY <1>2, <2>1, ClientAssumption DEF Copy, Content
<1>4. snapshot \in Snapshot
  <2>1. (IF gone THEN NoCopy ELSE copy) \in MaybeCopy
    BY <1>3 DEF MaybeCopy
  <2>2. (IF gone THEN meta ELSE Absent) \in MaybeMeta
    BY <1>2, AbsentIn DEF MaybeMeta
  <2>3. room \in Copies
    BY DEF TypeOK
  <2>4. snapshot.shapes \in Copies /\ snapshot.dels \in Entries
    BY <2>1, <2>2, <2>3, NoEntriesIn, CopiesUpdated, EntriesUpdated
  <2> QED BY <2>4 DEF Snapshot
<1>5. \A j \in Ids : snapshot.dels[j] # Absent => j \in removed'
  <2>1. \A j \in Ids : snapshot.dels[j] # Absent => j = i /\ gone
    BY NoEntriesIn DEF NoEntries
  <2>2. gone => removed' = removed \cup {i}
    BY DEF OtherCommits
  <2> HIDE DEF snapshot
  <2> QED BY <2>1, <2>2
<1>6. /\ MergeIntoRoom(snapshot)
      /\ IF admitted THEN Answer(<<Broadcast([snapshot EXCEPT !.shapes = room'])>>)
                     ELSE UNCHANGED toClient
      /\ otherClock' = ahead + 1
  BY DEF OtherCommits
<1>7. otherClock' \in Nat
  <2> HIDE DEF ahead
  <2> QED BY <1>1, <1>6
<1> HIDE DEF snapshot
<1> QED BY <1>4, <1>5, <1>6, <1>7

LEMMA BrowserStepsType ==
  ASSUME TypeOK,
         \/ \E i \in Ids, soon \in BOOLEAN : Write(i, soon) \/ Remove(i, soon)
         \/ Tick \/ ApplyRemote \/ Reload
  PROVE  TypeOK'
<1>0. /\ view \in Copies /\ edits \in 0..MaxEdits /\ early \in BOOLEAN
      /\ joined \in BOOLEAN /\ removed \subseteq Ids /\ NoCopy \in MaybeCopy
      /\ MaxEdits \in Nat /\ \A i \in Ids : view[i] \in MaybeCopy
  BY ClientAssumption, CopiesAre DEF TypeOK, MaybeCopy
<1>a. CanEdit => edits' \in 0..MaxEdits /\ early' \in BOOLEAN
  <2>1. CanEdit => edits' \in 0..MaxEdits
    BY <1>0 DEF CanEdit
  <2>2. CanEdit => early' \in BOOLEAN
    BY <1>0 DEF CanEdit
  <2> QED BY <2>1, <2>2
<1>1. ASSUME NEW i \in Ids, NEW soon \in BOOLEAN, Write(i, soon)
      PROVE  TypeOK'
  <2> DEFINE meta == IF Has(view, i) THEN view[i].meta ELSE Unstamped
             copy == [content |-> [by |-> Me, nth |-> edits + 1], meta |-> meta]
  <2>1. meta \in Meta
    BY <1>0, CopyFacts, ClientAssumption DEF Has, Unstamped, Meta
  <2>2. copy \in MaybeCopy
    BY <1>0, <2>1, ClientAssumption DEF MaybeCopy, Copy, Content
  <2>3. [view EXCEPT ![i] = copy] \in Copies
    BY <1>0, <2>2, CopiesUpdated
  <2>4. /\ CanEdit /\ removed' = removed
        /\ SendCanvasSnapshot([view EXCEPT ![i] = copy], soon)
    BY <1>1 DEF Write
  <2> HIDE DEF copy
  <2> QED BY <1>0, <1>a, <2>3, <2>4, SendType
<1>2. ASSUME NEW i \in Ids, NEW soon \in BOOLEAN, Remove(i, soon)
      PROVE  TypeOK'
  <2>1. [view EXCEPT ![i] = NoCopy] \in Copies
    BY <1>0, CopiesUpdated
  <2>2. /\ CanEdit /\ removed' = removed \cup {i}
        /\ SendCanvasSnapshot([view EXCEPT ![i] = NoCopy], soon)
    BY <1>2 DEF Remove
  <2> QED BY <1>0, <1>a, <2>1, <2>2, SendType
<1>3. ASSUME Tick PROVE TypeOK'
  <2>1. Flush(queued, inFlight, joined, burst)
    BY <1>3 DEF Tick
  <2>2. queued \in Snapshot \cup {NoSnapshot} /\ inFlight \in Nat
    BY DEF TypeOK
  <2>3. /\ toServer' \in Seq(Outgoing) /\ queued' \in Snapshot \cup {NoSnapshot}
        /\ inFlight' \in Nat /\ cooling' \in BOOLEAN
    BY <2>1, <2>2, FlushType
  <2> QED BY <1>3, <2>3 DEF Tick, TypeOK, serverVars, countVars
<1>4. ASSUME ApplyRemote PROVE TypeOK'
  <2> DEFINE known == [i \in Ids |-> IF pending.dels[i] # Absent
                                     THEN pending.dels[i] ELSE tombs[i]]
             shown == IF LocalWork
                      THEN MergedCopies(pending.shapes, known, pending.dels, view)
                      ELSE pending.shapes
  <2>1. pending \in Snapshot
    BY <1>4 DEF ApplyRemote, TypeOK
  <2>2. pending.shapes \in Copies /\ pending.dels \in Entries
    BY <2>1 DEF Snapshot
  <2>3. known \in Entries
    BY <2>2 DEF Entries, TypeOK
  <2>4. shown \in Copies
    BY <1>0, <2>2, <2>3, MergedCopiesType
  <2>5. tombs' = known /\ pending' = NoSnapshot /\ Hydrate(shown)
    BY <1>4 DEF ApplyRemote
  <2>6. view' \in Copies /\ prev' \in Copies /\ clock' \in Nat
    <3> HIDE DEF shown
    <3> QED BY <2>4, <2>5, HighestFacts DEF Hydrate, Observed, TypeOK
  <2> HIDE DEF known, shown
  <2> QED BY <1>4, <2>3, <2>5, <2>6 DEF ApplyRemote, TypeOK, serverVars, countVars
<1>5. ASSUME Reload PROVE TypeOK'
  <2>1. PICK shapes \in {room, Loaded} : Hydrate(shapes)
    BY <1>5 DEF Reload
  <2>2. shapes \in Copies
    BY ClientAssumption DEF TypeOK
  <2>3. view' \in Copies /\ prev' \in Copies /\ clock' \in Nat
    BY <2>1, <2>2, HighestFacts DEF Hydrate, Observed, TypeOK
  <2>4. mishaps' \in 0..MaxMishaps
    BY <1>5, ClientAssumption DEF Reload, TypeOK
  <2> QED BY <1>5, <2>3, <2>4 DEF Reload, TypeOK, serverVars
<1> QED BY <1>1, <1>2, <1>3, <1>4, <1>5

LEMMA ReceiveStepsType ==
  ASSUME TypeOK,
         ReceiveJoined \/ ReceiveBroadcast \/ ReceiveAck \/ ReceiveError
  PROVE  TypeOK'
<1>1. ASSUME ReceiveJoined PROVE TypeOK'
  <2> DEFINE shapes == Head(toClient).shapes
             saved == IF queued = NoSnapshot THEN shapes ELSE queued.shapes
             seen == [i \in Ids |-> IF AtMost(saved[i].meta, shapes[i].meta)
                                    THEN shapes[i] ELSE saved[i]]
  <2>1. Receive("joined")
    BY <1>1 DEF ReceiveJoined
  <2>2. shapes \in Copies
    BY <2>1, ReceiveType, IncomingFields
  <2>3. saved \in Copies
    BY <2>2 DEF TypeOK, Snapshot
  <2>4. seen \in Copies
    BY <2>2, <2>3 DEF Copies
  <2>5. /\ view' = saved /\ prev' = saved /\ clock' \in Observed(seen)
        /\ Flush(queued, 0, TRUE, burst) /\ joined' = TRUE /\ pending' = NoSnapshot
    BY <1>1 DEF ReceiveJoined
  <2> HIDE DEF shapes, saved, seen
  <2>6. clock' \in Nat
    BY <2>4, <2>5, HighestFacts DEF Observed, TypeOK
  <2>7. queued \in Snapshot \cup {NoSnapshot} /\ 0 \in Nat
    BY DEF TypeOK
  <2>8. /\ toServer' \in Seq(Outgoing) /\ queued' \in Snapshot \cup {NoSnapshot}
        /\ inFlight' \in Nat /\ cooling' \in BOOLEAN
    BY <2>5, <2>7, FlushType
  <2>9. /\ toClient' \in Seq(Incoming) /\ sock' = sock
        /\ UNCHANGED serverVars /\ UNCHANGED countVars
    BY <2>1, ReceiveType
  <2> QED BY <1>1, <2>3, <2>5, <2>6, <2>8, <2>9
          DEF ReceiveJoined, TypeOK, serverVars, countVars
<1>2. ASSUME ReceiveBroadcast PROVE TypeOK'
  <2>1. Receive("broadcast")
    BY <1>2 DEF ReceiveBroadcast
  <2>2. Head(toClient).snapshot \in Snapshot
    BY <2>1, ReceiveType, IncomingFields
  <2>3. clock' \in Nat
    BY <1>2, <2>2, HighestFacts DEF ReceiveBroadcast, Observed, TypeOK, Snapshot
  <2>4. /\ toClient' \in Seq(Incoming) /\ sock' = sock
        /\ UNCHANGED serverVars /\ UNCHANGED countVars
    BY <2>1, ReceiveType
  <2> QED BY <1>2, <2>2, <2>3, <2>4 DEF ReceiveBroadcast, TypeOK, serverVars, countVars
<1>3. ASSUME ReceiveAck PROVE TypeOK'
  <2>1. /\ toClient' \in Seq(Incoming) /\ sock' = sock
        /\ UNCHANGED serverVars /\ UNCHANGED countVars
    BY <1>3, ReceiveType DEF ReceiveAck
  <2>2. inFlight' \in Nat
    BY <1>3 DEF ReceiveAck, TypeOK
  <2> QED BY <1>3, <2>1, <2>2 DEF ReceiveAck, TypeOK, serverVars, countVars
<1>4. ASSUME ReceiveError PROVE TypeOK'
  <2>1. /\ toClient' \in Seq(Incoming) /\ sock' = sock
        /\ UNCHANGED serverVars /\ UNCHANGED countVars
    BY <1>4, ReceiveType DEF ReceiveError
  <2>2. Reconciled(view) \in Snapshot /\ ClockAfter(view) \in Nat
    BY ReconciledFacts DEF TypeOK
  <2>3. /\ queued' \in Snapshot \cup {NoSnapshot} /\ prev' \in Copies
        /\ clock' \in Nat
    BY <1>4, <2>2 DEF ReceiveError, TypeOK, Snapshot
  <2>4. backoff' \in BOOLEAN /\ flushDue' \in BOOLEAN /\ inFlight' = 0
    BY <1>4 DEF ReceiveError
  <2> QED BY <1>4, <2>1, <2>3, <2>4 DEF ReceiveError, TypeOK, serverVars, countVars
<1> QED BY <1>1, <1>2, <1>3, <1>4

LEMMA EmptyTypes ==
  /\ <<>> \in Seq(Outgoing) /\ <<>> \in Seq(Incoming)
  /\ NoSnapshot \in Snapshot \cup {NoSnapshot}
  /\ FALSE \in BOOLEAN /\ TRUE \in BOOLEAN /\ 0 \in Nat
  OBVIOUS

LEMMA TimeAndConnectionType ==
  ASSUME TypeOK,
         \/ IntervalOver \/ GraceOver \/ BurstOver \/ BackoffOver
         \/ Open \/ Close \/ Leave
  PROVE  TypeOK'
<1>1. CASE IntervalOver
  BY <1>1 DEF IntervalOver, TypeOK, serverVars, countVars
<1>2. CASE GraceOver
  BY <1>2 DEF GraceOver, TypeOK, serverVars, countVars
<1>3. CASE BurstOver
  BY <1>3 DEF BurstOver, TypeOK, serverVars, countVars
<1>4. CASE BackoffOver
  BY <1>4 DEF BackoffOver, TypeOK, serverVars, countVars
<1>5. CASE Open
  <2>1. Join \in Outgoing
    BY DEF Join, Outgoing
  <2> QED BY <1>5, <2>1 DEF Open, TypeOK, browserVars, serverVars, countVars
<1>6. CASE Close
  <2>1. /\ toServer' \in Seq(Outgoing) /\ toClient' \in Seq(Incoming)
        /\ joined' \in BOOLEAN /\ admitted' \in BOOLEAN
    BY <1>6, EmptyTypes DEF Close
  <2> QED BY <1>6, <2>1 DEF Close, TypeOK, countVars
<1>7. CASE Leave
  <2>1. Reconciled(view) \in Snapshot /\ ClockAfter(view) \in Nat
    BY ReconciledFacts DEF TypeOK
  <2>2. toServer' \in Seq(Outgoing) /\ clock' \in Nat
    <3>1. CASE sock = "open"
      <4>1. Save(Reconciled(view)) \in Outgoing
        BY <2>1, SaveType
      <4>2. toServer' = Append(toServer, Save(Reconciled(view)))
        BY <1>7, <3>1 DEF Leave
      <4>3. clock' = ClockAfter(view)
        BY <1>7, <3>1 DEF Leave
      <4> QED BY <2>1, <4>1, <4>2, <4>3 DEF TypeOK
    <3>2. CASE sock # "open"
      BY <1>7, <3>2 DEF Leave, TypeOK
    <3> QED BY <3>1, <3>2
  <2>3. /\ pending' = NoSnapshot /\ queued' = NoSnapshot /\ inFlight' = 0
        /\ cooling' = FALSE /\ burst' = FALSE /\ backoff' = FALSE
        /\ flushDue' = FALSE /\ joined' = FALSE /\ toClient' = <<>>
        /\ sock' = "left"
    BY <1>7 DEF Leave
  <2>4. UNCHANGED <<view, prev, recent, tombs, serverVars, countVars>>
    BY <1>7 DEF Leave
  <2> QED BY <2>2, <2>3, <2>4, EmptyTypes DEF TypeOK, serverVars, countVars
<1> QED BY <1>1, <1>2, <1>3, <1>4, <1>5, <1>6, <1>7

LEMMA MishapType ==
  ASSUME TypeOK, mishaps < MaxMishaps, mishaps' = mishaps + 1
  PROVE  mishaps' \in 0..MaxMishaps
  BY ClientAssumption DEF TypeOK

LEMMA ServerStepsType ==
  ASSUME TypeOK,
         \/ AdmitJoin \/ RefuseJoin \/ CommitSnapshot
         \/ \E reason \in Reasons : RejectSnapshot(reason)
         \/ \E i \in Ids, gone, seen \in BOOLEAN : OtherCommits(i, gone, seen)
  PROVE  TypeOK'
<1>1. ASSUME AdmitJoin PROVE TypeOK'
  <2>1. toServer' \in Seq(Outgoing)
    BY <1>1, ServeType DEF AdmitJoin
  <2>2. toClient' \in Seq(Incoming)
    BY <1>1, AnswersAre, AnswerType DEF AdmitJoin, TypeOK
  <2> QED BY <1>1, <2>1, <2>2 DEF AdmitJoin, Serve, TypeOK, browserVars
<1>2. ASSUME RefuseJoin PROVE TypeOK'
  <2>1. toServer' \in Seq(Outgoing)
    BY <1>2, ServeType DEF RefuseJoin
  <2>2. "other" \in Reasons /\ room \in Copies
    BY DEF Reasons, TypeOK
  <2>3. toClient' \in Seq(Incoming)
    BY <1>2, <2>2, AnswersAre, AnswerType DEF RefuseJoin
  <2>4. mishaps' \in 0..MaxMishaps
    BY <1>2, MishapType DEF RefuseJoin
  <2> QED BY <1>2, <2>1, <2>3, <2>4 DEF RefuseJoin, Serve, TypeOK, browserVars
<1>3. ASSUME CommitSnapshot PROVE TypeOK'
  <2>1. toServer' \in Seq(Outgoing) /\ Head(toServer).snapshot \in Snapshot
    BY <1>3, ServeType DEF CommitSnapshot
  <2>2. toClient' \in Seq(Incoming)
    BY <1>3, AnswersAre, AnswerType DEF CommitSnapshot
  <2>3. room' \in Copies /\ roomTombs' \in Entries
    BY <1>3, <2>1, MergeIntoRoomType DEF CommitSnapshot
  <2> QED BY <1>3, <2>1, <2>2, <2>3 DEF CommitSnapshot, Serve, TypeOK, browserVars
<1>4. ASSUME NEW reason \in Reasons, RejectSnapshot(reason) PROVE TypeOK'
  <2>1. toServer' \in Seq(Outgoing)
    BY <1>4, ServeType DEF RejectSnapshot
  <2>2. room \in Copies
    BY DEF TypeOK
  <2>3. toClient' \in Seq(Incoming)
    BY <1>4, <2>2, AnswersAre, AnswerType DEF RejectSnapshot
  <2>4. mishaps' \in 0..MaxMishaps
    BY <1>4, MishapType DEF RejectSnapshot, TypeOK
  <2> QED BY <1>4, <2>1, <2>3, <2>4 DEF RejectSnapshot, Serve, TypeOK, browserVars
<1>5. ASSUME NEW i \in Ids, NEW gone \in BOOLEAN, NEW seen \in BOOLEAN,
             OtherCommits(i, gone, seen)
      PROVE  TypeOK'
  <2>1. PICK snapshot \in Snapshot :
          /\ MergeIntoRoom(snapshot)
          /\ IF admitted THEN Answer(<<Broadcast([snapshot EXCEPT !.shapes = room'])>>)
                         ELSE UNCHANGED toClient
          /\ otherClock' \in Nat
    BY <1>5, OtherSnapshotType
  <2>2. room' \in Copies /\ roomTombs' \in Entries
    BY <2>1, MergeIntoRoomType
  <2>3. [snapshot EXCEPT !.shapes = room'] \in Snapshot
    BY <2>2 DEF Snapshot
  <2>4. toClient' \in Seq(Incoming)
    BY <2>1, <2>3, AnswersAre, AnswerType DEF TypeOK
  <2>5. remotes' \in 0..MaxRemotes
    BY <1>5, ClientAssumption DEF OtherCommits, TypeOK
  <2>6. removed' \subseteq Ids
    BY <1>5 DEF OtherCommits, TypeOK
  <2> QED BY <1>5, <2>1, <2>2, <2>4, <2>5, <2>6
          DEF OtherCommits, TypeOK, browserVars
<1> QED BY <1>1, <1>2, <1>3, <1>4, <1>5

LEMMA InitType == Init => TypeOK
<1> HAVE Init
<1>1. otherClock \in Nat
  <2>1. Loaded \in Copies /\ otherClock \in Highest(Loaded, 0) /\ 0 \in Nat
    BY ClientAssumption DEF Init
  <2> QED BY <2>1, HighestFacts
<1>2. Loaded \in Copies /\ NoCopies \in Copies /\ NoEntries \in Entries
  BY ClientAssumption, NoCopiesType, NoEntriesIn
<1>3. MaxEdits \in Nat /\ MaxRemotes \in Nat /\ MaxMishaps \in Nat
  BY ClientAssumption
<1>4. /\ view \in Copies /\ prev \in Copies /\ room \in Copies
      /\ tombs \in Entries /\ roomTombs \in Entries
      /\ toServer \in Seq(Outgoing) /\ toClient \in Seq(Incoming)
  BY <1>2, EmptyTypes DEF Init
<1>5. /\ queued = NoSnapshot /\ pending = NoSnapshot /\ inFlight = 0 /\ clock = 0
      /\ burst = FALSE /\ flushDue = FALSE /\ cooling = FALSE /\ recent = FALSE
      /\ backoff = FALSE /\ joined = FALSE /\ admitted = FALSE /\ early = FALSE
      /\ sock = "connecting" /\ removed = {}
  BY DEF Init
<1>6. edits \in 0..MaxEdits /\ remotes \in 0..MaxRemotes /\ mishaps \in 0..MaxMishaps
  BY <1>3 DEF Init
<1>7. sock \in {"connecting", "open", "closed", "left"} /\ removed \subseteq Ids
  BY <1>5
<1>8. /\ burst \in BOOLEAN /\ flushDue \in BOOLEAN /\ cooling \in BOOLEAN
      /\ recent \in BOOLEAN /\ backoff \in BOOLEAN /\ joined \in BOOLEAN
      /\ admitted \in BOOLEAN /\ early \in BOOLEAN
      /\ queued \in Snapshot \cup {NoSnapshot}
      /\ pending \in Snapshot \cup {NoSnapshot}
      /\ inFlight \in Nat /\ clock \in Nat
  BY <1>5, EmptyTypes
<1> QED BY <1>1, <1>4, <1>6, <1>7, <1>8 DEF TypeOK

\* Every state of the browser, the connection and the server is well formed;
\* in particular the in-flight count of useCanvasSync never goes below zero.
THEOREM TypeCorrect == Spec => []TypeOK
<1>1. TypeOK /\ [Next]_vars => TypeOK'
  <2> SUFFICES ASSUME TypeOK, [Next]_vars PROVE TypeOK'
    OBVIOUS
  <2>1. CASE UNCHANGED vars
    BY <2>1 DEF vars, browserVars, serverVars, countVars, TypeOK
  <2>2. CASE Next
    BY <2>2, BrowserStepsType, ReceiveStepsType, TimeAndConnectionType,
       ServerStepsType DEF Next
  <2> QED BY <2>1, <2>2
<1> QED BY InitType, <1>1, PTL DEF Spec

-----------------------------------------------------------------------------
(***************************************************************************)
(* No shape is deleted that nobody removed.  A snapshot deletes what prev  *)
(* has and the canvas lacks, so the invariant is that prev never has more  *)
(* than the canvas (Shown): then only Remove makes a deletion, and every   *)
(* deletion that is queued, sent or kept by the server names a shape of    *)
(* removed.                                                                *)
(***************************************************************************)
Shown == \A i \in Ids : Has(prev, i) => Has(view, i)
OnlyRemoved(dels, gone) == \A i \in Ids : dels[i] # Absent => i \in gone
SavesIn(q, gone) ==
  \A k \in 1..Len(q) : q[k].type = "save" => OnlyRemoved(q[k].snapshot.dels, gone)
QueueIn(q, gone) == q # NoSnapshot => OnlyRemoved(q.dels, gone)

ErasureInv ==
  /\ Shown
  /\ QueueIn(queued, removed) /\ SavesIn(toServer, removed)
  /\ NothingErased

LEMMA SavesAppended ==
  ASSUME NEW q \in Seq(Outgoing), NEW gone, SavesIn(q, gone),
         NEW s, OnlyRemoved(s.dels, gone)
  PROVE  SavesIn(Append(q, Save(s)), gone)
<1> SUFFICES ASSUME NEW k \in 1..Len(Append(q, Save(s)))
             PROVE  LET m == Append(q, Save(s))[k]
                    IN  m.type = "save" => OnlyRemoved(m.snapshot.dels, gone)
  BY DEF SavesIn
<1>1. CASE k \in 1..Len(q)
  <2>1. Append(q, Save(s))[k] = q[k]
    BY <1>1
  <2> QED BY <1>1, <2>1 DEF SavesIn
<1>2. CASE k \notin 1..Len(q)
  <2>1. Len(q) \in Nat /\ Len(Append(q, Save(s))) = Len(q) + 1
    OBVIOUS
  <2>2. k = Len(q) + 1
    BY <1>2, <2>1
  <2>3. Append(q, Save(s))[k] = Save(s)
    BY <2>2
  <2>4. Save(s).snapshot = s
    BY DEF Save
  <2> QED BY <2>3, <2>4
<1> QED BY <1>1, <1>2

LEMMA SavesKeptByJoin ==
  ASSUME NEW q \in Seq(Outgoing), NEW gone, SavesIn(q, gone)
  PROVE  SavesIn(Append(q, Join), gone)
<1> SUFFICES ASSUME NEW k \in 1..Len(Append(q, Join)),
                    Append(q, Join)[k].type = "save"
             PROVE  OnlyRemoved(Append(q, Join)[k].snapshot.dels, gone)
  BY DEF SavesIn
<1>1. Len(q) \in Nat /\ Len(Append(q, Join)) = Len(q) + 1
      /\ Append(q, Join)[Len(q) + 1] = Join
  OBVIOUS
<1>2. k # Len(q) + 1
  BY <1>1 DEF Join
<1>3. k \in 1..Len(q) /\ Append(q, Join)[k] = q[k]
  BY <1>1, <1>2
<1> QED BY <1>3 DEF SavesIn

LEMMA SavesOfTail ==
  ASSUME NEW q \in Seq(Outgoing), q # <<>>, NEW gone, SavesIn(q, gone)
  PROVE  /\ SavesIn(Tail(q), gone)
         /\ Head(q).type = "save" => OnlyRemoved(Head(q).snapshot.dels, gone)
<1>1. /\ Len(q) \in Nat /\ Len(q) >= 1 /\ Head(q) = q[1]
      /\ Len(Tail(q)) = Len(q) - 1
      /\ \A k \in 1..Len(Tail(q)) : Tail(q)[k] = q[k + 1]
  OBVIOUS
<1>2. 1 \in 1..Len(q) /\ \A k \in 1..Len(Tail(q)) : k + 1 \in 1..Len(q)
  BY <1>1
<1> QED BY <1>1, <1>2 DEF SavesIn

LEMMA RemovedGrows ==
  ASSUME NEW q, NEW s, NEW gone, NEW more, gone \subseteq more
  PROVE  /\ SavesIn(q, gone) => SavesIn(q, more)
         /\ QueueIn(s, gone) => QueueIn(s, more)
  BY DEF SavesIn, QueueIn, OnlyRemoved

LEMMA FlushErases ==
  ASSUME TypeOK, NEW gone, SavesIn(toServer, gone),
         NEW snapshot, QueueIn(snapshot, gone),
         NEW n, NEW in, NEW inBurst, Flush(snapshot, n, in, inBurst)
  PROVE  QueueIn(queued', gone) /\ SavesIn(toServer', gone)
<1>1. CASE snapshot # NoSnapshot /\ LineIsOpen(in) /\ IntervalAllows(n, inBurst)
  <2>1. toServer' = Append(toServer, Save(snapshot)) /\ queued' = NoSnapshot
    BY <1>1 DEF Flush
  <2>2. OnlyRemoved(snapshot.dels, gone) /\ toServer \in Seq(Outgoing)
    BY <1>1 DEF QueueIn, TypeOK
  <2> QED BY <2>1, <2>2, SavesAppended DEF QueueIn
<1>2. CASE ~(snapshot # NoSnapshot /\ LineIsOpen(in) /\ IntervalAllows(n, inBurst))
  BY <1>2 DEF Flush
<1> QED BY <1>1, <1>2

(* What the client sends deletes only what prev has and shapes lack.        *)
LEMMA ReconciledErases ==
  ASSUME TypeOK, NEW shapes \in Copies, NEW gone,
         \A i \in Ids : Has(prev, i) /\ ~Has(shapes, i) => i \in gone
  PROVE  /\ OnlyRemoved(Reconciled(shapes).dels, gone)
         /\ \A i \in Ids : Has(Reconciled(shapes).shapes, i) => Has(shapes, i)
  BY ReconciledFacts DEF OnlyRemoved, TypeOK

LEMMA SendErases ==
  ASSUME TypeOK, ErasureInv, NEW shapes \in Copies, NEW soon,
         SendCanvasSnapshot(shapes, soon), removed \subseteq removed',
         \A i \in Ids : Has(prev, i) /\ ~Has(shapes, i) => i \in removed'
  PROVE  ErasureInv'
<1>1. /\ OnlyRemoved(Reconciled(shapes).dels, removed')
      /\ \A i \in Ids : Has(Reconciled(shapes).shapes, i) => Has(shapes, i)
  BY ReconciledErases
<1>2. Shown'
  BY <1>1 DEF SendCanvasSnapshot, Shown, Has
<1>3. QueueIn(Reconciled(shapes), removed') /\ SavesIn(toServer, removed')
  BY <1>1, RemovedGrows DEF QueueIn, ErasureInv
<1>4. Flush(Reconciled(shapes), inFlight, joined, burst \/ soon)
  BY DEF SendCanvasSnapshot
<1>5. QueueIn(queued', removed') /\ SavesIn(toServer', removed')
  BY <1>3, <1>4, FlushErases
<1>6. NothingErased'
  BY DEF SendCanvasSnapshot, serverVars, ErasureInv, NothingErased
<1> QED BY <1>2, <1>5, <1>6 DEF ErasureInv

LEMMA RoomErases ==
  ASSUME TypeOK, NothingErased, NEW snapshot \in Snapshot, NEW gone,
         removed \subseteq gone, OnlyRemoved(snapshot.dels, gone),
         MergeIntoRoom(snapshot)
  PROVE  \A i \in Ids : roomTombs'[i] # Absent => i \in gone
<1> SUFFICES ASSUME NEW i \in Ids, roomTombs'[i] # Absent PROVE i \in gone
  OBVIOUS
<1> DEFINE cell == [shape |-> Metas(room)[i], tomb |-> roomTombs[i]]
<1>1. roomTombs'[i] = MergeCell(cell, snapshot.dels[i], Metas(snapshot.shapes)[i]).tomb
  BY DEF MergeIntoRoom, MergedTombs, MergedCell
<1>2. cell.tomb = roomTombs[i]
  OBVIOUS
<1> HIDE DEF cell
<1>3. roomTombs'[i] \in {cell.tomb, snapshot.dels[i], Absent}
  BY <1>1 DEF MergeCell, WriteCell, DeleteCell
<1> QED BY <1>2, <1>3 DEF NothingErased, OnlyRemoved

LEMMA BrowserStepsErase ==
  ASSUME TypeOK, ErasureInv,
         \/ \E i \in Ids, soon \in BOOLEAN : Write(i, soon) \/ Remove(i, soon)
         \/ Tick \/ ApplyRemote \/ Reload
  PROVE  ErasureInv'
<1>0. view \in Copies /\ Shown /\ NoCopy \in MaybeCopy
      /\ \A i \in Ids : view[i] \in MaybeCopy
  BY CopiesAre DEF TypeOK, ErasureInv, MaybeCopy
<1>1. ASSUME NEW i \in Ids, NEW soon \in BOOLEAN, Write(i, soon)
      PROVE  ErasureInv'
  <2> DEFINE meta == IF Has(view, i) THEN view[i].meta ELSE Unstamped
             copy == [content |-> [by |-> Me, nth |-> edits + 1], meta |-> meta]
  <2>1. meta \in Meta
    BY <1>0, CopyFacts, ClientAssumption DEF Has, Unstamped, Meta
  <2>2. copy \in Copy
    BY <2>1, ClientAssumption DEF Copy, Content, TypeOK
  <2>3. copy # NoCopy /\ copy \in MaybeCopy
    BY <2>2, CopyFacts, MetaFields DEF MaybeCopy, Copy, NoCopy, Absent, Meta
  <2>4. /\ removed' = removed
        /\ SendCanvasSnapshot([view EXCEPT ![i] = copy], soon)
    BY <1>1 DEF Write
  <2> HIDE DEF copy
  <2>5. [view EXCEPT ![i] = copy] \in Copies
    BY <1>0, <2>3, CopiesUpdated
  <2>6. \A j \in Ids : Has(prev, j) => Has([view EXCEPT ![i] = copy], j)
    BY <1>0, <2>3 DEF Shown, Has, Copies
  <2> QED BY <2>4, <2>5, <2>6, SendErases
<1>2. ASSUME NEW i \in Ids, NEW soon \in BOOLEAN, Remove(i, soon)
      PROVE  ErasureInv'
  <2>1. [view EXCEPT ![i] = NoCopy] \in Copies
    BY <1>0, CopiesUpdated
  <2>2. /\ removed' = removed \cup {i}
        /\ SendCanvasSnapshot([view EXCEPT ![i] = NoCopy], soon)
    BY <1>2 DEF Remove
  <2>3. \A j \in Ids : Has(prev, j) /\ ~Has([view EXCEPT ![i] = NoCopy], j) => j = i
    BY <1>0 DEF Shown, Has, Copies
  <2> QED BY <2>1, <2>2, <2>3, SendErases
<1>3. ASSUME Tick PROVE ErasureInv'
  <2>1. Flush(queued, inFlight, joined, burst) /\ removed' = removed
    BY <1>3 DEF Tick, countVars
  <2>2. QueueIn(queued', removed) /\ SavesIn(toServer', removed)
    BY <2>1, FlushErases DEF ErasureInv
  <2>3. Shown' /\ NothingErased'
    BY <1>3 DEF Tick, serverVars, countVars, ErasureInv, Shown, NothingErased, Has
  <2> QED BY <2>1, <2>2, <2>3 DEF ErasureInv
<1>4. ASSUME ApplyRemote PROVE ErasureInv'
  <2>1. view' = prev' /\ UNCHANGED <<queued, toServer, serverVars, countVars>>
    BY <1>4 DEF ApplyRemote, Hydrate
  <2> QED BY <2>1 DEF ErasureInv, Shown, NothingErased, serverVars, countVars
<1>5. ASSUME Reload PROVE ErasureInv'
  <2>1. view' = prev' /\ UNCHANGED <<queued, toServer, serverVars, removed>>
    BY <1>5 DEF Reload, Hydrate
  <2> QED BY <2>1 DEF ErasureInv, Shown, NothingErased, serverVars
<1> QED BY <1>1, <1>2, <1>3, <1>4, <1>5

LEMMA ReceiveStepsErase ==
  ASSUME TypeOK, ErasureInv,
         ReceiveJoined \/ ReceiveBroadcast \/ ReceiveAck \/ ReceiveError
  PROVE  ErasureInv'
<1>1. \A type : Receive(type) =>
        UNCHANGED <<roomTombs, removed>>
  BY DEF Receive, serverVars, countVars
<1>2. ASSUME ReceiveJoined PROVE ErasureInv'
  <2>1. /\ view' = prev' /\ Flush(queued, 0, TRUE, burst)
        /\ UNCHANGED <<roomTombs, removed>>
    BY <1>1, <1>2 DEF ReceiveJoined
  <2>2. QueueIn(queued', removed) /\ SavesIn(toServer', removed)
    BY <2>1, FlushErases DEF ErasureInv
  <2> QED BY <2>1, <2>2 DEF ErasureInv, Shown, NothingErased
<1>3. ASSUME ReceiveBroadcast PROVE ErasureInv'
  <2>1. UNCHANGED <<view, prev, queued, toServer, roomTombs, removed>>
    BY <1>1, <1>3 DEF ReceiveBroadcast
  <2> QED BY <2>1 DEF ErasureInv, Shown, NothingErased, Has
<1>4. ASSUME ReceiveAck PROVE ErasureInv'
  <2>1. UNCHANGED <<view, prev, queued, toServer, roomTombs, removed>>
    BY <1>1, <1>4 DEF ReceiveAck
  <2> QED BY <2>1 DEF ErasureInv, Shown, NothingErased, Has
<1>5. ASSUME ReceiveError PROVE ErasureInv'
  <2>1. /\ UNCHANGED <<view, toServer, roomTombs, removed>>
        /\ \/ queued' = queued /\ prev' = prev
           \/ queued' = Reconciled(view) /\ prev' = Reconciled(view).shapes
    BY <1>1, <1>5 DEF ReceiveError
  <2>2. /\ OnlyRemoved(Reconciled(view).dels, removed)
        /\ \A i \in Ids : Has(Reconciled(view).shapes, i) => Has(view, i)
    BY ReconciledErases DEF ErasureInv, Shown, TypeOK
  <2>3. Shown'
    BY <2>1, <2>2 DEF ErasureInv, Shown, Has
  <2>4. QueueIn(queued', removed)
    BY <2>1, <2>2 DEF ErasureInv, QueueIn
  <2> QED BY <2>1, <2>3, <2>4 DEF ErasureInv, NothingErased
<1> QED BY <1>2, <1>3, <1>4, <1>5

LEMMA TimeAndConnectionErase ==
  ASSUME TypeOK, ErasureInv,
         \/ IntervalOver \/ GraceOver \/ BurstOver \/ BackoffOver
         \/ Open \/ Close \/ Leave
  PROVE  ErasureInv'
<1>1. CASE IntervalOver \/ GraceOver \/ BurstOver \/ BackoffOver
  <2>1. UNCHANGED <<view, prev, queued, toServer, roomTombs, removed>>
    BY <1>1 DEF IntervalOver, GraceOver, BurstOver, BackoffOver, serverVars, countVars
  <2> QED BY <2>1 DEF ErasureInv, Shown, NothingErased, Has
<1>2. CASE Open
  <2>1. /\ toServer' = Append(toServer, Join)
        /\ UNCHANGED <<view, prev, queued, roomTombs, removed>>
    BY <1>2 DEF Open, browserVars, serverVars, countVars
  <2>2. SavesIn(toServer', removed)
    BY <2>1, SavesKeptByJoin DEF ErasureInv, TypeOK
  <2> QED BY <2>1, <2>2 DEF ErasureInv, Shown, NothingErased, Has
<1>3. CASE Close
  <2>1. toServer' = <<>> /\ UNCHANGED <<view, prev, queued, roomTombs, removed>>
    BY <1>3 DEF Close, countVars
  <2>2. SavesIn(toServer', removed)
    BY <2>1 DEF SavesIn
  <2> QED BY <2>1, <2>2 DEF ErasureInv, Shown, NothingErased, Has
<1>4. CASE Leave
  <2>1. /\ queued' = NoSnapshot /\ UNCHANGED <<view, prev, roomTombs, removed>>
        /\ \/ toServer' = toServer
           \/ toServer' = Append(toServer, Save(Reconciled(view)))
    BY <1>4 DEF Leave, serverVars, countVars
  <2>2. OnlyRemoved(Reconciled(view).dels, removed)
    BY ReconciledErases DEF ErasureInv, Shown, TypeOK
  <2>3. SavesIn(toServer', removed)
    BY <2>1, <2>2, SavesAppended DEF ErasureInv, TypeOK
  <2>4. QueueIn(queued', removed)
    BY <2>1 DEF QueueIn
  <2> QED BY <2>1, <2>3, <2>4 DEF ErasureInv, Shown, NothingErased, Has
<1> QED BY <1>1, <1>2, <1>3, <1>4

LEMMA ServerStepsErase ==
  ASSUME TypeOK, ErasureInv,
         \/ AdmitJoin \/ RefuseJoin \/ CommitSnapshot
         \/ \E reason \in Reasons : RejectSnapshot(reason)
         \/ \E i \in Ids, gone, seen \in BOOLEAN : OtherCommits(i, gone, seen)
  PROVE  ErasureInv'
<1>1. ASSUME NEW type, Serve(type)
      PROVE  /\ UNCHANGED <<view, prev, queued, removed>>
             /\ SavesIn(toServer', removed)
             /\ type = "save" => /\ OnlyRemoved(Head(toServer).snapshot.dels, removed)
                                 /\ Head(toServer).snapshot \in Snapshot
  BY <1>1, ServeType, SavesOfTail DEF Serve, browserVars, ErasureInv, TypeOK
<1>2. ASSUME AdmitJoin \/ RefuseJoin \/ \E reason \in Reasons : RejectSnapshot(reason)
      PROVE  ErasureInv'
  <2>1. roomTombs' = roomTombs /\ \E type : Serve(type)
    BY <1>2 DEF AdmitJoin, RefuseJoin, RejectSnapshot
  <2> QED BY <1>1, <2>1 DEF ErasureInv, Shown, NothingErased, Has
<1>3. ASSUME CommitSnapshot PROVE ErasureInv'
  <2>1. Serve("save") /\ MergeIntoRoom(Head(toServer).snapshot)
    BY <1>3 DEF CommitSnapshot
  <2>2. NothingErased'
    BY <1>1, <2>1, RoomErases DEF ErasureInv, NothingErased
  <2> QED BY <1>1, <2>1, <2>2 DEF ErasureInv, Shown, Has
<1>4. ASSUME NEW i \in Ids, NEW gone \in BOOLEAN, NEW seen \in BOOLEAN,
             OtherCommits(i, gone, seen)
      PROVE  ErasureInv'
  <2>1. /\ removed' = IF gone THEN removed \cup {i} ELSE removed
        /\ UNCHANGED <<view, prev, queued, toServer>>
    BY <1>4 DEF OtherCommits, browserVars
  <2>2. PICK snapshot \in Snapshot :
          /\ MergeIntoRoom(snapshot)
          /\ \A j \in Ids : snapshot.dels[j] # Absent => j \in removed'
    BY <1>4, OtherSnapshotType
  <2>3. OnlyRemoved(snapshot.dels, removed') /\ removed \subseteq removed'
    BY <2>1, <2>2 DEF OnlyRemoved
  <2>4. NothingErased'
    BY <2>2, <2>3, RoomErases DEF ErasureInv, NothingErased
  <2>5. QueueIn(queued, removed') /\ SavesIn(toServer, removed')
    BY <2>3, RemovedGrows DEF ErasureInv
  <2> QED BY <2>1, <2>4, <2>5 DEF ErasureInv, Shown, Has
<1> QED BY <1>2, <1>3, <1>4

LEMMA InitErases == Init => ErasureInv
<1> HAVE Init
<1>1. /\ prev = NoCopies /\ queued = NoSnapshot /\ toServer = <<>>
      /\ roomTombs = NoEntries
  BY DEF Init
<1> QED BY <1>1 DEF ErasureInv, Shown, QueueIn, SavesIn, NothingErased, Has,
                    NoCopies, NoEntries

\* A shape is deleted on the server only if a user removed it, whatever
\* useCanvasSync hydrates, puts back, requeues or sends when the page is left.
THEOREM OnlyRemovedShapesVanish == Spec => []NothingErased
<1>1. TypeOK /\ TypeOK' /\ ErasureInv /\ [Next]_vars => ErasureInv'
  <2> SUFFICES ASSUME TypeOK, ErasureInv, [Next]_vars PROVE ErasureInv'
    OBVIOUS
  <2>1. CASE UNCHANGED vars
    <3>1. UNCHANGED <<view, prev, queued, toServer, roomTombs, removed>>
      BY <2>1 DEF vars, browserVars, serverVars, countVars
    <3> QED BY <3>1 DEF ErasureInv, Shown, NothingErased, Has
  <2>2. CASE Next
    BY <2>2, BrowserStepsErase, ReceiveStepsErase, TimeAndConnectionErase,
       ServerStepsErase DEF Next
  <2> QED BY <2>1, <2>2
<1>2. ErasureInv => NothingErased
  BY DEF ErasureInv
<1> QED BY InitErases, TypeCorrect, <1>1, <1>2, PTL DEF Spec

-----------------------------------------------------------------------------
(***************************************************************************)
(* The next stamp is newer than all the browser holds.  The property is    *)
(* inductive: whatever is hydrated or noted is observed first, and a       *)
(* reconciled snapshot takes its stamps from the clock it then moves on.   *)
(***************************************************************************)
Below(shapes, n) == \A i \in Ids : shapes[i].meta.clock <= n
BelowIn(s, n) == s # NoSnapshot => Below(s.shapes, n)

StampInv ==
  joined => /\ Below(view, clock) /\ Below(prev, clock)
            /\ BelowIn(queued, clock) /\ BelowIn(pending, clock)

LEMMA BelowGrows ==
  ASSUME NEW shapes \in Copies, NEW n \in Nat, NEW m \in Nat, n <= m, Below(shapes, n)
  PROVE  Below(shapes, m)
<1> SUFFICES ASSUME NEW i \in Ids PROVE shapes[i].meta.clock <= m
  BY DEF Below
<1>1. shapes[i].meta.clock \in Int
  BY CopiesAre, CopyFacts
<1>2. shapes[i].meta.clock <= n
  BY DEF Below
<1> QED BY <1>1, <1>2

LEMMA BelowInGrows ==
  ASSUME NEW s \in Snapshot \cup {NoSnapshot}, NEW n \in Nat, NEW m \in Nat, n <= m,
         BelowIn(s, n)
  PROVE  BelowIn(s, m)
  BY BelowGrows DEF BelowIn, Snapshot

LEMMA ObservedFacts ==
  ASSUME TypeOK, NEW shapes \in Copies, NEW c \in Observed(shapes)
  PROVE  c \in Nat /\ clock <= c /\ Below(shapes, c)
  BY HighestFacts DEF Observed, Below, TypeOK

LEMMA ReconciledStamps ==
  ASSUME TypeOK, Below(prev, clock), NEW shapes \in Copies
  PROVE  /\ ClockAfter(shapes) \in Nat /\ clock <= ClockAfter(shapes)
         /\ Reconciled(shapes) \in Snapshot
         /\ Below(Reconciled(shapes).shapes, ClockAfter(shapes))
<1>1. /\ clock \in Nat /\ ClockAfter(shapes) \in Nat /\ ClockAfter(shapes) >= clock
      /\ Reconciled(shapes) \in Snapshot
      /\ \A i \in Ids :
           \/ Reconciled(shapes).shapes[i].meta.clock <= ClockAfter(shapes)
           \/ Reconciled(shapes).shapes[i].meta.clock = prev[i].meta.clock
  BY ReconciledFacts DEF TypeOK
<1>2. \A i \in Ids : prev[i].meta.clock \in Int /\ prev[i].meta.clock <= clock
  BY CopiesAre, CopyFacts DEF Below, TypeOK
<1> QED BY <1>1, <1>2 DEF Below

LEMMA FlushKeepsQueue ==
  ASSUME NEW snapshot, NEW n, NEW in, NEW inBurst, NEW m,
         Flush(snapshot, n, in, inBurst), BelowIn(snapshot, m)
  PROVE  BelowIn(queued', m)
  BY DEF Flush, BelowIn

LEMMA SendStamps ==
  ASSUME TypeOK, StampInv, NEW shapes \in Copies, NEW soon,
         joined => Below(shapes, clock), SendCanvasSnapshot(shapes, soon)
  PROVE  StampInv'
<1> SUFFICES ASSUME joined'
             PROVE  /\ Below(view', clock') /\ Below(prev', clock')
                    /\ BelowIn(queued', clock') /\ BelowIn(pending', clock')
  BY DEF StampInv
<1>1. /\ joined' = joined /\ pending' = pending /\ view' = shapes
      /\ prev' = Reconciled(shapes).shapes /\ clock' = ClockAfter(shapes)
      /\ Flush(Reconciled(shapes), inFlight, joined, burst \/ soon)
  BY DEF SendCanvasSnapshot
<1>2. /\ Below(prev, clock) /\ BelowIn(pending, clock) /\ Below(shapes, clock)
      /\ clock \in Nat /\ pending \in Snapshot \cup {NoSnapshot}
  BY <1>1 DEF StampInv, TypeOK
<1>3. /\ clock' \in Nat /\ clock <= clock'
      /\ Below(Reconciled(shapes).shapes, clock')
  BY <1>1, <1>2, ReconciledStamps
<1>4. BelowIn(queued', clock')
  BY <1>1, <1>3, FlushKeepsQueue DEF BelowIn
<1>5. Below(view', clock') /\ BelowIn(pending', clock')
  BY <1>1, <1>2, <1>3, BelowGrows, BelowInGrows
<1> QED BY <1>1, <1>3, <1>4, <1>5

LEMMA BrowserStepsStamp ==
  ASSUME TypeOK, StampInv,
         \/ \E i \in Ids, soon \in BOOLEAN : Write(i, soon) \/ Remove(i, soon)
         \/ Tick \/ ApplyRemote \/ Reload
  PROVE  StampInv'
<1>0. /\ view \in Copies /\ NoCopy \in MaybeCopy /\ clock \in Nat
      /\ \A i \in Ids : view[i] \in MaybeCopy
      /\ queued \in Snapshot \cup {NoSnapshot} /\ pending \in Snapshot \cup {NoSnapshot}
  BY CopiesAre DEF TypeOK, MaybeCopy
<1>1. ASSUME NEW i \in Ids, NEW soon \in BOOLEAN, Write(i, soon)
      PROVE  StampInv'
  <2> DEFINE meta == IF Has(view, i) THEN view[i].meta ELSE Unstamped
             copy == [content |-> [by |-> Me, nth |-> edits + 1], meta |-> meta]
  <2>1. meta \in Meta
    BY <1>0, CopyFacts, ClientAssumption DEF Has, Unstamped, Meta
  <2>2. copy \in MaybeCopy /\ copy.meta = meta
    BY <2>1, ClientAssumption DEF MaybeCopy, Copy, Content, TypeOK
  <2>3. joined => meta.clock <= clock
    BY <1>0 DEF StampInv, Below, Unstamped
  <2>4. SendCanvasSnapshot([view EXCEPT ![i] = copy], soon)
    BY <1>1 DEF Write
  <2> HIDE DEF copy, meta
  <2>5. [view EXCEPT ![i] = copy] \in Copies
    BY <1>0, <2>2, CopiesUpdated
  <2>6. joined => Below([view EXCEPT ![i] = copy], clock)
    BY <1>0, <2>2, <2>3 DEF StampInv, Below, Copies
  <2> QED BY <2>4, <2>5, <2>6, SendStamps
<1>2. ASSUME NEW i \in Ids, NEW soon \in BOOLEAN, Remove(i, soon)
      PROVE  StampInv'
  <2>1. [view EXCEPT ![i] = NoCopy] \in Copies
    BY <1>0, CopiesUpdated
  <2>2. SendCanvasSnapshot([view EXCEPT ![i] = NoCopy], soon)
    BY <1>2 DEF Remove
  <2>3. NoCopy.meta.clock <= clock
    <3>1. NoCopy.meta.clock = -1
      BY AbsentIn DEF NoCopy
    <3> QED BY <1>0, <3>1
  <2>4. joined => Below([view EXCEPT ![i] = NoCopy], clock)
    BY <1>0, <2>3 DEF StampInv, Below, Copies
  <2> QED BY <2>1, <2>2, <2>4, SendStamps
<1>3. ASSUME Tick PROVE StampInv'
  <2>1. /\ Flush(queued, inFlight, joined, burst)
        /\ UNCHANGED <<view, prev, pending, clock, joined>>
    BY <1>3 DEF Tick
  <2>2. joined => BelowIn(queued', clock)
    BY <2>1, FlushKeepsQueue DEF StampInv
  <2> QED BY <2>1, <2>2 DEF StampInv
<1>4. ASSUME NEW shapes \in Copies, Hydrate(shapes),
             queued' = queued, pending' \in {pending, NoSnapshot}, joined' = joined
      PROVE  StampInv'
  <2>1. /\ clock' \in Nat /\ clock <= clock' /\ Below(shapes, clock')
        /\ view' = shapes /\ prev' = shapes
    BY <1>4, ObservedFacts DEF Hydrate
  <2>2. joined => BelowIn(queued', clock') /\ BelowIn(pending', clock')
    <3>1. BelowIn(NoSnapshot, clock')
      BY DEF BelowIn
    <3> QED BY <1>0, <1>4, <2>1, <3>1, BelowInGrows DEF StampInv
  <2> QED BY <1>4, <2>1, <2>2 DEF StampInv
<1>5. ASSUME ApplyRemote PROVE StampInv'
  <2> DEFINE known == [i \in Ids |-> IF pending.dels[i] # Absent
                                     THEN pending.dels[i] ELSE tombs[i]]
             shown == IF LocalWork
                      THEN MergedCopies(pending.shapes, known, pending.dels, view)
                      ELSE pending.shapes
  <2>1. pending \in Snapshot
    BY <1>5 DEF ApplyRemote, TypeOK
  <2>2. pending.shapes \in Copies /\ pending.dels \in Entries
    BY <2>1 DEF Snapshot
  <2>3. known \in Entries
    BY <2>2 DEF Entries, TypeOK
  <2>4. shown \in Copies
    BY <1>0, <2>2, <2>3, MergedCopiesType
  <2>5. /\ pending' = NoSnapshot /\ Hydrate(shown)
        /\ queued' = queued /\ joined' = joined
    BY <1>5 DEF ApplyRemote
  <2> HIDE DEF shown
  <2> QED BY <1>4, <2>4, <2>5
<1>6. ASSUME Reload PROVE StampInv'
  <2>1. PICK shapes \in {room, Loaded} : Hydrate(shapes)
    BY <1>6 DEF Reload
  <2>2. shapes \in Copies
    BY ClientAssumption DEF TypeOK
  <2>3. queued' = queued /\ joined' = joined /\ pending' = pending
    BY <1>6 DEF Reload
  <2> QED BY <1>4, <2>1, <2>2, <2>3
<1> QED BY <1>1, <1>2, <1>3, <1>5, <1>6

LEMMA ReceiveStepsStamp ==
  ASSUME TypeOK, StampInv,
         ReceiveJoined \/ ReceiveBroadcast \/ ReceiveAck \/ ReceiveError
  PROVE  StampInv'
<1>0. /\ clock \in Nat /\ view \in Copies /\ prev \in Copies
      /\ queued \in Snapshot \cup {NoSnapshot} /\ pending \in Snapshot \cup {NoSnapshot}
  BY DEF TypeOK
<1>1. ASSUME ReceiveJoined PROVE StampInv'
  <2> DEFINE shapes == Head(toClient).shapes
             saved == IF queued = NoSnapshot THEN shapes ELSE queued.shapes
             seen == [i \in Ids |-> IF AtMost(saved[i].meta, shapes[i].meta)
                                    THEN shapes[i] ELSE saved[i]]
  <2>1. Receive("joined")
    BY <1>1 DEF ReceiveJoined
  <2>2. shapes \in Copies
    BY <2>1, ReceiveType, IncomingFields
  <2>3. saved \in Copies
    BY <2>2 DEF TypeOK, Snapshot
  <2>4. seen \in Copies
    BY <2>2, <2>3 DEF Copies
  <2>5. /\ view' = saved /\ prev' = saved /\ clock' \in Observed(seen)
        /\ Flush(queued, 0, TRUE, burst) /\ pending' = NoSnapshot
    BY <1>1 DEF ReceiveJoined
  <2>6. \A i \in Ids : /\ seen[i] = IF AtMost(saved[i].meta, shapes[i].meta)
                                    THEN shapes[i] ELSE saved[i]
                       /\ saved[i].meta.clock \in Int /\ shapes[i].meta.clock \in Int
    BY <2>2, <2>3, CopiesAre, CopyFacts
  <2>7. queued # NoSnapshot => saved = queued.shapes
    OBVIOUS
  <2> HIDE DEF shapes, saved, seen
  <2>8. clock' \in Nat /\ Below(seen, clock')
    BY <2>4, <2>5, ObservedFacts
  <2>9. Below(saved, clock')
    BY <2>6, <2>8 DEF Below, AtMost
  <2>10. BelowIn(queued, clock')
    BY <2>7, <2>9 DEF BelowIn
  <2>11. BelowIn(queued', clock')
    BY <2>5, <2>10, FlushKeepsQueue
  <2>12. BelowIn(pending', clock')
    BY <2>5 DEF BelowIn
  <2> QED BY <2>5, <2>9, <2>11, <2>12 DEF StampInv
<1>2. ASSUME ReceiveBroadcast PROVE StampInv'
  <2>1. Receive("broadcast")
    BY <1>2 DEF ReceiveBroadcast
  <2>2. Head(toClient).snapshot \in Snapshot
    BY <2>1, ReceiveType, IncomingFields
  <2>3. /\ pending' = Head(toClient).snapshot
        /\ clock' \in Observed(Head(toClient).snapshot.shapes)
        /\ UNCHANGED <<view, prev, queued, joined>>
    BY <1>2 DEF ReceiveBroadcast
  <2>4. /\ clock' \in Nat /\ clock <= clock'
        /\ Below(Head(toClient).snapshot.shapes, clock')
    BY <2>2, <2>3, ObservedFacts DEF Snapshot
  <2>5. BelowIn(pending', clock')
    BY <2>3, <2>4 DEF BelowIn
  <2>6. joined => /\ Below(view, clock') /\ Below(prev, clock')
                  /\ BelowIn(queued, clock')
    BY <1>0, <2>4, BelowGrows, BelowInGrows DEF StampInv
  <2> QED BY <2>3, <2>5, <2>6 DEF StampInv
<1>3. ASSUME ReceiveAck PROVE StampInv'
  <2>1. UNCHANGED <<view, prev, queued, pending, clock, joined>>
    BY <1>3 DEF ReceiveAck
  <2> QED BY <2>1 DEF StampInv
<1>4. ASSUME ReceiveError PROVE StampInv'
  <2>1. /\ UNCHANGED <<view, pending, joined>>
        /\ \/ UNCHANGED <<queued, prev, clock>>
           \/ /\ queued' = Reconciled(view) /\ prev' = Reconciled(view).shapes
              /\ clock' = ClockAfter(view)
    BY <1>4 DEF ReceiveError
  <2>2. CASE UNCHANGED <<queued, prev, clock>>
    BY <2>1, <2>2 DEF StampInv
  <2>3. CASE /\ queued' = Reconciled(view) /\ prev' = Reconciled(view).shapes
             /\ clock' = ClockAfter(view)
    <3>1. joined => /\ clock' \in Nat /\ clock <= clock'
                    /\ Below(Reconciled(view).shapes, clock')
      BY <1>0, <2>3, ReconciledStamps DEF StampInv
    <3>2. joined => Below(view, clock') /\ BelowIn(pending, clock')
      BY <1>0, <3>1, BelowGrows, BelowInGrows DEF StampInv
    <3> QED BY <2>1, <2>3, <3>1, <3>2 DEF StampInv, BelowIn
  <2> QED BY <2>1, <2>2, <2>3
<1> QED BY <1>1, <1>2, <1>3, <1>4

LEMMA OtherStepsStamp ==
  ASSUME TypeOK, StampInv,
         \/ IntervalOver \/ GraceOver \/ BurstOver \/ BackoffOver
         \/ Open \/ Close \/ Leave
         \/ AdmitJoin \/ RefuseJoin \/ CommitSnapshot
         \/ \E reason \in Reasons : RejectSnapshot(reason)
         \/ \E i \in Ids, gone, seen \in BOOLEAN : OtherCommits(i, gone, seen)
  PROVE  StampInv'
<1>1. CASE Close \/ Leave
  <2>1. joined' = FALSE
    BY <1>1 DEF Close, Leave
  <2> QED BY <2>1 DEF StampInv
<1>2. CASE ~(Close \/ Leave)
  <2>1. UNCHANGED <<view, prev, queued, pending, clock, joined>>
    <3>1. CASE IntervalOver \/ GraceOver \/ BurstOver \/ BackoffOver \/ Open
      BY <3>1 DEF IntervalOver, GraceOver, BurstOver, BackoffOver, Open, browserVars
    <3>2. CASE ~(IntervalOver \/ GraceOver \/ BurstOver \/ BackoffOver \/ Open)
      <4>1. UNCHANGED browserVars
        BY <1>2, <3>2 DEF AdmitJoin, RefuseJoin, CommitSnapshot, RejectSnapshot,
                          OtherCommits, Serve
      <4> QED BY <4>1 DEF browserVars
    <3> QED BY <3>1, <3>2
  <2> QED BY <2>1 DEF StampInv
<1> QED BY <1>1, <1>2

\* Once it is joined, the next stamp of a browser outranks every shape it
\* shows, keeps, sends or is about to hydrate.
THEOREM StampsAreNewest == Spec => []NextStampIsNewest
<1>1. Init => StampInv
  BY DEF Init, StampInv
<1>2. TypeOK /\ StampInv /\ [Next]_vars => StampInv'
  <2> SUFFICES ASSUME TypeOK, StampInv, [Next]_vars PROVE StampInv'
    OBVIOUS
  <2>1. CASE UNCHANGED vars
    <3>1. UNCHANGED <<view, prev, queued, pending, clock, joined>>
      BY <2>1 DEF vars, browserVars
    <3> QED BY <3>1 DEF StampInv
  <2>2. CASE Next
    BY <2>2, BrowserStepsStamp, ReceiveStepsStamp, OtherStepsStamp DEF Next
  <2> QED BY <2>1, <2>2
<1>3. StampInv => NextStampIsNewest
  BY DEF StampInv, NextStampIsNewest, Held, Below, BelowIn
<1> QED BY TypeCorrect, <1>1, <1>2, <1>3, PTL DEF Spec
-----------------------------------------------------------------------------
(***************************************************************************)
(* Nothing an undisturbed browser drew is lost.  As long as nobody else,   *)
(* no error and no reload interferes and no edit came before room_joined,  *)
(* the page waits for room_joined with the shapes it loaded, has been left *)
(* before it came, follows the server, or is gone.  A page that follows    *)
(* has sent, queued or seen committed what it compares its canvas with,    *)
(* and that outranks everything the server holds and will merge before.    *)
(***************************************************************************)
Quiet == remotes = 0 /\ mishaps = 0 /\ ~early

SameContent(a, b) ==
  \A i \in Ids : /\ Has(a, i) <=> Has(b, i)
                 /\ a[i].content = b[i].content

Ranked(shapes, dels, newest, n) ==
  \A i \in Ids :
    /\ shapes[i].meta.clock <= n /\ dels[i].clock <= n
    /\ Has(newest, i) => /\ AtMost(shapes[i].meta, newest[i].meta)
                         /\ ~AtMost(newest[i].meta, dels[i])

RankedSave(m, newest, n) ==
  /\ m.type = "save"
  /\ Ranked(m.snapshot.shapes, m.snapshot.dels, newest, n)

Waiting ==
  /\ view = Loaded /\ room = Loaded /\ prev = NoCopies /\ roomTombs = NoEntries
  /\ queued = NoSnapshot /\ pending = NoSnapshot /\ ~joined
  /\ \/ sock = "connecting" /\ toServer = <<>> /\ toClient = <<>> /\ ~admitted
     \/ sock = "open" /\ toServer = <<Join>> /\ toClient = <<>> /\ ~admitted
     \/ sock = "open" /\ toServer = <<>> /\ toClient = <<RoomJoined(Loaded)>> /\ admitted

Unread ==
  /\ sock = "left" /\ ~joined /\ pending = NoSnapshot /\ queued = NoSnapshot
  /\ SameContent(room, view) /\ roomTombs = NoEntries
  /\ Len(toServer) <= 2
  /\ \A k \in DOMAIN toServer :
       IF k = 1 /\ ~admitted THEN toServer[k] = Join
       ELSE /\ toServer[k].type = "save"
            /\ toServer[k].snapshot.dels = NoEntries
            /\ SameContent(toServer[k].snapshot.shapes, view)

LastIsNewest ==
  IF queued # NoSnapshot THEN queued.shapes = prev
  ELSE IF toServer # <<>> THEN toServer[Len(toServer)].snapshot.shapes = prev
  ELSE \A i \in Ids : Has(prev, i) => room[i] = prev[i]

Following ==
  /\ admitted /\ pending = NoSnapshot
  /\ \/ sock = "open" /\ joined
     \/ sock = "left" /\ ~joined /\ queued = NoSnapshot
  /\ SameContent(view, prev) /\ Below(prev, clock)
  /\ \A k \in DOMAIN toClient : toClient[k].type = "ack"
  /\ \A k \in DOMAIN toServer : RankedSave(toServer[k], prev, clock)
  /\ queued # NoSnapshot => Ranked(queued.shapes, queued.dels, prev, clock)
  /\ Ranked(room, roomTombs, prev, clock)
  /\ LastIsNewest

Gone == sock \in {"closed", "left"} /\ toServer = <<>> /\ ~admitted

WriteInv == Quiet => Waiting \/ Unread \/ Following \/ Gone

LEMMA MergedCopyFacts ==
  ASSUME NEW current \in MaybeCopy, NEW tomb \in MaybeMeta, NEW del \in MaybeMeta,
         NEW incoming \in MaybeCopy
  PROVE  /\ MergedCopy(current, tomb, del, incoming) \in {current, incoming, NoCopy}
         /\ tomb = Absent /\ del = Absent /\ current # NoCopy =>
              MergedCopy(current, tomb, del, incoming) \in {current, incoming}
         /\ /\ incoming # NoCopy /\ AtMost(current.meta, incoming.meta)
            /\ ~AtMost(incoming.meta, tomb) /\ ~AtMost(incoming.meta, del)
            => MergedCopy(current, tomb, del, incoming) = incoming
<1> DEFINE cell == DeleteCell([shape |-> current.meta, tomb |-> tomb], del)
           merged == MergedCopy(current, tomb, del, incoming)
<1>1. current.meta \in MaybeMeta /\ incoming.meta \in MaybeMeta
  BY CopyFacts
<1>2. /\ cell.shape \in {current.meta, Absent} /\ cell.tomb \in {tomb, del}
      /\ del = Absent => cell.shape = current.meta /\ cell.tomb = tomb
  BY DEF DeleteCell
<1>3. merged \in {current, incoming, NoCopy}
  BY DEF MergedCopy
<1>4. ASSUME tomb = Absent, del = Absent, current # NoCopy
      PROVE  merged \in {current, incoming}
  <2>1. current.meta # Absent
    BY <1>4, CopyFacts, MetaFields DEF Meta, Absent
  <2>2. cell.shape # Absent
    BY <1>2, <1>4, <2>1
  <2> QED BY <2>2 DEF MergedCopy
<1>5. ASSUME incoming # NoCopy, AtMost(current.meta, incoming.meta),
             ~AtMost(incoming.meta, tomb), ~AtMost(incoming.meta, del)
      PROVE  merged = incoming
  <2>1. ~AtMost(incoming.meta, cell.tomb)
    BY <1>2, <1>5
  <2>2. AtMost(cell.shape, incoming.meta)
    BY <1>1, <1>2, <1>5, AbsentBelow
  <2> QED BY <1>5, <2>1, <2>2 DEF MergedCopy
<1> QED BY <1>3, <1>4, <1>5

\* Each tombstone of the server comes from an announced deletion, or was there.
LEMMA RoomTombsFrom ==
  ASSUME NEW snapshot, MergeIntoRoom(snapshot)
  PROVE  \A i \in Ids : roomTombs'[i] \in {roomTombs[i], snapshot.dels[i], Absent}
<1> SUFFICES ASSUME NEW i \in Ids
             PROVE  roomTombs'[i] \in {roomTombs[i], snapshot.dels[i], Absent}
  OBVIOUS
<1>1. roomTombs'[i] = MergedCell(Metas(room), roomTombs, snapshot.dels,
                                 Metas(snapshot.shapes), i).tomb
  BY DEF MergeIntoRoom, MergedTombs
<1>2. \A c, d, w : MergeCell(c, d, w).tomb \in {c.tomb, d, Absent}
  BY DEF MergeCell, WriteCell, DeleteCell
<1> QED BY <1>1, <1>2 DEF MergedCell

LEMMA RoomAfter ==
  ASSUME NEW snapshot, MergeIntoRoom(snapshot)
  PROVE  \A i \in Ids : room'[i] = MergedCopy(room[i], roomTombs[i],
                                              snapshot.dels[i], snapshot.shapes[i])
  BY DEF MergeIntoRoom, MergedCopies

\* What is ranked below the newest copies stays so when the server merges it.
LEMMA RoomStaysRanked ==
  ASSUME TypeOK, NEW snapshot \in Snapshot, MergeIntoRoom(snapshot),
         NEW newest \in Copies, NEW n \in Nat,
         Ranked(room, roomTombs, newest, n),
         Ranked(snapshot.shapes, snapshot.dels, newest, n)
  PROVE  Ranked(room', roomTombs', newest, n)
<1> SUFFICES ASSUME NEW i \in Ids
             PROVE  /\ room'[i].meta.clock <= n /\ roomTombs'[i].clock <= n
                    /\ Has(newest, i) => /\ AtMost(room'[i].meta, newest[i].meta)
                                         /\ ~AtMost(newest[i].meta, roomTombs'[i])
  BY DEF Ranked
<1>1. /\ room[i] \in MaybeCopy /\ snapshot.shapes[i] \in MaybeCopy
      /\ roomTombs[i] \in MaybeMeta /\ snapshot.dels[i] \in MaybeMeta
      /\ newest[i] \in MaybeCopy
  BY CopiesAre DEF TypeOK, Snapshot, Entries
<1>2. room'[i] \in {room[i], snapshot.shapes[i], NoCopy}
  BY <1>1, RoomAfter, MergedCopyFacts
<1>3. roomTombs'[i] \in {roomTombs[i], snapshot.dels[i], Absent}
  BY RoomTombsFrom
<1>4. /\ room[i].meta.clock <= n /\ roomTombs[i].clock <= n
      /\ snapshot.shapes[i].meta.clock <= n /\ snapshot.dels[i].clock <= n
      /\ Has(newest, i) => /\ AtMost(room[i].meta, newest[i].meta)
                           /\ ~AtMost(newest[i].meta, roomTombs[i])
                           /\ AtMost(snapshot.shapes[i].meta, newest[i].meta)
                           /\ ~AtMost(newest[i].meta, snapshot.dels[i])
  BY DEF Ranked
<1>5. NoCopy.meta = Absent /\ Absent.clock <= n
  BY AbsentIn DEF NoCopy
<1>6. Has(newest, i) => /\ AtMost(Absent, newest[i].meta)
                        /\ ~AtMost(newest[i].meta, Absent)
  <2> HAVE Has(newest, i)
  <2>1. newest[i].meta \in Meta /\ newest[i].meta \in MaybeMeta
    BY <1>1, CopyFacts DEF Has
  <2>2. newest[i].meta # Absent
    BY <2>1, MetaFields DEF Meta, Absent
  <2> QED BY <2>1, <2>2, AbsentBelow, AtMostAbsent
<1> QED BY <1>2, <1>3, <1>4, <1>5, <1>6

\* The newest copies themselves replace what is ranked below them.
LEMMA NewestIsTaken ==
  ASSUME TypeOK, NEW snapshot \in Snapshot, MergeIntoRoom(snapshot), NEW n \in Nat,
         Ranked(room, roomTombs, snapshot.shapes, n),
         Ranked(snapshot.shapes, snapshot.dels, snapshot.shapes, n)
  PROVE  \A i \in Ids : Has(snapshot.shapes, i) => room'[i] = snapshot.shapes[i]
<1> SUFFICES ASSUME NEW i \in Ids, Has(snapshot.shapes, i)
             PROVE  room'[i] = snapshot.shapes[i]
  OBVIOUS
<1>1. /\ room[i] \in MaybeCopy /\ snapshot.shapes[i] \in MaybeCopy
      /\ roomTombs[i] \in MaybeMeta /\ snapshot.dels[i] \in MaybeMeta
  BY CopiesAre DEF TypeOK, Snapshot, Entries
<1>2. /\ AtMost(room[i].meta, snapshot.shapes[i].meta)
      /\ ~AtMost(snapshot.shapes[i].meta, roomTombs[i])
      /\ ~AtMost(snapshot.shapes[i].meta, snapshot.dels[i])
  BY DEF Ranked
<1> QED BY <1>1, <1>2, RoomAfter, MergedCopyFacts DEF Has

\* A reconciled snapshot outranks what was ranked below the last one, and has
\* the content of the canvas.
LEMMA ReconciledRanks ==
  ASSUME TypeOK, Below(prev, clock), NEW shapes \in Copies
  PROVE  LET s == Reconciled(shapes)
             n == ClockAfter(shapes)
         IN  /\ s \in Snapshot /\ n \in Nat /\ clock <= n
             /\ Below(s.shapes, n) /\ SameContent(shapes, s.shapes)
             /\ Ranked(s.shapes, s.dels, s.shapes, n)
             /\ \A old \in Copies, gone \in Entries :
                  Ranked(old, gone, prev, clock) => Ranked(old, gone, s.shapes, n)
<1> DEFINE s == Reconciled(shapes)
           n == ClockAfter(shapes)
           card == Cardinality(Changed(shapes))
           Stamp(k) == [clock |-> clock + k, author |-> Me]
<1>1. /\ s \in Snapshot /\ n \in Nat /\ clock <= n /\ clock \in Nat
      /\ Below(s.shapes, n)
      /\ \A i \in Ids : Has(s.shapes, i) <=> Has(shapes, i)
  <2>1. clock \in Nat /\ prev \in Copies
    BY DEF TypeOK
  <2> QED BY <2>1, ReconciledStamps, ReconciledFacts
<1>2. s.shapes \in Copies /\ s.dels \in Entries
  BY <1>1 DEF Snapshot
<1>3. card \in Nat
  BY ClientAssumption, FS_Subset, FS_CardinalityType DEF Changed
<1>4. n = clock + card + (IF Dropped(shapes) = {} THEN 0 ELSE 1)
  BY DEF ClockAfter
<1>5. ASSUME NEW i \in Ids
      PROVE  /\ s.shapes[i].content = shapes[i].content
             /\ Has(s.shapes, i) =>
                  \/ s.shapes[i].meta.clock > clock
                  \/ Has(prev, i) /\ s.shapes[i].meta = prev[i].meta
             /\ s.dels[i].clock <= n
             /\ Has(s.shapes, i) => s.dels[i] = Absent
  <2>1. s.shapes[i] = IF ~Has(shapes, i) THEN NoCopy
                      ELSE [content |-> shapes[i].content,
                            meta |-> IF i \in Changed(shapes) THEN Stamp(Rank(shapes, i))
                                     ELSE prev[i].meta]
    BY DEF Reconciled, Rank
  <2>2. s.shapes[i].content = shapes[i].content
    BY <2>1 DEF Has
  <2>3. ASSUME Has(shapes, i), i \in Changed(shapes)
        PROVE  s.shapes[i].meta.clock > clock
    <3>1. Rank(shapes, i) \in Nat /\ Rank(shapes, i) # 0
      <4>1. IsFiniteSet(Changed(shapes))
        BY ClientAssumption, FS_Subset DEF Changed
      <4>2. /\ i \in {j \in Changed(shapes) : j <= i}
            /\ IsFiniteSet({j \in Changed(shapes) : j <= i})
        <5>1. i <= i
          BY ClientAssumption
        <5> QED BY <2>3, <4>1, <5>1, FS_Subset
      <4> QED BY <4>2, FS_EmptySet, FS_CardinalityType DEF Rank
    <3>2. s.shapes[i].meta = Stamp(Rank(shapes, i))
      BY <2>1, <2>3
    <3>3. s.shapes[i].meta.clock = clock + Rank(shapes, i)
      BY <3>2
    <3> HIDE DEF s
    <3> QED BY <1>1, <3>1, <3>3
  <2>4. ASSUME Has(shapes, i), i \notin Changed(shapes)
        PROVE  Has(prev, i) /\ s.shapes[i].meta = prev[i].meta
    BY <2>1, <2>4 DEF Changed
  <2>5. s.dels[i] = IF i \in Dropped(shapes) THEN Stamp(card + 1) ELSE Absent
    BY DEF Reconciled
  <2>6. s.dels[i].clock <= n
    <3>1. CASE i \in Dropped(shapes)
      <4>1. s.dels[i].clock = clock + (card + 1)
        BY <2>5, <3>1
      <4>2. n = clock + card + 1
        BY <1>4, <3>1
      <4> HIDE DEF s, n, card
      <4> QED BY <1>1, <1>3, <4>1, <4>2
    <3>2. CASE i \notin Dropped(shapes)
      <4>1. s.dels[i].clock = -1
        BY <2>5, <3>2, AbsentIn
      <4> HIDE DEF s, n
      <4> QED BY <1>1, <4>1
    <3> QED BY <3>1, <3>2
  <2>7. Has(s.shapes, i) => s.dels[i] = Absent
    BY <1>1, <2>5 DEF Dropped
  <2> QED BY <1>1, <2>2, <2>3, <2>4, <2>6, <2>7
<1> HIDE DEF s, n
<1>6. SameContent(shapes, s.shapes)
  BY <1>1, <1>5 DEF SameContent
<1>7. \A i \in Ids : /\ s.shapes[i] \in MaybeCopy /\ s.dels[i] \in MaybeMeta
                     /\ Has(s.shapes, i) => /\ s.shapes[i].meta \in MaybeMeta
                                            /\ s.shapes[i].meta # Absent
  <2> TAKE i \in Ids
  <2>1. s.shapes[i] \in MaybeCopy /\ s.dels[i] \in MaybeMeta
    BY <1>2, CopiesAre DEF Entries
  <2> QED BY <2>1, CopyFacts, MetaFields DEF Has, Meta, Absent
<1>8. Ranked(s.shapes, s.dels, s.shapes, n)
  <2> SUFFICES ASSUME NEW i \in Ids
               PROVE  /\ s.shapes[i].meta.clock <= n /\ s.dels[i].clock <= n
                      /\ Has(s.shapes, i) => /\ AtMost(s.shapes[i].meta, s.shapes[i].meta)
                                             /\ ~AtMost(s.shapes[i].meta, s.dels[i])
    BY DEF Ranked
  <2>1. s.shapes[i].meta.clock <= n
    BY <1>1 DEF Below
  <2>2. Has(s.shapes, i) => AtMost(s.shapes[i].meta, s.shapes[i].meta)
    BY <1>7, AtMostReflexive
  <2>3. Has(s.shapes, i) => ~AtMost(s.shapes[i].meta, s.dels[i])
    BY <1>5, <1>7, AtMostAbsent
  <2> QED BY <1>5, <2>1, <2>2, <2>3
<1>9. ASSUME NEW old \in Copies, NEW gone \in Entries, Ranked(old, gone, prev, clock)
      PROVE  Ranked(old, gone, s.shapes, n)
  <2> SUFFICES ASSUME NEW i \in Ids
               PROVE  /\ old[i].meta.clock <= n /\ gone[i].clock <= n
                      /\ Has(s.shapes, i) => /\ AtMost(old[i].meta, s.shapes[i].meta)
                                             /\ ~AtMost(s.shapes[i].meta, gone[i])
    BY DEF Ranked
  <2>1. /\ old[i].meta.clock <= clock /\ gone[i].clock <= clock
        /\ Has(prev, i) => /\ AtMost(old[i].meta, prev[i].meta)
                           /\ ~AtMost(prev[i].meta, gone[i])
    BY <1>9 DEF Ranked
  <2>2. old[i].meta.clock \in Int /\ gone[i].clock \in Int
    BY CopiesAre, CopyFacts, MetaFields DEF Entries
  <2>3. old[i].meta.clock <= n /\ gone[i].clock <= n
    BY <1>1, <2>1, <2>2
  <2>4. ASSUME Has(s.shapes, i), s.shapes[i].meta.clock > clock
        PROVE  /\ AtMost(old[i].meta, s.shapes[i].meta)
               /\ ~AtMost(s.shapes[i].meta, gone[i])
    <3>1. s.shapes[i].meta.clock \in Int
      BY <1>7, MetaFields, <2>4
    <3>2. /\ old[i].meta.clock < s.shapes[i].meta.clock
          /\ gone[i].clock < s.shapes[i].meta.clock
      BY <1>1, <2>1, <2>2, <2>4, <3>1
    <3> QED BY <2>2, <3>1, <3>2 DEF AtMost
  <2> QED BY <1>5, <2>1, <2>3, <2>4
<1> QED BY <1>1, <1>6, <1>8, <1>9 DEF s, n

\* A canvas that has what it is compared with is reconciled to just that.
LEMMA ReconciledSame ==
  ASSUME TypeOK, SameContent(view, prev)
  PROVE  /\ Reconciled(view).shapes = prev /\ Reconciled(view).dels = NoEntries
         /\ ClockAfter(view) = clock
<1>1. view \in Copies /\ prev \in Copies /\ clock \in Nat
  BY DEF TypeOK
<1>2. Changed(view) = {} /\ Dropped(view) = {}
  BY DEF Changed, Dropped, SameContent
<1>3. Cardinality(Changed(view)) = 0
  BY <1>2, FS_EmptySet
<1>4. ClockAfter(view) = clock
  BY <1>1, <1>2, <1>3 DEF ClockAfter
<1>5. \A i \in Ids : Reconciled(view).shapes[i] =
                       IF ~Has(view, i) THEN NoCopy
                       ELSE [content |-> view[i].content, meta |-> prev[i].meta]
  BY <1>2 DEF Reconciled
<1>6. \A i \in Ids : Reconciled(view).shapes[i] = prev[i]
  <2> TAKE i \in Ids
  <2>1. CASE ~Has(view, i)
    BY <1>5, <2>1 DEF SameContent, Has
  <2>2. CASE Has(view, i)
    <3>1. prev[i] \in Copy /\ view[i].content = prev[i].content
      BY <1>1, <2>2, CopiesAre, CopyFacts DEF SameContent, Has
    <3> QED BY <1>5, <2>2, <3>1 DEF Copy
  <2> QED BY <2>1, <2>2
<1>7. Reconciled(view).shapes = [i \in Ids |-> Reconciled(view).shapes[i]]
  BY DEF Reconciled
<1>8. prev = [i \in Ids |-> prev[i]]
  BY <1>1 DEF Copies
<1>9. Reconciled(view).dels = NoEntries
  BY <1>2 DEF Reconciled, NoEntries
<1> QED BY <1>4, <1>6, <1>7, <1>8, <1>9

\* The farewell of a page that has not joined announces what it loaded.
LEMMA ReconciledFirst ==
  ASSUME TypeOK, prev = NoCopies
  PROVE  /\ Reconciled(view) \in Snapshot
         /\ Reconciled(view).dels = NoEntries
         /\ SameContent(Reconciled(view).shapes, view)
<1>1. /\ Reconciled(view) \in Snapshot
      /\ \A i \in Ids : Has(Reconciled(view).shapes, i) <=> Has(view, i)
  BY ReconciledFacts DEF TypeOK
<1>2. Dropped(view) = {}
  BY DEF Dropped, Has, NoCopies
<1>3. Reconciled(view).dels = NoEntries
  BY <1>2 DEF Reconciled, NoEntries
<1>4. \A i \in Ids : Reconciled(view).shapes[i].content = view[i].content
  BY DEF Reconciled, Has
<1> QED BY <1>1, <1>3, <1>4 DEF SameContent

LEMMA SnapshotIsNot == \A s \in Snapshot : s # NoSnapshot
<1> TAKE s \in Snapshot
<1>1. "shapes" \in DOMAIN s
  BY DEF Snapshot
<1>2. "shapes" \notin DOMAIN NoSnapshot
  BY DEF NoSnapshot
<1> QED BY <1>1, <1>2

LEMMA SaveFields ==
  ASSUME TypeOK, NEW k \in DOMAIN toServer, toServer[k].type = "save"
  PROVE  /\ toServer[k].snapshot \in Snapshot
         /\ toServer[k].snapshot.shapes \in Copies
         /\ toServer[k].snapshot.dels \in Entries
<1>1. toServer[k] \in Outgoing
  BY DEF TypeOK
<1> QED BY <1>1 DEF Outgoing, Snapshot

LEMMA SaveIs ==
  ASSUME NEW s PROVE Save(s).type = "save" /\ Save(s).snapshot = s /\ Save(s) # Join
  BY DEF Save, Join

\* What flushQueuedSnapshot does to the newest snapshot: sent last, or queued.
LEMMA FlushKeepsNewest ==
  ASSUME TypeOK, NEW s \in Snapshot, NEW used, NEW in, NEW inBurst, NEW n,
         Flush(s, used, in, inBurst),
         \A k \in DOMAIN toServer : RankedSave(toServer[k], s.shapes, n),
         Ranked(s.shapes, s.dels, s.shapes, n)
  PROVE  /\ \A k \in DOMAIN toServer' : RankedSave(toServer'[k], s.shapes, n)
         /\ queued' # NoSnapshot => queued' = s
         /\ queued' = NoSnapshot => /\ toServer' # <<>>
                                    /\ toServer'[Len(toServer')].snapshot = s
<1>1. toServer \in Seq(Outgoing) /\ s # NoSnapshot
  BY SnapshotIsNot DEF TypeOK
<1>2. CASE toServer' = Append(toServer, Save(s)) /\ queued' = NoSnapshot
  <2>1. Save(s) \in Outgoing
    BY SaveType
  <2>2. /\ Len(toServer') = Len(toServer) + 1
        /\ DOMAIN toServer' = 1..Len(toServer) + 1
        /\ DOMAIN toServer = 1..Len(toServer)
        /\ \A k \in 1..Len(toServer) : toServer'[k] = toServer[k]
        /\ toServer'[Len(toServer) + 1] = Save(s)
    BY <1>1, <1>2, <2>1
  <2>3. RankedSave(Save(s), s.shapes, n)
    BY SaveIs DEF RankedSave
  <2>4. \A k \in DOMAIN toServer' : RankedSave(toServer'[k], s.shapes, n)
    <3> TAKE k \in DOMAIN toServer'
    <3>1. k \in 1..Len(toServer) \/ k = Len(toServer) + 1
      BY <1>1, <2>2
    <3> QED BY <2>2, <2>3, <3>1
  <2>5. toServer' # <<>> /\ toServer'[Len(toServer')].snapshot = s
    <3>1. Len(toServer') # 0
      BY <1>1, <2>2
    <3> QED BY <2>2, <3>1, SaveIs
  <2> QED BY <1>2, <2>4, <2>5
<1>3. CASE queued' = s /\ toServer' = toServer
  BY <1>1, <1>3
<1> QED BY <1>1, <1>2, <1>3 DEF Flush

LEMMA WriteInvStays ==
  ASSUME WriteInv, Quiet' => Quiet,
         UNCHANGED <<view, prev, queued, pending, clock, joined, sock, toServer,
                     toClient, room, roomTombs, admitted>>
  PROVE  WriteInv'
<1> SUFFICES ASSUME Quiet' PROVE (Waiting \/ Unread \/ Following \/ Gone)'
  BY DEF WriteInv
<1>1. Waiting \/ Unread \/ Following \/ Gone
  BY DEF WriteInv
<1>2. Waiting => Waiting'
  BY DEF Waiting
<1>3. Unread => Unread'
  BY DEF Unread, SameContent, Has
<1>4. Following => Following'
  <2>1. LastIsNewest => LastIsNewest'
    BY DEF LastIsNewest, Has
  <2> QED BY <2>1 DEF Following, SameContent, Has
<1>5. Gone => Gone'
  BY DEF Gone
<1> QED BY <1>1, <1>2, <1>3, <1>4, <1>5

\* What a page that follows the server keeps of an edit.
LEMMA SendFollows ==
  ASSUME TypeOK, Following, joined, NEW shapes \in Copies, NEW soon,
         SendCanvasSnapshot(shapes, soon)
  PROVE  Following'
<1> DEFINE s == Reconciled(shapes)
           n == ClockAfter(shapes)
<1>1. /\ view' = shapes /\ prev' = s.shapes /\ clock' = n
      /\ Flush(s, inFlight, joined, burst \/ soon)
      /\ UNCHANGED <<pending, joined, sock, toClient, room, roomTombs, admitted>>
  BY DEF SendCanvasSnapshot, serverVars
<1>2. /\ s \in Snapshot /\ n \in Nat /\ clock <= n
      /\ Below(s.shapes, n) /\ SameContent(shapes, s.shapes)
      /\ Ranked(s.shapes, s.dels, s.shapes, n)
      /\ \A old \in Copies, gone \in Entries :
           Ranked(old, gone, prev, clock) => Ranked(old, gone, s.shapes, n)
  BY ReconciledRanks DEF Following
<1> HIDE DEF s, n
<1>3. \A k \in DOMAIN toServer : RankedSave(toServer[k], s.shapes, n)
  <2> TAKE k \in DOMAIN toServer
  <2>1. toServer[k].type = "save"
        /\ Ranked(toServer[k].snapshot.shapes, toServer[k].snapshot.dels, prev, clock)
    BY DEF Following, RankedSave
  <2> QED BY <1>2, <2>1, SaveFields DEF RankedSave
<1>4. /\ \A k \in DOMAIN toServer' : RankedSave(toServer'[k], s.shapes, n)
      /\ queued' # NoSnapshot => queued' = s
      /\ queued' = NoSnapshot => /\ toServer' # <<>>
                                 /\ toServer'[Len(toServer')].snapshot = s
  BY <1>1, <1>2, <1>3, FlushKeepsNewest
<1>5. Ranked(room, roomTombs, s.shapes, n)
  BY <1>2 DEF Following, TypeOK
<1>6. LastIsNewest'
  BY <1>1, <1>4 DEF LastIsNewest
<1>7. sock = "open"
  BY DEF Following
<1>8. SameContent(view, prev)'
  BY <1>1, <1>2 DEF SameContent, Has
<1>9. \A k \in DOMAIN toServer' : RankedSave(toServer'[k], prev', clock')
  BY <1>1, <1>4
<1>10. Ranked(room', roomTombs', prev', clock') /\ Below(prev', clock')
  BY <1>1, <1>2, <1>5
<1>11. queued' # NoSnapshot => Ranked(queued'.shapes, queued'.dels, prev', clock')
  BY <1>1, <1>2, <1>4
<1>12. admitted /\ pending = NoSnapshot /\ \A k \in DOMAIN toClient : toClient[k].type = "ack"
  BY DEF Following
<1> QED BY <1>1, <1>6, <1>7, <1>8, <1>9, <1>10, <1>11, <1>12 DEF Following

LEMMA BrowserStepsKeep ==
  ASSUME TypeOK, WriteInv,
         \/ \E i \in Ids, soon \in BOOLEAN : Write(i, soon) \/ Remove(i, soon)
         \/ Tick \/ ApplyRemote \/ Reload
  PROVE  WriteInv'
<1>0. /\ view \in Copies /\ \A i \in Ids : view[i] \in MaybeCopy
      /\ NoCopy \in MaybeCopy /\ edits \in Nat /\ mishaps \in Nat
      /\ joined \in BOOLEAN /\ early \in BOOLEAN
  BY CopiesAre, ClientAssumption DEF TypeOK, MaybeCopy
<1>1. ASSUME CanEdit, NEW shapes \in Copies, NEW soon, SendCanvasSnapshot(shapes, soon)
      PROVE  WriteInv'
  <2> SUFFICES ASSUME Quiet' PROVE Following'
    BY DEF WriteInv
  <2>1. /\ early' = (early \/ ~joined) /\ sock \in {"connecting", "open"}
    BY <1>1 DEF CanEdit
  <2>2. UNCHANGED <<remotes, mishaps>>
    BY <1>1 DEF SendCanvasSnapshot
  <2>3. Quiet /\ joined
    BY <1>0, <2>1, <2>2 DEF Quiet
  <2>4. Following
    BY <2>1, <2>3 DEF WriteInv, Waiting, Unread, Gone
  <2> QED BY <1>1, <2>3, <2>4, SendFollows
<1>2. ASSUME NEW i \in Ids, NEW soon \in BOOLEAN, Write(i, soon)
      PROVE  WriteInv'
  <2> DEFINE meta == IF Has(view, i) THEN view[i].meta ELSE Unstamped
             copy == [content |-> [by |-> Me, nth |-> edits + 1], meta |-> meta]
  <2>1. meta \in Meta
    BY <1>0, CopyFacts, ClientAssumption DEF Has, Unstamped, Meta
  <2>2. copy \in MaybeCopy
    BY <1>0, <2>1, ClientAssumption DEF MaybeCopy, Copy, Content
  <2>3. [view EXCEPT ![i] = copy] \in Copies
    BY <1>0, <2>2, CopiesUpdated
  <2>4. CanEdit /\ SendCanvasSnapshot([view EXCEPT ![i] = copy], soon)
    BY <1>2 DEF Write
  <2> HIDE DEF copy
  <2> QED BY <1>1, <2>3, <2>4
<1>3. ASSUME NEW i \in Ids, NEW soon \in BOOLEAN, Remove(i, soon)
      PROVE  WriteInv'
  <2>1. [view EXCEPT ![i] = NoCopy] \in Copies
    BY <1>0, CopiesUpdated
  <2>2. CanEdit /\ SendCanvasSnapshot([view EXCEPT ![i] = NoCopy], soon)
    BY <1>3 DEF Remove
  <2> QED BY <1>1, <2>1, <2>2
<1>4. ASSUME Tick PROVE WriteInv'
  <2>1. /\ Flush(queued, inFlight, joined, burst)
        /\ UNCHANGED <<view, prev, pending, clock, joined, sock, toClient, room,
                       roomTombs, admitted, remotes, mishaps, early>>
    BY <1>4 DEF Tick, serverVars, countVars
  <2>2. Quiet' = Quiet
    BY <2>1 DEF Quiet
  <2>3. CASE queued = NoSnapshot \/ sock # "open"
    <3>1. UNCHANGED <<queued, toServer>>
      BY <2>1, <2>3 DEF Flush, LineIsOpen
    <3> QED BY <2>1, <2>2, <3>1, WriteInvStays
  <2>4. CASE queued # NoSnapshot /\ sock = "open"
    <3> SUFFICES ASSUME Quiet PROVE Following'
      BY <2>2 DEF WriteInv
    <3>1. Following
      BY <2>4 DEF WriteInv, Waiting, Unread, Gone
    <3>2. /\ queued \in Snapshot /\ queued.shapes = prev
          /\ Ranked(queued.shapes, queued.dels, prev, clock)
          /\ \A k \in DOMAIN toServer : RankedSave(toServer[k], prev, clock)
      BY <2>4, <3>1 DEF Following, LastIsNewest, TypeOK
    <3>3. /\ \A k \in DOMAIN toServer' : RankedSave(toServer'[k], prev, clock)
          /\ queued' # NoSnapshot => queued' = queued
          /\ queued' = NoSnapshot => /\ toServer' # <<>>
                                     /\ toServer'[Len(toServer')].snapshot = queued
      BY <2>1, <3>2, FlushKeepsNewest
    <3>4. LastIsNewest'
      BY <2>1, <3>2, <3>3 DEF LastIsNewest
    <3>5. SameContent(view, prev)'
      BY <2>1, <3>1 DEF Following, SameContent, Has
    <3> QED BY <2>1, <2>4, <3>1, <3>2, <3>3, <3>4, <3>5 DEF Following
  <2> QED BY <2>3, <2>4
<1>5. ASSUME ApplyRemote PROVE WriteInv'
  <2>1. /\ pending # NoSnapshot
        /\ UNCHANGED <<sock, toServer, admitted, remotes, mishaps, early>>
    BY <1>5 DEF ApplyRemote, serverVars, countVars
  <2>2. Quiet => Gone
    BY <2>1 DEF WriteInv, Waiting, Unread, Following
  <2> QED BY <2>1, <2>2 DEF WriteInv, Gone, Quiet
<1>6. ASSUME Reload PROVE WriteInv'
  <2>1. mishaps' = mishaps + 1
    BY <1>6 DEF Reload
  <2>2. ~Quiet'
    BY <1>0, <2>1 DEF Quiet
  <2> QED BY <2>2 DEF WriteInv
<1> QED BY <1>2, <1>3, <1>4, <1>5, <1>6

\* The only answers an undisturbed page hears are the shapes it waits for and,
\* afterwards, acknowledgements.
LEMMA QuietAnswers ==
  ASSUME TypeOK, WriteInv, Quiet, NEW type, Receive(type)
  PROVE  \/ /\ Waiting /\ type = "joined" /\ admitted
            /\ toServer = <<>> /\ toClient = <<RoomJoined(Loaded)>>
         \/ Following /\ type = "ack"
<1>1. sock = "open" /\ toClient # <<>> /\ Head(toClient).type = type
  BY DEF Receive
<1>2. CASE Waiting
  <2>1. toServer = <<>> /\ toClient = <<RoomJoined(Loaded)>> /\ admitted
    BY <1>1, <1>2 DEF Waiting
  <2>2. Head(toClient) = RoomJoined(Loaded)
    BY <2>1
  <2> QED BY <1>1, <1>2, <2>1, <2>2 DEF RoomJoined
<1>3. CASE Following
  <2>1. 1 \in DOMAIN toClient /\ Head(toClient) = toClient[1]
    BY <1>1 DEF TypeOK
  <2> QED BY <1>1, <1>3, <2>1 DEF Following
<1> QED BY <1>1, <1>2, <1>3 DEF WriteInv, Unread, Gone

LEMMA ReceiveStepsKeep ==
  ASSUME TypeOK, WriteInv,
         ReceiveJoined \/ ReceiveBroadcast \/ ReceiveAck \/ ReceiveError
  PROVE  WriteInv'
<1> SUFFICES ASSUME Quiet' PROVE WriteInv'
  BY DEF WriteInv
<1>0. ASSUME NEW type, Receive(type) PROVE Quiet
  BY <1>0 DEF Receive, countVars, Quiet
<1>1. CASE ReceiveJoined
  <2> DEFINE seen == [i \in Ids |-> IF AtMost(Loaded[i].meta, Loaded[i].meta)
                                    THEN Loaded[i] ELSE Loaded[i]]
  <2>1. Receive("joined")
    BY <1>1 DEF ReceiveJoined
  <2>2. /\ Waiting /\ admitted /\ toServer = <<>> /\ toClient = <<RoomJoined(Loaded)>>
        /\ sock = "open"
    BY <1>0, <2>1, QuietAnswers DEF Receive
  <2>3. Head(toClient).shapes = Loaded
    BY <2>2 DEF RoomJoined
  <2>4. /\ queued = NoSnapshot /\ room = Loaded /\ roomTombs = NoEntries
        /\ Loaded \in Copies /\ clock \in Nat
    BY <2>2, ClientAssumption DEF Waiting, TypeOK
  <2>5. /\ view' = Loaded /\ prev' = Loaded /\ clock' \in Observed(seen)
        /\ Flush(queued, 0, TRUE, burst) /\ pending' = NoSnapshot /\ joined' = TRUE
    BY <1>1, <2>3, <2>4 DEF ReceiveJoined
  <2>6. /\ toClient' = <<>> /\ UNCHANGED <<sock, room, roomTombs, admitted>>
    BY <2>1, <2>2 DEF Receive, serverVars
  <2>7. queued' = NoSnapshot /\ toServer' = <<>>
    BY <2>2, <2>4, <2>5 DEF Flush
  <2>8. clock' \in Nat /\ Below(Loaded, clock')
    <3>1. seen = Loaded
      BY <2>4 DEF Copies
    <3> QED BY <2>4, <2>5, <3>1, ObservedFacts
  <2>9. Ranked(Loaded, NoEntries, Loaded, clock')
    <3> SUFFICES ASSUME NEW i \in Ids
                 PROVE  /\ Loaded[i].meta.clock <= clock' /\ NoEntries[i].clock <= clock'
                        /\ Has(Loaded, i) => /\ AtMost(Loaded[i].meta, Loaded[i].meta)
                                             /\ ~AtMost(Loaded[i].meta, NoEntries[i])
      BY DEF Ranked
    <3>1. Loaded[i] \in MaybeCopy /\ NoEntries[i] = Absent
      BY <2>4, CopiesAre DEF NoEntries
    <3>2. Loaded[i].meta.clock <= clock' /\ NoEntries[i].clock <= clock'
      BY <2>8, <3>1, AbsentIn DEF Below
    <3>3. Loaded[i].meta \in MaybeMeta /\ (Has(Loaded, i) => Loaded[i].meta # Absent)
      BY <3>1, CopyFacts, MetaFields DEF Has, Meta, Absent
    <3> QED BY <3>1, <3>2, <3>3, AtMostReflexive, AtMostAbsent
  <2>10. Following'
    <3>1. SameContent(view, prev)'
      BY <2>5 DEF SameContent, Has
    <3>2. LastIsNewest'
      BY <2>4, <2>5, <2>6, <2>7 DEF LastIsNewest
    <3>3. Ranked(room', roomTombs', prev', clock') /\ Below(prev', clock')
      BY <2>4, <2>5, <2>6, <2>8, <2>9
    <3>4. DOMAIN toServer' = {} /\ DOMAIN toClient' = {}
      BY <2>6, <2>7
    <3> QED BY <2>2, <2>5, <2>6, <2>7, <3>1, <3>2, <3>3, <3>4 DEF Following
  <2> QED BY <2>10 DEF WriteInv
<1>2. CASE ReceiveBroadcast
  <2>1. Receive("broadcast")
    BY <1>2 DEF ReceiveBroadcast
  <2> QED BY <1>0, <2>1, QuietAnswers
<1>3. CASE ReceiveAck
  <2>1. Receive("ack")
    BY <1>3 DEF ReceiveAck
  <2>2. Following /\ sock = "open" /\ toClient # <<>>
    BY <1>0, <2>1, QuietAnswers DEF Receive
  <2>3. /\ toClient' = Tail(toClient)
        /\ UNCHANGED <<view, prev, queued, pending, clock, joined, sock, toServer,
                       room, roomTombs, admitted>>
    BY <1>3, <2>1 DEF ReceiveAck, Receive, serverVars
  <2>4. \A k \in DOMAIN toClient' : toClient'[k].type = "ack"
    <3>1. toClient \in Seq(Incoming)
      BY DEF TypeOK
    <3>2. \A k \in DOMAIN toClient' : k + 1 \in DOMAIN toClient
                                      /\ toClient'[k] = toClient[k + 1]
      BY <2>2, <2>3, <3>1
    <3> QED BY <2>2, <3>2 DEF Following
  <2>5. LastIsNewest' /\ SameContent(view, prev)'
    BY <2>2, <2>3 DEF LastIsNewest, Following, SameContent, Has
  <2>6. Following'
    BY <2>2, <2>3, <2>4, <2>5 DEF Following
  <2> QED BY <2>6 DEF WriteInv
<1>4. CASE ReceiveError
  <2>1. Receive("error")
    BY <1>4 DEF ReceiveError
  <2> QED BY <1>0, <2>1, QuietAnswers
<1> QED BY <1>1, <1>2, <1>3, <1>4

LEMMA TimeAndConnectionKeep ==
  ASSUME TypeOK, WriteInv,
         \/ IntervalOver \/ GraceOver \/ BurstOver \/ BackoffOver
         \/ Open \/ Close \/ Leave
  PROVE  WriteInv'
<1>1. CASE IntervalOver \/ GraceOver \/ BurstOver \/ BackoffOver
  <2>1. /\ UNCHANGED <<view, prev, queued, pending, clock, joined, sock, toServer,
                       toClient>>
        /\ UNCHANGED serverVars /\ UNCHANGED countVars
    BY <1>1 DEF IntervalOver, GraceOver, BurstOver, BackoffOver
  <2> QED BY <2>1, WriteInvStays DEF serverVars, countVars, Quiet
<1>2. CASE Open
  <2> SUFFICES ASSUME Quiet' PROVE Waiting'
    BY DEF WriteInv
  <2>1. /\ sock = "connecting" /\ sock' = "open" /\ toServer' = Append(toServer, Join)
        /\ UNCHANGED <<view, prev, queued, pending, joined, toClient, room,
                       roomTombs, admitted>>
        /\ Quiet
    BY <1>2 DEF Open, browserVars, serverVars, countVars, Quiet
  <2>2. Waiting
    BY <2>1 DEF WriteInv, Unread, Following, Gone
  <2>3. toServer = <<>> /\ toClient = <<>> /\ ~admitted
    BY <2>1, <2>2 DEF Waiting
  <2>4. toServer' = <<Join>>
    BY <2>1, <2>3
  <2> QED BY <2>1, <2>2, <2>3, <2>4 DEF Waiting
<1>3. CASE Close
  BY <1>3 DEF Close, WriteInv, Gone
<1>4. CASE Leave
  <2> SUFFICES ASSUME Quiet' PROVE (Unread \/ Following \/ Gone)'
    BY DEF WriteInv
  <2>1. /\ sock # "left" /\ sock' = "left" /\ pending' = NoSnapshot
        /\ queued' = NoSnapshot /\ joined' = FALSE /\ toClient' = <<>>
        /\ UNCHANGED <<view, prev, room, roomTombs, admitted>>
        /\ Quiet
    BY <1>4 DEF Leave, serverVars, countVars, Quiet
  <2>2. CASE sock # "open"
    <3>1. toServer' = toServer /\ (Waiting \/ Gone)
      BY <1>4, <2>1, <2>2 DEF Leave, WriteInv, Unread, Following
    <3>2. toServer = <<>> /\ ~admitted
      BY <2>2, <3>1 DEF Waiting, Gone
    <3> QED BY <2>1, <3>1, <3>2 DEF Gone
  <2>3. ASSUME sock = "open"
        PROVE  /\ toServer' = Append(toServer, Save(Reconciled(view)))
               /\ clock' = ClockAfter(view)
               /\ Waiting \/ Following
    BY <1>4, <2>1, <2>3 DEF Leave, WriteInv, Unread, Gone
  <2>4. CASE sock = "open" /\ Waiting
    <3>1. /\ Reconciled(view) \in Snapshot /\ Reconciled(view).dels = NoEntries
          /\ SameContent(Reconciled(view).shapes, view)
      BY <2>4, ReconciledFirst DEF Waiting
    <3>2. \/ toServer' = <<Join, Save(Reconciled(view))>> /\ ~admitted
          \/ toServer' = <<Save(Reconciled(view))>> /\ admitted
      BY <2>3, <2>4 DEF Waiting
    <3>3. SameContent(room, view)' /\ roomTombs' = NoEntries
      BY <2>1, <2>4 DEF Waiting, SameContent, Has
    <3>4. \A s \in Copies : SameContent(s, view) => SameContent(s, view')
      BY <2>1 DEF SameContent, Has
    <3>5. SameContent(Reconciled(view).shapes, view')
      BY <3>1, <3>4 DEF Snapshot
    <3> DEFINE m == Save(Reconciled(view))
    <3>6. /\ m.type = "save" /\ m.snapshot.dels = NoEntries
          /\ SameContent(m.snapshot.shapes, view')
      BY <3>1, <3>5, SaveIs
    <3> HIDE DEF m
    <3>7. CASE toServer' = <<Join, m>> /\ ~admitted
      <4>1. /\ Len(toServer') <= 2 /\ DOMAIN toServer' = 1..2
            /\ toServer'[1] = Join /\ toServer'[2] = m
        BY <3>7
      <4>2. ~admitted'
        BY <2>1, <3>7
      <4> QED BY <2>1, <3>3, <3>6, <4>1, <4>2 DEF Unread
    <3>8. CASE toServer' = <<m>> /\ admitted
      <4>1. /\ Len(toServer') <= 2 /\ DOMAIN toServer' = {1} /\ toServer'[1] = m
        BY <3>8
      <4>2. admitted'
        BY <2>1, <3>8
      <4> QED BY <2>1, <3>3, <3>6, <4>1, <4>2 DEF Unread
    <3> QED BY <3>2, <3>7, <3>8 DEF m
  <2>5. CASE sock = "open" /\ Following
    <3> DEFINE m == Save(Reconciled(view))
    <3>1. /\ Reconciled(view).shapes = prev /\ Reconciled(view).dels = NoEntries
          /\ clock' = clock
      BY <2>3, <2>5, ReconciledSame DEF Following
    <3>2. m.type = "save" /\ m.snapshot.shapes = prev /\ m.snapshot.dels = NoEntries
      BY <3>1, SaveIs
    <3>3. Ranked(prev, NoEntries, prev, clock)
      <4> SUFFICES ASSUME NEW i \in Ids
                   PROVE  /\ prev[i].meta.clock <= clock /\ NoEntries[i].clock <= clock
                          /\ Has(prev, i) => /\ AtMost(prev[i].meta, prev[i].meta)
                                             /\ ~AtMost(prev[i].meta, NoEntries[i])
        BY DEF Ranked
      <4>1. prev[i] \in MaybeCopy /\ NoEntries[i] = Absent /\ clock \in Nat
        BY CopiesAre DEF NoEntries, TypeOK
      <4>2. prev[i].meta.clock <= clock /\ NoEntries[i].clock <= clock
        BY <2>5, <4>1, AbsentIn DEF Following, Below
      <4>3. prev[i].meta \in MaybeMeta /\ (Has(prev, i) => prev[i].meta # Absent)
        BY <4>1, CopyFacts, MetaFields DEF Has, Meta, Absent
      <4> QED BY <4>1, <4>2, <4>3, AtMostReflexive, AtMostAbsent
    <3>4. m \in Outgoing /\ toServer' = Append(toServer, m)
      <4>1. Reconciled(view) \in Snapshot
        BY ReconciledFacts DEF TypeOK
      <4> QED BY <2>3, <2>5, <4>1, SaveType
    <3> HIDE DEF m
    <3>5. /\ DOMAIN toServer' = 1..Len(toServer) + 1 /\ Len(toServer') = Len(toServer) + 1
          /\ \A k \in 1..Len(toServer) : k \in DOMAIN toServer /\ toServer'[k] = toServer[k]
          /\ toServer'[Len(toServer) + 1] = m /\ Len(toServer) \in Nat
      BY <3>4 DEF TypeOK
    <3>6. \A k \in DOMAIN toServer' : RankedSave(toServer'[k], prev, clock)
      <4> TAKE k \in DOMAIN toServer'
      <4>1. k \in 1..Len(toServer) \/ k = Len(toServer) + 1
        BY <3>5
      <4>2. RankedSave(m, prev, clock)
        BY <3>2, <3>3 DEF RankedSave
      <4> QED BY <2>5, <3>5, <4>1, <4>2 DEF Following
    <3>7. LastIsNewest'
      <4>1. toServer' # <<>>
        BY <3>5
      <4> QED BY <2>1, <3>2, <3>5, <4>1 DEF LastIsNewest
    <3>8. SameContent(view, prev)'
      BY <2>1, <2>5 DEF Following, SameContent, Has
    <3>9. \A k \in DOMAIN toClient' : toClient'[k].type = "ack"
      BY <2>1
    <3> QED BY <2>1, <2>5, <3>1, <3>6, <3>7, <3>8, <3>9 DEF Following
  <2> QED BY <2>2, <2>3, <2>4, <2>5
<1> QED BY <1>1, <1>2, <1>3, <1>4

LEMMA ServerStepsKeep ==
  ASSUME TypeOK, WriteInv,
         \/ AdmitJoin \/ RefuseJoin \/ CommitSnapshot
         \/ \E reason \in Reasons : RejectSnapshot(reason)
         \/ \E i \in Ids, gone, seen \in BOOLEAN : OtherCommits(i, gone, seen)
  PROVE  WriteInv'
<1> SUFFICES ASSUME Quiet' PROVE WriteInv'
  BY DEF WriteInv
<1>0. toServer \in Seq(Outgoing) /\ mishaps \in Nat /\ remotes \in Nat
  BY ClientAssumption DEF TypeOK
<1>a. ASSUME NEW type, Serve(type)
      PROVE  /\ toServer # <<>> /\ toServer[1].type = type /\ toServer' = Tail(toServer)
             /\ UNCHANGED <<view, prev, queued, pending, clock, joined, sock, remotes,
                            early>>
             /\ DOMAIN toServer' = 1..Len(toServer) - 1 /\ Len(toServer) \in Nat \ {0}
             /\ Len(toServer') = Len(toServer) - 1
             /\ \A k \in DOMAIN toServer' : /\ k + 1 \in DOMAIN toServer
                                            /\ toServer'[k] = toServer[k + 1]
             /\ 1 \in DOMAIN toServer
  <2>1. toServer # <<>> /\ toServer' = Tail(toServer) /\ Head(toServer).type = type
    BY <1>a DEF Serve
  <2>2. UNCHANGED <<view, prev, queued, pending, clock, joined, sock, remotes, early>>
    BY <1>a DEF Serve, browserVars
  <2>3. /\ DOMAIN toServer' = 1..Len(toServer) - 1 /\ Len(toServer) \in Nat \ {0}
        /\ Len(toServer') = Len(toServer) - 1
        /\ \A k \in DOMAIN toServer' : /\ k + 1 \in DOMAIN toServer
                                       /\ toServer'[k] = toServer[k + 1]
        /\ 1 \in DOMAIN toServer /\ Head(toServer) = toServer[1]
    BY <1>0, <2>1
  <2> QED BY <2>1, <2>2, <2>3
<1>b. ASSUME Waiting, toServer # <<>>, NEW type, Serve(type)
      PROVE  type = "join" /\ sock = "open" /\ toClient = <<>> /\ toServer' = <<>>
  <2>1. sock = "open" /\ toServer = <<Join>> /\ toClient = <<>>
    BY <1>b DEF Waiting
  <2> QED BY <1>a, <1>b, <2>1 DEF Join
<1>1. CASE AdmitJoin
  <2>1. /\ Serve("join") /\ admitted' = TRUE /\ Answer(<<RoomJoined(room)>>)
        /\ UNCHANGED <<room, roomTombs, mishaps>>
    BY <1>1 DEF AdmitJoin
  <2>2. Quiet
    BY <1>a, <2>1 DEF Quiet
  <2>3. CASE Waiting
    <3>1. /\ sock = "open" /\ toClient = <<>> /\ toServer' = <<>> /\ room = Loaded
      BY <1>a, <1>b, <2>1, <2>3 DEF Waiting
    <3>2. toClient' = <<RoomJoined(Loaded)>>
      BY <2>1, <3>1 DEF Answer
    <3>3. Waiting'
      BY <1>a, <2>1, <2>3, <3>1, <3>2 DEF Waiting
    <3> QED BY <3>3 DEF WriteInv
  <2>4. CASE Unread
    <3>1. Len(toServer) <= 2
          /\ \A k \in DOMAIN toServer :
               IF k = 1 /\ ~admitted THEN toServer[k] = Join
               ELSE /\ toServer[k].type = "save"
                    /\ toServer[k].snapshot.dels = NoEntries
                    /\ SameContent(toServer[k].snapshot.shapes, view)
      BY <2>4 DEF Unread
    <3>2. \A k \in DOMAIN toServer' : k + 1 # 1
      BY <1>a, <2>1
    <3>3. \A k \in DOMAIN toServer' :
             /\ toServer'[k].type = "save" /\ toServer'[k].snapshot.dels = NoEntries
             /\ SameContent(toServer'[k].snapshot.shapes, view)
      BY <1>a, <2>1, <3>1, <3>2
    <3>4. Len(toServer') <= 2
      BY <1>a, <2>1, <3>1
    <3>5. SameContent(room, view)' /\ roomTombs' = NoEntries
      BY <1>a, <2>1, <2>4 DEF Unread, SameContent, Has
    <3>6. view' = view
      BY <1>a, <2>1
    <3>7. Unread'
      BY <1>a, <2>1, <2>4, <3>3, <3>4, <3>5, <3>6 DEF Unread
    <3> QED BY <3>7 DEF WriteInv
  <2>5. ~Following
    BY <1>a, <2>1 DEF Following, RankedSave
  <2>6. ~Gone
    BY <1>a, <2>1 DEF Gone
  <2> QED BY <2>2, <2>3, <2>4, <2>5, <2>6 DEF WriteInv
<1>2. CASE RefuseJoin
  <2>1. mishaps' = mishaps + 1
    BY <1>2 DEF RefuseJoin
  <2> QED BY <1>0, <2>1 DEF Quiet
<1>3. CASE CommitSnapshot
  <2> DEFINE sent == toServer[1].snapshot
  <2>1. /\ Serve("save") /\ admitted /\ admitted' = admitted /\ mishaps' = mishaps
        /\ Answer(<<Ack>>) /\ MergeIntoRoom(Head(toServer).snapshot)
    BY <1>3 DEF CommitSnapshot
  <2>2. Head(toServer) = toServer[1]
    BY <1>0, <1>a, <2>1
  <2>3. sent \in Snapshot /\ MergeIntoRoom(sent)
    BY <1>a, <2>1, <2>2, SaveFields
  <2> HIDE DEF sent
  <2>4. Quiet
    BY <1>a, <2>1 DEF Quiet
  <2>5. ~Waiting /\ ~Gone
    BY <1>a, <1>b, <2>1 DEF Gone
  <2>6. CASE Unread
    <3>1. Len(toServer) <= 2
          /\ \A k \in DOMAIN toServer :
               /\ toServer[k].type = "save"
               /\ toServer[k].snapshot.dels = NoEntries
               /\ SameContent(toServer[k].snapshot.shapes, view)
      BY <2>1, <2>6 DEF Unread
    <3>2. sent.dels = NoEntries /\ SameContent(sent.shapes, view)
      BY <1>a, <2>1, <3>1 DEF sent
    <3>3. roomTombs = NoEntries /\ SameContent(room, view)
      BY <2>6 DEF Unread
    <3>4. roomTombs' = NoEntries
      <4>1. \A i \in Ids : roomTombs'[i] = Absent
        BY <2>3, <3>2, <3>3, RoomTombsFrom DEF NoEntries
      <4>2. roomTombs' = [i \in Ids |-> roomTombs'[i]]
        BY <2>3 DEF MergeIntoRoom, MergedTombs
      <4> QED BY <4>1, <4>2 DEF NoEntries
    <3>5. SameContent(room', view)
      <4> SUFFICES ASSUME NEW i \in Ids
                   PROVE  /\ Has(room', i) <=> Has(view, i)
                          /\ room'[i].content = view[i].content
        BY DEF SameContent
      <4>1. /\ room[i] \in MaybeCopy /\ sent.shapes[i] \in MaybeCopy
            /\ NoEntries[i] = Absent /\ Absent \in MaybeMeta
        BY <2>3, CopiesAre, AbsentIn DEF TypeOK, Snapshot, NoEntries
      <4>2. room'[i] = MergedCopy(room[i], Absent, Absent, sent.shapes[i])
        BY <2>3, <3>2, <3>3, <4>1, RoomAfter
      <4>3. room'[i] \in {room[i], sent.shapes[i], NoCopy}
        BY <4>1, <4>2, MergedCopyFacts
      <4>4. room[i] # NoCopy => room'[i] \in {room[i], sent.shapes[i]}
        BY <4>1, <4>2, MergedCopyFacts
      <4>5. /\ Has(room, i) <=> Has(view, i)
            /\ Has(sent.shapes, i) <=> Has(view, i)
            /\ room[i].content = view[i].content
            /\ sent.shapes[i].content = view[i].content
        BY <3>2, <3>3 DEF SameContent
      <4> QED BY <4>3, <4>4, <4>5 DEF Has
    <3>6. SameContent(room, view)'
      <4>1. view' = view
        BY <1>a, <2>1
      <4> QED BY <3>5, <4>1 DEF SameContent, Has
    <3>7. \A k \in DOMAIN toServer' :
             /\ toServer'[k].type = "save" /\ toServer'[k].snapshot.dels = NoEntries
             /\ SameContent(toServer'[k].snapshot.shapes, view)
      BY <1>a, <2>1, <3>1
    <3>8. Len(toServer') <= 2
      BY <1>a, <2>1, <3>1
    <3>9. view' = view
      BY <1>a, <2>1
    <3>10. Unread'
      BY <1>a, <2>1, <2>6, <3>4, <3>6, <3>7, <3>8, <3>9 DEF Unread
    <3> QED BY <3>10 DEF WriteInv
  <2>7. CASE Following
    <3>1. /\ \A k \in DOMAIN toServer : RankedSave(toServer[k], prev, clock)
          /\ Ranked(room, roomTombs, prev, clock)
          /\ prev \in Copies /\ clock \in Nat
      BY <2>7 DEF Following, TypeOK
    <3>2. Ranked(sent.shapes, sent.dels, prev, clock)
      BY <1>a, <2>1, <3>1 DEF RankedSave, sent
    <3>3. Ranked(room', roomTombs', prev, clock)
      BY <2>3, <3>1, <3>2, RoomStaysRanked
    <3>4. \A k \in DOMAIN toServer' : RankedSave(toServer'[k], prev, clock)
      BY <1>a, <2>1, <3>1
    <3>5. \A k \in DOMAIN toClient' : toClient'[k].type = "ack"
      <4>1. \A k \in DOMAIN toClient : toClient[k].type = "ack"
        BY <2>7 DEF Following
      <4>2. CASE sock # "open"
        BY <2>1, <4>1, <4>2 DEF Answer
      <4>3. CASE sock = "open"
        <5>1. toClient' = toClient \o <<Ack>> /\ toClient \in Seq(Incoming)
          BY <2>1, <4>3 DEF Answer, TypeOK
        <5>2. Ack \in Incoming /\ Ack.type = "ack"
          BY DEF Ack, Incoming
        <5>3. toClient' = Append(toClient, Ack)
          BY <5>1, <5>2
        <5> HIDE DEF Ack
        <5>4. /\ DOMAIN toClient' = 1..Len(toClient) + 1 /\ Len(toClient) \in Nat
              /\ \A k \in 1..Len(toClient) : k \in DOMAIN toClient /\ toClient'[k] = toClient[k]
              /\ toClient'[Len(toClient) + 1] = Ack
          BY <5>1, <5>2, <5>3
        <5> TAKE k \in DOMAIN toClient'
        <5>5. k \in 1..Len(toClient) \/ k = Len(toClient) + 1
          BY <5>4
        <5> QED BY <4>1, <5>2, <5>4, <5>5
      <4> QED BY <4>2, <4>3
    <3>6. LastIsNewest'
      <4>1. queued' = queued /\ prev' = prev
        BY <1>a, <2>1
      <4>2. CASE queued # NoSnapshot
        BY <2>7, <4>1, <4>2 DEF Following, LastIsNewest
      <4>3. CASE queued = NoSnapshot
        <5>1. toServer[Len(toServer)].snapshot.shapes = prev
          BY <1>a, <2>1, <2>7, <4>3 DEF Following, LastIsNewest
        <5>2. CASE Len(toServer) = 1
          <6>1. sent.shapes = prev
            BY <5>1, <5>2 DEF sent
          <6>2. \A i \in Ids : Has(prev, i) => room'[i] = prev[i]
            BY <2>3, <3>1, <3>2, <6>1, NewestIsTaken
          <6>3. toServer' = <<>>
            BY <1>0, <1>a, <2>1, <5>2
          <6> QED BY <4>1, <4>3, <6>2, <6>3 DEF LastIsNewest, Has
        <5>3. CASE Len(toServer) # 1
          <6>1. Len(toServer') \in DOMAIN toServer' /\ Len(toServer') + 1 = Len(toServer)
            <7>1. /\ DOMAIN toServer' = 1..Len(toServer) - 1 /\ Len(toServer) \in Nat \ {0}
                  /\ Len(toServer') = Len(toServer) - 1
              BY <1>a, <2>1
            <7> QED BY <5>3, <7>1
          <6>2. toServer'[Len(toServer')] = toServer[Len(toServer)]
            BY <1>a, <2>1, <6>1
          <6>3. toServer' # <<>>
            BY <6>1
          <6> QED BY <4>1, <4>3, <5>1, <6>2, <6>3 DEF LastIsNewest
        <5> QED BY <5>2, <5>3
      <4> QED BY <4>2, <4>3
    <3>7. SameContent(view, prev)'
      BY <1>a, <2>1, <2>7 DEF Following, SameContent, Has
    <3>8. UNCHANGED <<view, prev, queued, pending, clock, joined, sock>>
      BY <1>a, <2>1
    <3>9. Following'
      BY <2>1, <2>7, <3>3, <3>4, <3>5, <3>6, <3>7, <3>8 DEF Following
    <3> QED BY <3>9 DEF WriteInv
  <2> QED BY <2>4, <2>5, <2>6, <2>7 DEF WriteInv
<1>4. ASSUME NEW reason \in Reasons, RejectSnapshot(reason) PROVE WriteInv'
  <2>1. /\ Serve("save")
        /\ IF admitted THEN mishaps' = mishaps + 1 ELSE mishaps' = mishaps
    BY <1>4 DEF RejectSnapshot
  <2>2. ~admitted
    BY <1>0, <2>1 DEF Quiet
  <2>3. Quiet
    BY <1>a, <2>1, <2>2 DEF Quiet
  <2>4. ~Waiting
    BY <1>a, <1>b, <2>1
  <2>5. ~Unread
    <3>1. toServer[1].type # "join"
      BY <1>a, <2>1
    <3> QED BY <1>a, <2>1, <2>2, <3>1 DEF Unread, Join
  <2>6. ~Following /\ ~Gone
    BY <1>a, <2>1, <2>2 DEF Following, Gone
  <2> QED BY <2>3, <2>4, <2>5, <2>6 DEF WriteInv
<1>5. ASSUME NEW i \in Ids, NEW gone \in BOOLEAN, NEW seen \in BOOLEAN,
             OtherCommits(i, gone, seen)
      PROVE  WriteInv'
  <2>1. remotes' = remotes + 1
    BY <1>5 DEF OtherCommits
  <2> QED BY <1>0, <2>1 DEF Quiet
<1> QED BY <1>1, <1>2, <1>3, <1>4, <1>5

LEMMA InitKeeps == Init => WriteInv
<1> HAVE Init
<1>1. Waiting
  BY DEF Init, Waiting
<1> QED BY <1>1 DEF WriteInv

LEMMA KeptFromInv == TypeOK /\ WriteInv => WritesKept
<1> SUFFICES ASSUME TypeOK, WriteInv, Undisturbed, NEW i \in Ids, view[i].content.by = Me
             PROVE  \E shapes \in {room} \cup {m.snapshot.shapes : m \in Saves}
                           \cup {s.shapes : s \in {queued} \ {NoSnapshot}} :
                      shapes[i].content = view[i].content
  BY DEF WritesKept
<1>1. Quiet /\ ~Gone
  BY DEF Undisturbed, Quiet, Gone
<1>2. CASE Waiting
  BY <1>2 DEF Waiting
<1>3. CASE Unread
  BY <1>3 DEF Unread, SameContent
<1>4. CASE Following
  <2>1. view[i].content = prev[i].content /\ (Has(view, i) => Has(prev, i))
    BY <1>4 DEF Following, SameContent
  <2>2. Has(view, i)
    BY ClientAssumption DEF Has, NoCopy
  <2>3. CASE queued # NoSnapshot
    BY <1>4, <2>1, <2>3 DEF Following, LastIsNewest
  <2>4. CASE queued = NoSnapshot /\ toServer # <<>>
    <3> DEFINE m == toServer[Len(toServer)]
    <3>1. Len(toServer) \in DOMAIN toServer
      BY <2>4 DEF TypeOK
    <3>2. m.type = "save" /\ m.snapshot.shapes = prev
      BY <1>4, <2>4, <3>1 DEF Following, LastIsNewest, RankedSave
    <3>3. m \in Saves
      BY <3>1, <3>2 DEF Saves, Join
    <3> QED BY <2>1, <3>2, <3>3
  <2>5. CASE queued = NoSnapshot /\ toServer = <<>>
    <3>1. room[i] = prev[i]
      BY <1>4, <2>1, <2>2, <2>5 DEF Following, LastIsNewest
    <3> QED BY <2>1, <3>1
  <2> QED BY <2>3, <2>4, <2>5
<1> QED BY <1>1, <1>2, <1>3, <1>4 DEF WriteInv

\* Throttling, bursts, the budget and leaving the page lose no write: what an
\* undisturbed user drew last on a shape is queued, on its way or committed.
THEOREM UndisturbedWritesAreKept == Spec => []WritesKept
<1>1. TypeOK /\ WriteInv /\ [Next]_vars => WriteInv'
  <2> SUFFICES ASSUME TypeOK, WriteInv, [Next]_vars PROVE WriteInv'
    OBVIOUS
  <2>1. CASE UNCHANGED vars
    <3>1. UNCHANGED <<browserVars, sock, toServer, toClient, serverVars, countVars>>
      BY <2>1 DEF vars
    <3> QED BY <3>1, WriteInvStays DEF browserVars, serverVars, countVars, Quiet
  <2>2. CASE Next
    BY <2>2, BrowserStepsKeep, ReceiveStepsKeep, TimeAndConnectionKeep,
       ServerStepsKeep DEF Next
  <2> QED BY <2>1, <2>2
<1> QED BY InitKeeps, TypeCorrect, KeptFromInv, <1>1, PTL DEF Spec
=============================================================================
