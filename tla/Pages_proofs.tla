---------------------------- MODULE Pages_proofs ----------------------------
(***************************************************************************)
(* What the pages are told.  Of who is in a room and in its call           *)
(* (RoomPresence), for any nodes, users, sockets and bounds: the inductive *)
(* invariant under all of it is SocketsKnown, that a socket asks to join   *)
(* once, is in the room of its own node only, and stays there while it is  *)
(* open.  And of the questions to the AI (AiJobs), for any jobs, prefetch, *)
(* polls and faults: the inductive invariant is QuestionsInv, whose        *)
(* strengthening is that a handler acknowledges its own delivery while the *)
(* connection holds (TagsOwned).  And of the editor of one page            *)
(* (CanvasEditor), for any shapes and pointers.                            *)
(***************************************************************************)
EXTENDS RoomPresence, AiJobs, CanvasEditor, SequenceTheorems, FiniteSetTheorems, TLAPS

-----------------------------------------------------------------------------
(* Messages and events. *)

LEMMA MessageFields ==
  ASSUME NEW m \in Message
  PROVE  /\ m.kind \in {"join", "presence", "voice"}
         /\ m.kind = "presence" => m.selection \in 0..MaxSelection
         /\ m.kind = "voice" => m.on \in BOOLEAN
<1>1. CASE m = JoinMessage
  BY <1>1 DEF JoinMessage
<1>2. CASE \E selection \in 0..MaxSelection : m = PresenceMessage(selection)
  BY <1>2 DEF PresenceMessage
<1>3. CASE \E on \in BOOLEAN : m = VoiceMessage(on)
  BY <1>3 DEF VoiceMessage
<1> QED BY <1>1, <1>2, <1>3 DEF Message

LEMMA MessagesOfAKind ==
  /\ JoinMessage \in Message /\ JoinMessage.kind = "join"
  /\ \A selection \in 0..MaxSelection :
       PresenceMessage(selection) \in Message /\ PresenceMessage(selection).kind = "presence"
  /\ \A on \in BOOLEAN :
       VoiceMessage(on) \in Message /\ VoiceMessage(on).kind = "voice"
BY DEF Message, JoinMessage, PresenceMessage, VoiceMessage

LEMMA EventFields ==
  ASSUME NEW e \in Event
  PROVE  /\ e.kind = "state" => e.presences \in Presences
         /\ e.kind = "voice" => e.user \in Users /\ e.on \in BOOLEAN
<1>1. CASE \E p \in Presences : e = StateEvent(p)
  BY <1>1 DEF StateEvent
<1>2. CASE \E u \in Users, on \in BOOLEAN : e = VoiceEvent(u, on)
  BY <1>2 DEF VoiceEvent
<1> QED BY <1>1, <1>2 DEF Event

LEMMA EventsOfAKind ==
  /\ \A p \in Presences : StateEvent(p) \in Event
  /\ \A u \in Users, on \in BOOLEAN : VoiceEvent(u, on) \in Event
BY DEF Event

LEMMA EmptyIsPresences == Empty \in Presences
<1>1. Absent \in Absent..MaxSelection /\ 0 \in Absent..MaxSelection
  BY RoomPresenceAssumption DEF RoomPresenceAssumption, Absent
<1> QED BY <1>1 DEF Empty, Presences

-----------------------------------------------------------------------------
(* What the operators that several steps use leave in range. *)

LEMMA TakesFacts ==
  ASSUME TypeOK, NEW s \in Sockets, NEW kind, Takes(s, kind)
  PROVE  /\ inbox' \in [Sockets -> Seq(Message)]
         /\ Head(inbox[s]) \in Message
         /\ Head(inbox[s]) = inbox[s][1] /\ Len(inbox[s]) >= 1
         /\ Len(inbox'[s]) = Len(inbox[s]) - 1
         /\ \A k \in 1..Len(inbox'[s]) : inbox'[s][k] = inbox[s][k + 1]
         /\ \A t \in Sockets \ {s} : inbox'[t] = inbox[t]
<1>1. inbox[s] \in Seq(Message) /\ inbox[s] # <<>>
  BY DEF Takes, TypeOK
<1>2. inbox' = [inbox EXCEPT ![s] = Tail(inbox[s])]
  BY DEF Takes
<1>3. Tail(inbox[s]) \in Seq(Message)
  BY <1>1
<1>4. inbox'[s] = Tail(inbox[s]) /\ \A t \in Sockets \ {s} : inbox'[t] = inbox[t]
  BY <1>2 DEF TypeOK
<1> QED BY <1>1, <1>2, <1>3, <1>4 DEF TypeOK

LEMMA SendFacts ==
  ASSUME TypeOK, NEW s \in Sockets, NEW message \in Message, Send(s, message)
  PROVE  /\ inbox' \in [Sockets -> Seq(Message)]
         /\ Len(inbox'[s]) = Len(inbox[s]) + 1
         /\ \A k \in 1..Len(inbox[s]) : inbox'[s][k] = inbox[s][k]
         /\ inbox'[s][Len(inbox[s]) + 1] = message
         /\ \A t \in Sockets \ {s} : inbox'[t] = inbox[t]
<1>1. inbox[s] \in Seq(Message)
  BY DEF TypeOK
<1>2. inbox' = [inbox EXCEPT ![s] = Append(inbox[s], message)]
  BY DEF Send
<1>3. Append(inbox[s], message) \in Seq(Message)
  BY <1>1
<1>4. inbox'[s] = Append(inbox[s], message)
      /\ \A t \in Sockets \ {s} : inbox'[t] = inbox[t]
  BY <1>2 DEF TypeOK
<1> QED BY <1>1, <1>2, <1>3, <1>4 DEF TypeOK

LEMMA PublishType ==
  ASSUME TypeOK, NEW n \in Nodes, NEW event \in Event, Publish(n, event)
  PROVE  channel' \in [Nodes -> Seq(Event)]
<1>1. PICK reached \in SUBSET (Nodes \ {n}) :
        channel' = [m \in Nodes |->
                     IF m \in reached THEN Append(channel[m], event) ELSE channel[m]]
  BY DEF Publish
<1>2. \A m \in Nodes : Append(channel[m], event) \in Seq(Event) /\ channel[m] \in Seq(Event)
  BY DEF TypeOK
<1> QED BY <1>1, <1>2

LEMMA ReceivedFacts ==
  ASSUME TypeOK, NEW n \in Nodes, NEW kind, Received(n, kind)
  PROVE  /\ channel' \in [Nodes -> Seq(Event)]
         /\ Head(channel[n]) \in Event /\ Head(channel[n]).kind = kind
<1>1. channel[n] \in Seq(Event) /\ channel[n] # <<>>
  BY DEF Received, TypeOK
<1>2. Tail(channel[n]) \in Seq(Event) /\ Head(channel[n]) \in Event
  BY <1>1
<1> QED BY <1>2 DEF Received, TypeOK

LEMMA ShowToFacts ==
  ASSUME TypeOK, NEW listeners, NEW presences \in Presences, ShowTo(listeners, presences)
  PROVE  /\ view' \in [Sockets -> Presences]
         /\ \A s \in Sockets : view'[s] = IF s \in listeners THEN presences ELSE view[s]
BY DEF TypeOK, ShowTo

LEMMA WithType ==
  ASSUME NEW set \in SUBSET Users, NEW u \in Users, NEW on \in BOOLEAN
  PROVE  With(set, u, on) \in SUBSET Users
BY DEF With

LEMMA TellToFacts ==
  ASSUME TypeOK, NEW listeners, NEW u \in Users, NEW on \in BOOLEAN, TellTo(listeners, u, on)
  PROVE  /\ heard' \in [Sockets -> SUBSET Users]
         /\ \A s \in Sockets :
              heard'[s] = IF s \in listeners /\ UserOf[s] # u
                          THEN With(heard[s], u, on) ELSE heard[s]
<1>1. \A s \in Sockets : With(heard[s], u, on) \in SUBSET Users /\ heard[s] \in SUBSET Users
  BY WithType DEF TypeOK
<1> QED BY <1>1 DEF TellTo

LEMMA GoneFacts ==
  ASSUME TypeOK, NEW gone, PagesGone(gone)
  PROVE  /\ view' \in [Sockets -> Presences]
         /\ \A s \in Sockets \ gone : view'[s] = view[s]
BY EmptyIsPresences DEF TypeOK, PagesGone

LEMMA ForgottenFacts ==
  ASSUME TypeOK, NEW gone, Forgotten(gone)
  PROVE  /\ heard' \in [Sockets -> SUBSET Users]
         /\ \A s \in Sockets : heard'[s] = IF s \in gone THEN {} ELSE heard[s]
<1>1. \A s \in Sockets : heard[s] \in SUBSET Users
  BY DEF TypeOK
<1> QED BY <1>1 DEF Forgotten

Left(n, u) == \A m \in Nodes : voice'[m] = IF m = n THEN voice[m] \ {u} ELSE voice[m]
HeardLeave(s, n, u) ==
  \A t \in Sockets \ {s} :
    heard'[t] = IF t \in Listeners(n) THEN heard[t] \ (voice[n] \cap {u}) ELSE heard[t]

LEMMA HangUpFacts ==
  ASSUME TypeOK, NEW s \in Sockets, NEW n \in Nodes, NEW u \in Users, HangUp(s, n, u)
  PROVE  /\ voice' \in [Nodes -> SUBSET Users]
         /\ channel' \in [Nodes -> Seq(Event)]
         /\ heard' \in [Sockets -> SUBSET Users]
         /\ Left(n, u)
         /\ heard'[s] = {}
         /\ HeardLeave(s, n, u)
<1>0. \A t \in Sockets : heard[t] \in SUBSET Users
  BY DEF TypeOK
<1>1. CASE u \in voice[n]
  <2>1. VoiceEvent(u, FALSE) \in Event
    BY EventsOfAKind
  <2>2. channel' \in [Nodes -> Seq(Event)]
    BY <1>1, <2>1, PublishType DEF HangUp
  <2>3. heard' = [t \in Sockets |->
                     CASE t = s -> {}
                       [] t \in Listeners(n) \ {s} -> heard[t] \ {u}
                       [] OTHER -> heard[t]]
    BY <1>1 DEF HangUp
  <2>4. heard'[s] = {}
    BY <2>3
  <2>5. ASSUME NEW t \in Sockets \ {s}
        PROVE  heard'[t] = IF t \in Listeners(n) THEN heard[t] \ {u} ELSE heard[t]
    BY <2>3
  <2>6. \A t \in Sockets : heard'[t] \in SUBSET Users
    BY <2>4, <2>5, <1>0
  <2>7. heard' \in [Sockets -> SUBSET Users]
    <3>1. heard' = [t \in Sockets |-> heard'[t]]
      BY <2>3
    <3> QED BY <2>6, <3>1
  <2>8. voice' = [voice EXCEPT ![n] = voice[n] \ {u}]
    BY <1>1 DEF HangUp
  <2>9. voice[n] \cap {u} = {u}
    BY <1>1
  <2>10. \A m \in Nodes : voice'[m] = IF m = n THEN voice[m] \ {u} ELSE voice[m]
    BY <2>8 DEF TypeOK
  <2>11. voice' \in [Nodes -> SUBSET Users]
    BY <2>8 DEF TypeOK
  <2> QED BY <2>2, <2>4, <2>5, <2>7, <2>9, <2>10, <2>11 DEF Left, HeardLeave
<1>2. CASE u \notin voice[n]
  <2>1. Forgotten({s}) /\ voice' = voice /\ channel' = channel
    BY <1>2 DEF HangUp
  <2>2. voice[n] \cap {u} = {} /\ voice[n] \ {u} = voice[n]
    BY <1>2
  <2>3. \A t \in Sockets : heard[t] \ {} = heard[t]
    OBVIOUS
  <2> QED BY <2>1, <2>2, <2>3, ForgottenFacts
        DEF TypeOK, Left, HeardLeave
<1> QED BY <1>1, <1>2

LEMMA UserIsKnown == \A s \in Sockets : UserOf[s] \in Users
BY RoomPresenceAssumption DEF RoomPresenceAssumption

-----------------------------------------------------------------------------
(* SocketsKnown: a socket that was not opened did nothing; one asks to     *)
(* join once, and not when it is joined; it is in the room of its own node *)
(* only, and while it is open it stays there.                              *)

UnopenedIdle(s) ==
  node[s] = NoNode => s \notin open /\ s \notin current /\ inbox[s] = <<>>
JoinsOnce(s) ==
  \A k \in 1..Len(inbox[s]) : inbox[s][k].kind = "join" => k = 1 /\ s \notin current
AtHome(s) ==
  /\ \A n \in Nodes : s \in room[n] => node[s] = n /\ s \in current
  /\ s \in open \cap current => s \in room[node[s]]

SocketsKnown ==
  \A s \in Sockets : UnopenedIdle(s) /\ JoinsOnce(s) /\ AtHome(s)

\* Whoever takes a message, and whoever closes, was opened to a node.
LEMMA HasNode ==
  ASSUME TypeOK, SocketsKnown, NEW s \in Sockets, inbox[s] # <<>> \/ s \in open
  PROVE  node[s] \in Nodes
BY DEF TypeOK, SocketsKnown, UnopenedIdle

LEMMA ClosedType ==
  ASSUME TypeOK, SocketsKnown, NEW s \in Sockets, CloseJoined(s)
  PROVE  TypeOK'
<1> DEFINE n == node[s]
           u == UserOf[s]
<1>1. n \in Nodes /\ u \in Users
  BY HasNode, UserIsKnown DEF CloseJoined
<1>2. room' \in [Nodes -> SUBSET Sockets]
  BY DEF CloseJoined, TypeOK
<1>3. count' \in [Nodes -> [Users -> Nat]]
  <2>1. count[n][u] \in Nat /\ count[n] \in [Users -> Nat]
    BY <1>1 DEF TypeOK
  <2>2. (IF count[n][u] <= 1 THEN 0 ELSE count[n][u] - 1) \in Nat
    BY <2>1
  <2>3. count' = [count EXCEPT ![n][u] = IF count[n][u] <= 1 THEN 0 ELSE count[n][u] - 1]
    BY DEF CloseJoined
  <2> QED BY <2>2, <2>3, <1>1 DEF TypeOK
<1>4. view' \in [Sockets -> Presences]
  BY GoneFacts DEF CloseJoined
<1>5. CASE LeavesWithLast(n, u)
  <2>1. Removed(n, u) /\ HangUp(s, n, u)
    BY <1>5 DEF CloseJoined
  <2>2. /\ voice' \in [Nodes -> SUBSET Users] /\ channel' \in [Nodes -> Seq(Event)]
        /\ heard' \in [Sockets -> SUBSET Users]
    BY <1>1, <2>1, HangUpFacts
  <2>3. Absent \in Absent..MaxSelection
    BY RoomPresenceAssumption DEF RoomPresenceAssumption, Absent
  <2>4. presence' = [presence EXCEPT ![n][u] = Absent] /\ pending' = pending \cup {n}
    BY <2>1 DEF Removed
  <2>5. presence' \in [Nodes -> Presences]
    BY <1>1, <2>3, <2>4 DEF TypeOK, Presences
  <2> QED BY <1>1, <1>2, <1>3, <1>4, <2>2, <2>4, <2>5 DEF CloseJoined, TypeOK
<1>6. CASE ~LeavesWithLast(n, u)
  <2>1. Forgotten({s}) /\ UNCHANGED <<presence, pending, voice, channel>>
    BY <1>6 DEF CloseJoined
  <2>2. heard' \in [Sockets -> SUBSET Users]
    BY <2>1, ForgottenFacts
  <2> QED BY <1>1, <1>2, <1>3, <1>4, <2>1, <2>2 DEF CloseJoined, TypeOK
<1> QED BY <1>5, <1>6

LEMMA JoinFacts ==
  ASSUME TypeOK, SocketsKnown, NEW s \in Sockets, Join(s)
  PROVE  /\ TypeOK'
         /\ node[s] \in Nodes
         /\ \A m \in Nodes : room'[m] = IF m = node[s] THEN room[m] \cup {s} ELSE room[m]
         /\ \A m \in Nodes, v \in Users :
              count'[m][v] = IF m = node[s] /\ v = UserOf[s]
                             THEN count[m][v] + 1 ELSE count[m][v]
         /\ \A m \in Nodes, v \in Users :
              presence'[m][v] =
                IF m = node[s] /\ v = UserOf[s] /\ count[m][v] = 0
                THEN 0 ELSE presence[m][v]
         /\ \A t \in Sockets :
              view'[t] = IF t = s /\ s \in open THEN presence'[node[s]] ELSE view[t]
         /\ \A t \in Sockets :
              heard'[t] = IF t = s /\ s \in open
                          THEN heard[s] \cup (voice[node[s]] \ {UserOf[s]}) ELSE heard[t]
<1> DEFINE n == node[s]
           u == UserOf[s]
<1>1. n \in Nodes /\ u \in Users
  BY HasNode, UserIsKnown DEF Join, Takes
<1>2. inbox' \in [Sockets -> Seq(Message)]
  BY TakesFacts DEF Join
<1>3. /\ room' \in [Nodes -> SUBSET Sockets]
      /\ \A m \in Nodes : room'[m] = IF m = n THEN room[m] \cup {s} ELSE room[m]
  <2>1. room' = [room EXCEPT ![n] = room[n] \cup {s}]
    BY DEF Join
  <2> QED BY <1>1, <2>1 DEF TypeOK
<1>4. /\ count' \in [Nodes -> [Users -> Nat]]
      /\ \A m \in Nodes, v \in Users :
           count'[m][v] = IF m = n /\ v = u THEN count[m][v] + 1 ELSE count[m][v]
  <2>1. count' = [count EXCEPT ![n][u] = count[n][u] + 1]
    BY DEF Join
  <2>2. count[n][u] + 1 \in Nat
    BY <1>1 DEF TypeOK
  <2> QED BY <1>1, <2>1, <2>2 DEF TypeOK
<1>5. /\ presence' \in [Nodes -> Presences]
      /\ \A m \in Nodes, v \in Users :
           presence'[m][v] = IF m = n /\ v = u /\ count[m][v] = 0 THEN 0 ELSE presence[m][v]
  <2>1. presence' = IF count[n][u] = 0 THEN [presence EXCEPT ![n][u] = 0] ELSE presence
    BY DEF Join
  <2>2. 0 \in Absent..MaxSelection
    BY RoomPresenceAssumption DEF RoomPresenceAssumption, Absent
  <2>3. CASE count[n][u] = 0
    <3>1. presence' = [presence EXCEPT ![n][u] = 0]
      BY <2>1, <2>3
    <3> QED BY <1>1, <2>2, <2>3, <3>1 DEF TypeOK, Presences
  <2>4. CASE count[n][u] # 0
    <3>1. presence' = presence
      BY <2>1, <2>4
    <3> QED BY <2>4, <3>1 DEF TypeOK
  <2> QED BY <2>3, <2>4
<1>6. presence'[n] \in Presences
  BY <1>1, <1>5
<1>7. ShowTo({s} \cap open, presence'[n])
  BY DEF Join
<1>8. /\ view' \in [Sockets -> Presences]
      /\ \A t \in Sockets : view'[t] = IF t \in {s} \cap open THEN presence'[n] ELSE view[t]
  <2> HIDE DEF n
  <2> DEFINE shown == presence'[n]
  <2> HIDE DEF shown
  <2>1. shown \in Presences /\ ShowTo({s} \cap open, shown)
    BY <1>6, <1>7 DEF shown
  <2>2. /\ view' \in [Sockets -> Presences]
        /\ \A t \in Sockets : view'[t] = IF t \in {s} \cap open THEN shown ELSE view[t]
    BY <2>1 DEF ShowTo, TypeOK
  <2> QED BY <2>2 DEF shown
<1>9. /\ heard' \in [Sockets -> SUBSET Users]
      /\ \A t \in Sockets :
           heard'[t] = IF t = s /\ s \in open THEN heard[s] \cup (voice[n] \ {u}) ELSE heard[t]
  <2>1. heard' = [heard EXCEPT ![s] = IF s \in open THEN heard[s] \cup (voice[n] \ {u})
                                      ELSE heard[s]]
    BY DEF Join, Replay
  <2>2. heard[s] \cup (voice[n] \ {u}) \in SUBSET Users /\ heard[s] \in SUBSET Users
    BY <1>1 DEF TypeOK
  <2> QED BY <2>1, <2>2 DEF TypeOK
<1>10. TypeOK'
  BY <1>1, <1>2, <1>3, <1>4, <1>5, <1>8, <1>9 DEF Join, TypeOK
<1> QED BY <1>1, <1>3, <1>4, <1>5, <1>8, <1>9, <1>10

LEMMA TypeStep ==
  ASSUME TypeOK, SocketsKnown, [Next]_vars
  PROVE  TypeOK'
<1>1. ASSUME NEW s \in Sockets, NEW n \in Nodes, Connect(s, n) PROVE TypeOK'
  <2>1. <<JoinMessage>> \in Seq(Message)
    BY MessagesOfAKind
  <2>2. inbox' \in [Sockets -> Seq(Message)]
    BY <1>1, <2>1 DEF Connect, TypeOK
  <2> QED BY <1>1, <2>2 DEF Connect, TypeOK, members, pages
<1>2. ASSUME NEW s \in Sockets, SendPresence(s) PROVE TypeOK'
  <2>1. inbox' \in [Sockets -> Seq(Message)]
    BY <1>2, SendFacts, MessagesOfAKind DEF SendPresence
  <2> QED BY <1>2, <2>1 DEF SendPresence, TypeOK, sockets, members, pages
<1>3. ASSUME NEW s \in Sockets, SendVoice(s) PROVE TypeOK'
  <2>1. inbox' \in [Sockets -> Seq(Message)]
    BY <1>3, SendFacts, MessagesOfAKind DEF SendVoice
  <2> QED BY <1>3, <2>1 DEF SendVoice, TypeOK, sockets, members, pages
<1>4. ASSUME NEW s \in Sockets, RefuseJoin(s) PROVE TypeOK'
  <2>1. inbox' \in [Sockets -> Seq(Message)]
    BY <1>4, TakesFacts DEF RefuseJoin
  <2> QED BY <1>4, <2>1 DEF RefuseJoin, TypeOK, sockets, members, pages
<1>5. ASSUME NEW s \in Sockets, Join(s) PROVE TypeOK'
  BY <1>5, JoinFacts
<1>6. ASSUME NEW s \in Sockets, UpdatePresence(s) PROVE TypeOK'
  <2>1. inbox' \in [Sockets -> Seq(Message)] /\ Head(inbox[s]).selection \in 0..MaxSelection
    BY <1>6, TakesFacts, MessageFields DEF UpdatePresence, Takes
  <2>2. Head(inbox[s]).selection \in Absent..MaxSelection
    BY <2>1, RoomPresenceAssumption DEF RoomPresenceAssumption, Absent
  <2>3. node[s] \in Nodes /\ UserOf[s] \in Users
    BY <1>6, HasNode, UserIsKnown DEF UpdatePresence, Takes
  <2>4. presence' = [presence EXCEPT ![node[s]][UserOf[s]] = Head(inbox[s]).selection]
    BY <1>6 DEF UpdatePresence
  <2>5. presence' \in [Nodes -> Presences]
    BY <2>2, <2>3, <2>4 DEF TypeOK, Presences
  <2> QED BY <1>6, <2>1, <2>3, <2>5 DEF UpdatePresence, TypeOK, sockets, pages
<1>7. ASSUME NEW s \in Sockets, UpdateVoice(s) PROVE TypeOK'
  <2> DEFINE on == Head(inbox[s]).on
  <2>1. inbox' \in [Sockets -> Seq(Message)] /\ on \in BOOLEAN
    BY <1>7, TakesFacts, MessageFields DEF UpdateVoice, Takes
  <2>2. node[s] \in Nodes /\ UserOf[s] \in Users
    BY <1>7, HasNode, UserIsKnown DEF UpdateVoice, Takes
  <2>3. /\ voice' = [voice EXCEPT ![node[s]] = With(voice[node[s]], UserOf[s], on)]
        /\ TellTo(Listeners(node[s]) \ {s}, UserOf[s], on)
        /\ Publish(node[s], VoiceEvent(UserOf[s], on))
    BY <1>7 DEF UpdateVoice
  <2> HIDE DEF on
  <2>4. VoiceEvent(UserOf[s], on) \in Event
    BY <2>1, <2>2, EventsOfAKind
  <2>5. With(voice[node[s]], UserOf[s], on) \in SUBSET Users
    BY <2>1, <2>2, WithType DEF TypeOK
  <2>6. heard' \in [Sockets -> SUBSET Users]
    BY <2>1, <2>2, <2>3, TellToFacts
  <2>7. channel' \in [Nodes -> Seq(Event)]
    BY <2>2, <2>3, <2>4, PublishType
  <2>8. voice' \in [Nodes -> SUBSET Users]
    BY <2>2, <2>3, <2>5 DEF TypeOK
  <2> QED BY <1>7, <2>1, <2>6, <2>7, <2>8 DEF UpdateVoice, TypeOK, sockets, members
<1>8. ASSUME NEW s \in Sockets, CloseJoined(s) PROVE TypeOK'
  BY <1>8, ClosedType
<1>9. ASSUME NEW s \in Sockets, CloseUnjoined(s) PROVE TypeOK'
  BY <1>9, GoneFacts, ForgottenFacts DEF CloseUnjoined, TypeOK, members
<1>10. ASSUME NEW n \in Nodes, Fire(n) PROVE TypeOK'
  <2>1. presence[n] \in Presences
    BY DEF TypeOK
  <2>2. StateEvent(presence[n]) \in Event
    BY <2>1, EventsOfAKind
  <2>3. channel' \in [Nodes -> Seq(Event)] /\ view' \in [Sockets -> Presences]
    BY <1>10, <2>1, <2>2, PublishType, ShowToFacts DEF Fire
  <2> QED BY <1>10, <2>3 DEF Fire, TypeOK, sockets, members
<1>11. ASSUME NEW n \in Nodes, ReceiveState(n) PROVE TypeOK'
  <2> DEFINE sent == Head(channel[n]).presences
             merged == [u \in Users |-> IF sent[u] # Absent THEN sent[u] ELSE presence[n][u]]
  <2>1. channel' \in [Nodes -> Seq(Event)] /\ sent \in Presences
    BY <1>11, ReceivedFacts, EventFields DEF ReceiveState
  <2>2. merged \in Presences
    BY <2>1 DEF TypeOK, Presences
  <2>3. presence' = [presence EXCEPT ![n] = merged] /\ ShowTo(Listeners(n), presence'[n])
    BY <1>11 DEF ReceiveState
  <2> HIDE DEF merged
  <2>4. presence' \in [Nodes -> Presences] /\ presence'[n] = merged
    BY <2>2, <2>3 DEF TypeOK
  <2>5. ShowTo(Listeners(n), merged)
    BY <2>3, <2>4
  <2>6. view' \in [Sockets -> Presences]
    BY <2>2, <2>5, ShowToFacts
  <2> QED BY <1>11, <2>1, <2>4, <2>6 DEF ReceiveState, TypeOK, sockets
<1>12. ASSUME NEW n \in Nodes, ReceiveVoice(n) PROVE TypeOK'
  <2> DEFINE event == Head(channel[n])
  <2>1. channel' \in [Nodes -> Seq(Event)] /\ event.user \in Users /\ event.on \in BOOLEAN
    BY <1>12, ReceivedFacts, EventFields DEF ReceiveVoice
  <2>2. /\ voice' = [voice EXCEPT ![n] = With(voice[n], event.user, event.on)]
        /\ TellTo(Listeners(n), event.user, event.on)
    BY <1>12 DEF ReceiveVoice
  <2> HIDE DEF event
  <2>3. With(voice[n], event.user, event.on) \in SUBSET Users
    BY <2>1, WithType DEF TypeOK
  <2>4. voice' \in [Nodes -> SUBSET Users]
    BY <2>2, <2>3 DEF TypeOK
  <2>5. heard' \in [Sockets -> SUBSET Users]
    BY <2>1, <2>2, TellToFacts
  <2> QED BY <1>12, <2>1, <2>4, <2>5 DEF ReceiveVoice, TypeOK, sockets, members
<1>13. ASSUME NEW n \in Nodes, Restart(n) PROVE TypeOK'
  <2> DEFINE own == {s \in Sockets : node[s] = n}
  <2>1. PagesGone(own) /\ Forgotten(own)
    BY <1>13 DEF Restart
  <2>2. view' \in [Sockets -> Presences] /\ heard' \in [Sockets -> SUBSET Users]
    BY <2>1, GoneFacts, ForgottenFacts
  <2>3. inbox' \in [Sockets -> Seq(Message)]
    <3>1. inbox' = [s \in Sockets |-> IF s \in own THEN <<>> ELSE inbox[s]]
      BY <1>13 DEF Restart
    <3> QED BY <3>1 DEF TypeOK
  <2>4. channel' \in [Nodes -> Seq(Event)] /\ presence' \in [Nodes -> Presences]
    BY <1>13, EmptyIsPresences DEF Restart, TypeOK
  <2>5. count' \in [Nodes -> [Users -> Nat]] /\ room' \in [Nodes -> SUBSET Sockets]
    BY <1>13 DEF Restart, TypeOK
  <2>6. voice' \in [Nodes -> SUBSET Users]
    BY <1>13 DEF Restart, TypeOK
  <2> QED BY <1>13, <2>2, <2>3, <2>4, <2>5, <2>6 DEF Restart, TypeOK
<1>14. CASE UNCHANGED vars
  BY <1>14 DEF vars, sockets, members, pages, TypeOK
<1> QED BY <1>1, <1>2, <1>3, <1>4, <1>5, <1>6, <1>7, <1>8, <1>9, <1>10, <1>11, <1>12,
           <1>13, <1>14 DEF Next, Socket, Node

-----------------------------------------------------------------------------
LEMMA KnownStep ==
  ASSUME TypeOK, SocketsKnown, [Next]_vars
  PROVE  SocketsKnown'
<1>1. ASSUME NEW s \in Sockets, NEW n \in Nodes, Connect(s, n) PROVE SocketsKnown'
  <2>1. /\ node' = [node EXCEPT ![s] = n] /\ open' = open \cup {s}
        /\ inbox' = [inbox EXCEPT ![s] = <<JoinMessage>>]
        /\ current' = current /\ room' = room /\ node[s] = NoNode
    BY <1>1 DEF Connect, members
  <2>2. s \notin current /\ \A m \in Nodes : s \notin room[m]
    BY <2>1, RoomPresenceAssumption
       DEF SocketsKnown, UnopenedIdle, AtHome, RoomPresenceAssumption
  <2>3. node'[s] = n /\ n # NoNode /\ Len(inbox'[s]) = 1
    BY <2>1, RoomPresenceAssumption DEF TypeOK, RoomPresenceAssumption
  <2>4. UnopenedIdle(s)' /\ JoinsOnce(s)' /\ AtHome(s)'
    BY <2>1, <2>2, <2>3 DEF UnopenedIdle, JoinsOnce, AtHome
  <2>5. ASSUME NEW t \in Sockets \ {s} PROVE UnopenedIdle(t)' /\ JoinsOnce(t)' /\ AtHome(t)'
    <3>1. node'[t] = node[t] /\ inbox'[t] = inbox[t] /\ (t \in open' <=> t \in open)
      BY <2>1 DEF TypeOK
    <3> QED BY <2>1, <3>1 DEF SocketsKnown, UnopenedIdle, JoinsOnce, AtHome
  <2> QED BY <2>4, <2>5 DEF SocketsKnown
\* A message that a joined page sends asks for nothing.
<1>2. ASSUME NEW s \in Sockets, NEW message \in Message, message.kind # "join",
             Joined(s), Send(s, message), UNCHANGED <<sockets, members>>
      PROVE  SocketsKnown'
  <2>1. /\ Len(inbox'[s]) = Len(inbox[s]) + 1
        /\ \A k \in 1..Len(inbox[s]) : inbox'[s][k] = inbox[s][k]
        /\ inbox'[s][Len(inbox[s]) + 1] = message
        /\ \A t \in Sockets \ {s} : inbox'[t] = inbox[t]
    BY <1>2, SendFacts
  <2>2. Len(inbox[s]) \in Nat
    BY DEF TypeOK
  <2>3. node[s] \in Nodes
    BY <1>2, HasNode DEF Joined
  <2>4. JoinsOnce(s)'
    <3> SUFFICES ASSUME NEW k \in 1..Len(inbox'[s]), inbox'[s][k].kind = "join"
                 PROVE  k = 1 /\ s \notin current'
      BY DEF JoinsOnce
    <3>1. k \in 1..Len(inbox[s])
      BY <1>2, <2>1, <2>2
    <3> QED BY <1>2, <2>1, <3>1 DEF SocketsKnown, JoinsOnce, sockets
  <2>5. UnopenedIdle(s)' /\ AtHome(s)'
    BY <1>2, <2>3, RoomPresenceAssumption
       DEF SocketsKnown, UnopenedIdle, AtHome, sockets, members, RoomPresenceAssumption
  <2>6. ASSUME NEW t \in Sockets \ {s} PROVE UnopenedIdle(t)' /\ JoinsOnce(t)' /\ AtHome(t)'
    BY <1>2, <2>1 DEF SocketsKnown, UnopenedIdle, JoinsOnce, AtHome, sockets, members
  <2> QED BY <2>4, <2>5, <2>6 DEF SocketsKnown
\* A handler that only takes its message.
<1>3. ASSUME NEW s \in Sockets, NEW kind, Takes(s, kind), UNCHANGED <<sockets, room>>
      PROVE  SocketsKnown'
  <2>1. /\ Len(inbox[s]) \in Nat /\ Len(inbox'[s]) = Len(inbox[s]) - 1
        /\ \A k \in 1..Len(inbox'[s]) : inbox'[s][k] = inbox[s][k + 1]
        /\ \A t \in Sockets \ {s} : inbox'[t] = inbox[t]
        /\ inbox[s] # <<>>
    BY <1>3, TakesFacts DEF TypeOK, Takes
  <2>2. node[s] \in Nodes
    BY <2>1, HasNode
  <2>3. JoinsOnce(s)'
    <3> SUFFICES ASSUME NEW k \in 1..Len(inbox'[s]), inbox'[s][k].kind = "join"
                 PROVE  FALSE
      BY DEF JoinsOnce
    <3>1. k + 1 \in 1..Len(inbox[s]) /\ k + 1 # 1
      BY <2>1
    <3> QED BY <2>1, <3>1 DEF SocketsKnown, JoinsOnce
  <2>4. UnopenedIdle(s)' /\ AtHome(s)'
    BY <1>3, <2>2, RoomPresenceAssumption
       DEF SocketsKnown, UnopenedIdle, AtHome, sockets, RoomPresenceAssumption
  <2>5. ASSUME NEW t \in Sockets \ {s} PROVE UnopenedIdle(t)' /\ JoinsOnce(t)' /\ AtHome(t)'
    BY <1>3, <2>1 DEF SocketsKnown, UnopenedIdle, JoinsOnce, AtHome, sockets
  <2> QED BY <2>3, <2>4, <2>5 DEF SocketsKnown
<1>4. ASSUME NEW s \in Sockets, Join(s) PROVE SocketsKnown'
  <2>1. Takes(s, "join") /\ UNCHANGED <<node, open>> /\ current' = current \cup {s}
    BY <1>4 DEF Join
  <2>2. /\ Len(inbox[s]) \in Nat /\ Len(inbox'[s]) = Len(inbox[s]) - 1
        /\ \A k \in 1..Len(inbox'[s]) : inbox'[s][k] = inbox[s][k + 1]
        /\ \A t \in Sockets \ {s} : inbox'[t] = inbox[t]
    BY <2>1, TakesFacts DEF TypeOK
  <2>3. /\ node[s] \in Nodes
        /\ \A m \in Nodes : room'[m] = IF m = node[s] THEN room[m] \cup {s} ELSE room[m]
    BY <1>4, JoinFacts
  <2>4. JoinsOnce(s)'
    <3> SUFFICES ASSUME NEW k \in 1..Len(inbox'[s]), inbox'[s][k].kind = "join"
                 PROVE  FALSE
      BY DEF JoinsOnce
    <3>1. k + 1 \in 1..Len(inbox[s]) /\ k + 1 # 1
      BY <2>2
    <3> QED BY <2>2, <3>1 DEF SocketsKnown, JoinsOnce
  <2>5. UnopenedIdle(s)' /\ AtHome(s)'
    <3>1. AtHome(s) /\ node[s] # NoNode
      BY <2>3, RoomPresenceAssumption DEF SocketsKnown, RoomPresenceAssumption
    <3>2. UnopenedIdle(s)'
      BY <2>1, <3>1 DEF UnopenedIdle
    <3>3. s \in room'[node[s]] /\ s \in current'
      BY <2>1, <2>3
    <3>4. \A m \in Nodes : s \in room'[m] => node[s] = m
      BY <2>3, <3>1 DEF AtHome
    <3>5. AtHome(s)'
      BY <2>1, <3>3, <3>4 DEF AtHome
    <3> QED BY <3>2, <3>5
  <2>6. ASSUME NEW t \in Sockets \ {s} PROVE UnopenedIdle(t)' /\ JoinsOnce(t)' /\ AtHome(t)'
    <3>1. (t \in current' <=> t \in current)
          /\ \A m \in Nodes : (t \in room'[m] <=> t \in room[m])
      BY <2>1, <2>3
    <3>2. UnopenedIdle(t) /\ JoinsOnce(t) /\ AtHome(t)
      BY DEF SocketsKnown
    <3>3. t \in open => node[t] \in Nodes
      BY HasNode
    <3> QED BY <2>1, <2>2, <3>1, <3>2, <3>3 DEF UnopenedIdle, JoinsOnce, AtHome
  <2> QED BY <2>4, <2>5, <2>6 DEF SocketsKnown
<1>5. ASSUME NEW s \in Sockets, CloseJoined(s) PROVE SocketsKnown'
  <2>1. /\ node' = node /\ inbox' = inbox /\ current' = current /\ open' = open \ {s}
        /\ room' = [room EXCEPT ![node[s]] = room[node[s]] \ {s}]
    BY <1>5 DEF CloseJoined
  <2>2. node[s] \in Nodes
    BY <1>5, HasNode DEF CloseJoined
  <2>3. \A m \in Nodes : room'[m] = IF m = node[s] THEN room[m] \ {s} ELSE room[m]
    BY <2>1, <2>2 DEF TypeOK
  <2>4. ASSUME NEW t \in Sockets PROVE UnopenedIdle(t)' /\ JoinsOnce(t)' /\ AtHome(t)'
    <3>1. UnopenedIdle(t) /\ JoinsOnce(t) /\ AtHome(t)
      BY DEF SocketsKnown
    <3>2. t \in open => node[t] \in Nodes
      BY HasNode
    <3> QED BY <2>1, <2>3, <3>1, <3>2 DEF UnopenedIdle, JoinsOnce, AtHome
  <2> QED BY <2>4 DEF SocketsKnown
<1>6. ASSUME NEW s \in Sockets, CloseUnjoined(s) PROVE SocketsKnown'
  BY <1>6 DEF CloseUnjoined, SocketsKnown, UnopenedIdle, JoinsOnce, AtHome, members
<1>7. ASSUME NEW n \in Nodes, Restart(n) PROVE SocketsKnown'
  <2> DEFINE own == {s \in Sockets : node[s] = n}
  <2>1. /\ node' = node /\ open' = open \ own /\ current' = current \ own
        /\ inbox' = [s \in Sockets |-> IF s \in own THEN <<>> ELSE inbox[s]]
        /\ room' = [room EXCEPT ![n] = {}]
    BY <1>7 DEF Restart
  <2>2. \A m \in Nodes : room'[m] = IF m = n THEN {} ELSE room[m]
    BY <2>1 DEF TypeOK
  <2>3. ASSUME NEW t \in Sockets PROVE UnopenedIdle(t)' /\ JoinsOnce(t)' /\ AtHome(t)'
    <3>1. UnopenedIdle(t) /\ JoinsOnce(t) /\ AtHome(t)
      BY DEF SocketsKnown
    <3>2. t \in open => node[t] \in Nodes
      BY HasNode
    <3>3. CASE node[t] = n
      <4>1. inbox'[t] = <<>> /\ t \notin open' /\ t \notin current'
        BY <2>1, <3>3
      <4>2. \A m \in Nodes : t \notin room'[m]
        BY <2>2, <3>1, <3>3 DEF AtHome
      <4> QED BY <4>1, <4>2 DEF UnopenedIdle, JoinsOnce, AtHome
    <3>4. CASE node[t] # n
      <4>1. inbox'[t] = inbox[t] /\ (t \in open' <=> t \in open)
            /\ (t \in current' <=> t \in current)
        BY <2>1, <3>4
      <4>2. \A m \in Nodes : t \in room'[m] <=> t \in room[m]
        BY <2>2, <3>1, <3>4 DEF AtHome
      <4> QED BY <2>1, <3>1, <3>2, <4>1, <4>2 DEF UnopenedIdle, JoinsOnce, AtHome
    <3> QED BY <3>3, <3>4
  <2> QED BY <2>3 DEF SocketsKnown
<1>8. ASSUME UNCHANGED <<sockets, inbox, room>> PROVE SocketsKnown'
  BY <1>8 DEF SocketsKnown, UnopenedIdle, JoinsOnce, AtHome, sockets
<1>9. ASSUME NEW s \in Sockets, SendPresence(s) \/ SendVoice(s) PROVE SocketsKnown'
  <2>1. CASE SendPresence(s)
    BY <1>2, <2>1, MessagesOfAKind DEF SendPresence
  <2>2. CASE SendVoice(s)
    BY <1>2, <2>2, MessagesOfAKind DEF SendVoice
  <2> QED BY <1>9, <2>1, <2>2
<1>10. ASSUME NEW s \in Sockets, RefuseJoin(s) \/ UpdatePresence(s) \/ UpdateVoice(s)
       PROVE  SocketsKnown'
  BY <1>3, <1>10 DEF RefuseJoin, UpdatePresence, UpdateVoice, members
<1>11. ASSUME NEW n \in Nodes, Fire(n) \/ ReceiveState(n) \/ ReceiveVoice(n)
       PROVE  SocketsKnown'
  BY <1>8, <1>11 DEF Fire, ReceiveState, ReceiveVoice, members
<1>12. CASE UNCHANGED vars
  BY <1>8, <1>12 DEF vars, members
<1> QED BY <1>1, <1>4, <1>5, <1>6, <1>7, <1>9, <1>10, <1>11, <1>12 DEF Next, Socket, Node

(***************************************************************************)
(* The variables of the sockets, the nodes and the pages are in range, and *)
(* the sockets are known: the inductive invariant of the presence.         *)
(***************************************************************************)
PresenceInv == TypeOK /\ SocketsKnown

THEOREM PresenceTypeCorrect == Spec => []PresenceInv
<1>1. Init => PresenceInv
  <2> SUFFICES ASSUME Init PROVE PresenceInv
    OBVIOUS
  <2>1. inbox \in [Sockets -> Seq(Message)] /\ channel \in [Nodes -> Seq(Event)]
    BY DEF Init
  <2>2. presence \in [Nodes -> Presences] /\ view \in [Sockets -> Presences]
    BY EmptyIsPresences DEF Init
  <2>3. TypeOK
    BY <2>1, <2>2 DEF Init, TypeOK
  <2>4. SocketsKnown
    BY DEF Init, SocketsKnown, UnopenedIdle, JoinsOnce, AtHome
  <2> QED BY <2>3, <2>4 DEF PresenceInv
<1>2. PresenceInv /\ [Next]_vars => PresenceInv'
  BY TypeStep, KnownStep DEF PresenceInv
<1> QED BY <1>1, <1>2, PTL DEF Spec

-----------------------------------------------------------------------------
(* The counts. *)

Counted(n, u) ==
  /\ count[n][u] = Cardinality(SocketsOf(n, u))
  /\ count[n][u] > 0 => presence[n][u] # Absent

\* A socket that waits for its join is in no room.
LEMMA JoinsFresh ==
  ASSUME TypeOK, SocketsKnown, NEW s \in Sockets, Takes(s, "join")
  PROVE  s \notin current /\ \A n \in Nodes : s \notin room[n]
<1>1. inbox[s] \in Seq(Message) /\ inbox[s] # <<>> /\ inbox[s][1].kind = "join"
  BY DEF Takes, TypeOK
<1>2. s \notin current
  BY <1>1 DEF SocketsKnown, JoinsOnce
<1> QED BY <1>2 DEF SocketsKnown, AtHome

LEMMA SocketsFinite ==
  ASSUME TypeOK, NEW n \in Nodes, NEW u \in Users
  PROVE  IsFiniteSet(SocketsOf(n, u)) /\ Cardinality(SocketsOf(n, u)) \in Nat
<1>1. SocketsOf(n, u) \subseteq Sockets
  BY DEF SocketsOf, TypeOK
<1> QED BY <1>1, FS_Subset, FS_CardinalityType, RoomPresenceAssumption
        DEF RoomPresenceAssumption

LEMMA CountedStep ==
  ASSUME TypeOK, SocketsKnown, MembersCounted, [Next]_vars
  PROVE  MembersCounted'
<1>0. MembersCounted <=> \A n \in Nodes, u \in Users : Counted(n, u)
  BY DEF MembersCounted, Counted
<1>1. ASSUME NEW s \in Sockets, Join(s) PROVE MembersCounted'
  <2> SUFFICES ASSUME NEW n \in Nodes, NEW u \in Users PROVE Counted(n, u)'
    BY DEF MembersCounted, Counted
  <2>1. /\ room'[n] = IF n = node[s] THEN room[n] \cup {s} ELSE room[n]
        /\ count'[n][u] = IF n = node[s] /\ u = UserOf[s]
                          THEN count[n][u] + 1 ELSE count[n][u]
        /\ presence'[n][u] = IF n = node[s] /\ u = UserOf[s] /\ count[n][u] = 0
                             THEN 0 ELSE presence[n][u]
    <3>1. room'[n] = IF n = node[s] THEN room[n] \cup {s} ELSE room[n]
      BY <1>1, JoinFacts
    <3>2. \A m \in Nodes, v \in Users :
            count'[m][v] = IF m = node[s] /\ v = UserOf[s]
                           THEN count[m][v] + 1 ELSE count[m][v]
      BY <1>1, JoinFacts
    <3>3. \A m \in Nodes, v \in Users :
            presence'[m][v] = IF m = node[s] /\ v = UserOf[s] /\ count[m][v] = 0
                              THEN 0 ELSE presence[m][v]
      BY <1>1, JoinFacts
    <3> QED BY <3>1, <3>2, <3>3
  <2>2. Counted(n, u) /\ count[n][u] \in Nat
    BY <1>0 DEF TypeOK
  <2>3. CASE n = node[s] /\ u = UserOf[s]
    <3>1. s \notin SocketsOf(n, u)
      BY <1>1, JoinsFresh DEF Join, SocketsOf
    <3>2. SocketsOf(n, u)' = SocketsOf(n, u) \cup {s}
      BY <2>1, <2>3 DEF SocketsOf
    <3>3. Cardinality(SocketsOf(n, u) \cup {s}) = Cardinality(SocketsOf(n, u)) + 1
      BY <3>1, SocketsFinite, FS_AddElement
    <3>4. count'[n][u] = Cardinality(SocketsOf(n, u)')
      BY <2>1, <2>2, <2>3, <3>2, <3>3 DEF Counted
    <3>5. presence'[n][u] # Absent
      BY <2>1, <2>2, <2>3 DEF Counted, Absent
    <3> QED BY <3>4, <3>5 DEF Counted
  <2>4. CASE ~(n = node[s] /\ u = UserOf[s])
    <3>1. SocketsOf(n, u)' = SocketsOf(n, u)
      BY <2>1, <2>4 DEF SocketsOf
    <3>2. count'[n][u] = count[n][u] /\ presence'[n][u] = presence[n][u]
      BY <2>1, <2>4
    <3> QED BY <2>2, <3>1, <3>2 DEF Counted
  <2> QED BY <2>3, <2>4
<1>2. ASSUME NEW s \in Sockets, CloseJoined(s) PROVE MembersCounted'
  <2> DEFINE h == node[s]
             v == UserOf[s]
  <2>1. h \in Nodes /\ v \in Users /\ s \in room[h]
    BY <1>2, HasNode, UserIsKnown DEF CloseJoined, SocketsKnown, AtHome
  <2>2. /\ room' = [room EXCEPT ![h] = room[h] \ {s}]
        /\ count' = [count EXCEPT ![h][v] = IF count[h][v] <= 1 THEN 0 ELSE count[h][v] - 1]
        /\ IF count[h][v] <= 1 THEN presence' = [presence EXCEPT ![h][v] = Absent]
           ELSE presence' = presence
    BY <1>2 DEF CloseJoined, LeavesWithLast, Removed
  <2> SUFFICES ASSUME NEW n \in Nodes, NEW u \in Users PROVE Counted(n, u)'
    BY DEF MembersCounted, Counted
  <2>3. Counted(n, u) /\ count[n][u] \in Nat
    BY <1>0 DEF TypeOK
  <2>4. CASE n = h /\ u = v
    <3>1. s \in SocketsOf(n, u)
      BY <2>1, <2>4 DEF SocketsOf
    <3>2. SocketsOf(n, u)' = SocketsOf(n, u) \ {s}
      BY <2>1, <2>2, <2>4 DEF SocketsOf, TypeOK
    <3>3. Cardinality(SocketsOf(n, u) \ {s}) = Cardinality(SocketsOf(n, u)) - 1
      BY <3>1, SocketsFinite, FS_RemoveElement
    <3>4. Cardinality(SocketsOf(n, u) \ {s}) \in Nat
      BY SocketsFinite, FS_RemoveElement, FS_CardinalityType
    <3>5. count'[n][u] = IF count[n][u] <= 1 THEN 0 ELSE count[n][u] - 1
      BY <2>1, <2>2, <2>4 DEF TypeOK
    <3>6. count'[n][u] = Cardinality(SocketsOf(n, u)')
      BY <2>3, <3>2, <3>3, <3>4, <3>5 DEF Counted
    <3>7. count'[n][u] > 0 => presence'[n][u] = presence[n][u] /\ count[n][u] > 0
      BY <2>1, <2>2, <2>3, <2>4, <3>5
    <3> QED BY <2>3, <3>6, <3>7 DEF Counted
  <2>5. CASE ~(n = h /\ u = v)
    <3>1. SocketsOf(n, u)' = SocketsOf(n, u)
      BY <2>1, <2>2, <2>5 DEF SocketsOf, TypeOK
    <3>2. count'[n][u] = count[n][u] /\ presence'[n][u] = presence[n][u]
      <4>1. count'[n][u] = count[n][u]
        BY <2>1, <2>2, <2>5 DEF TypeOK
      <4>2. presence'[n][u] = presence[n][u]
        BY <2>1, <2>2, <2>5 DEF TypeOK, Presences
      <4> QED BY <4>1, <4>2
    <3> QED BY <2>3, <3>1, <3>2 DEF Counted
  <2> QED BY <2>4, <2>5
\* Only presences change, and none goes.
<1>3. ASSUME UNCHANGED <<room, count>>,
             \A n \in Nodes, u \in Users :
               presence[n][u] # Absent => presence'[n][u] # Absent
      PROVE  MembersCounted'
  BY <1>3 DEF MembersCounted, SocketsOf
<1>4. ASSUME NEW s \in Sockets, UpdatePresence(s) PROVE MembersCounted'
  <2>1. Head(inbox[s]).selection \in 0..MaxSelection
    BY <1>4, TakesFacts, MessageFields DEF UpdatePresence, Takes
  <2>2. presence' = [presence EXCEPT ![node[s]][UserOf[s]] = Head(inbox[s]).selection]
        /\ UNCHANGED <<room, count>>
    BY <1>4 DEF UpdatePresence
  <2>3. node[s] \in Nodes /\ UserOf[s] \in Users
    BY <1>4, HasNode, UserIsKnown DEF UpdatePresence, Takes
  <2>4. Head(inbox[s]).selection # Absent
    BY <2>1, RoomPresenceAssumption DEF Absent, RoomPresenceAssumption
  <2>5. \A n \in Nodes, u \in Users :
          presence[n][u] # Absent => presence'[n][u] # Absent
    BY <2>2, <2>3, <2>4 DEF TypeOK, Presences
  <2> QED BY <1>3, <2>2, <2>5
<1>5. ASSUME NEW n \in Nodes, ReceiveState(n) PROVE MembersCounted'
  <2>1. UNCHANGED <<room, count>>
    BY <1>5 DEF ReceiveState
  <2>2. \A m \in Nodes, u \in Users :
          presence[m][u] # Absent => presence'[m][u] # Absent
    BY <1>5 DEF ReceiveState, TypeOK, Presences
  <2> QED BY <1>3, <2>1, <2>2
<1>6. ASSUME NEW n \in Nodes, Restart(n) PROVE MembersCounted'
  <2>1. /\ room' = [room EXCEPT ![n] = {}]
        /\ count' = [count EXCEPT ![n] = [u \in Users |-> 0]]
        /\ presence' = [presence EXCEPT ![n] = Empty]
    BY <1>6 DEF Restart
  <2> SUFFICES ASSUME NEW m \in Nodes, NEW u \in Users PROVE Counted(m, u)'
    BY DEF MembersCounted, Counted
  <2>2. CASE m = n
    <3>1. SocketsOf(m, u)' = {} /\ count'[m][u] = 0
      BY <2>1, <2>2 DEF SocketsOf, TypeOK
    <3> QED BY <3>1, FS_EmptySet DEF Counted
  <2>3. CASE m # n
    <3>1. room'[m] = room[m] /\ count'[m] = count[m] /\ presence'[m] = presence[m]
      BY <2>1, <2>3 DEF TypeOK
    <3> QED BY <1>0, <3>1 DEF Counted, SocketsOf
  <2> QED BY <2>2, <2>3
<1>7. ASSUME UNCHANGED members PROVE MembersCounted'
  BY <1>3, <1>7 DEF members
<1>8. ASSUME NEW s \in Sockets,
             \/ \E n \in Nodes : Connect(s, n)
             \/ SendPresence(s) \/ SendVoice(s) \/ RefuseJoin(s)
             \/ UpdateVoice(s) \/ CloseUnjoined(s)
      PROVE  MembersCounted'
  BY <1>7, <1>8 DEF Connect, SendPresence, SendVoice, RefuseJoin, UpdateVoice, CloseUnjoined
<1>9. ASSUME NEW n \in Nodes, Fire(n) \/ ReceiveVoice(n) PROVE MembersCounted'
  BY <1>7, <1>9 DEF Fire, ReceiveVoice
<1>10. CASE UNCHANGED vars
  BY <1>7, <1>10 DEF vars
<1> QED BY <1>1, <1>2, <1>4, <1>5, <1>6, <1>8, <1>9, <1>10 DEF Next, Socket, Node

\* The participants of a node are counted by their sockets, and while one is
\* there the user is in the list of presences.
THEOREM MembersAreCounted == Spec => []MembersCounted
<1>1. Init => MembersCounted
  <2> SUFFICES ASSUME Init, NEW n \in Nodes, NEW u \in Users PROVE Counted(n, u)
    BY DEF MembersCounted, Counted
  <2>1. SocketsOf(n, u) = {} /\ count[n][u] = 0
    BY DEF Init, SocketsOf
  <2> QED BY <2>1, FS_EmptySet DEF Counted
<1>2. PresenceInv /\ MembersCounted /\ [Next]_vars => MembersCounted'
  BY CountedStep DEF PresenceInv
<1> QED BY <1>1, <1>2, PresenceTypeCorrect, PTL DEF Spec

-----------------------------------------------------------------------------
(* What the pages show. *)

\* A socket is heard of by one node only.
LEMMA OneNode ==
  ASSUME SocketsKnown, NEW s \in Sockets, NEW n \in Nodes, s \in Listeners(n)
  PROVE  node[s] = n /\ s \in open /\ s \in current /\ s \in room[n]
BY DEF SocketsKnown, AtHome, Listeners

ShowsNode(s, n) == view[s] = presence[n]

LEMMA ViewsStep ==
  ASSUME TypeOK, SocketsKnown, ViewsCurrent, [Next]_vars
  PROVE  ViewsCurrent'
<1>0. /\ ViewsCurrent <=> \A n \in Nodes \ pending : \A s \in Listeners(n) : ShowsNode(s, n)
      /\ \A n \in Nodes : Listeners(n) \subseteq Sockets
  BY DEF ViewsCurrent, ShowsNode, Listeners, TypeOK
\* Nobody new listens, and what a page shows changes with its node only.
<1>1. ASSUME TypeOK', pending \subseteq pending',
             \A n \in Nodes : Listeners(n)' \subseteq Listeners(n),
             \A n \in Nodes \ pending' : presence'[n] = presence[n],
             \A n \in Nodes : \A s \in Listeners(n)' : view'[s] = view[s]
      PROVE  ViewsCurrent'
  <2> SUFFICES ASSUME NEW n \in Nodes \ pending', NEW s \in Listeners(n)'
               PROVE  view'[s] = presence'[n]
    BY DEF ViewsCurrent
  <2>1. n \in Nodes \ pending /\ s \in Listeners(n)
    BY <1>1
  <2> QED BY <1>1, <2>1 DEF ViewsCurrent
<1>2. TypeOK'
  BY TypeStep
<1>3. ASSUME NEW s \in Sockets, NEW n \in Nodes, Connect(s, n) PROVE ViewsCurrent'
  <2>1. s \notin current /\ open' = open \cup {s} /\ UNCHANGED <<members, pending, pages>>
    BY <1>3 DEF Connect, SocketsKnown, UnopenedIdle
  <2>2. \A m \in Nodes : s \notin room[m]
    BY <2>1 DEF SocketsKnown, AtHome
  <2>3. \A m \in Nodes : Listeners(m)' = Listeners(m)
    BY <2>1, <2>2 DEF Listeners, members
  <2> QED BY <1>1, <1>2, <2>1, <2>3 DEF members, pages
<1>4. ASSUME NEW s \in Sockets, Join(s) PROVE ViewsCurrent'
  <2>1. \A m \in Nodes : room'[m] = IF m = node[s] THEN room[m] \cup {s} ELSE room[m]
    BY <1>4, JoinFacts
  <2>2. \A m \in Nodes, v \in Users :
          presence'[m][v] = IF m = node[s] /\ v = UserOf[s] /\ count[m][v] = 0
                            THEN 0 ELSE presence[m][v]
    BY <1>4, JoinFacts
  <2>3. \A t \in Sockets :
          view'[t] = IF t = s /\ s \in open THEN presence'[node[s]] ELSE view[t]
    BY <1>4, JoinFacts
  <2>4. open' = open /\ pending' = pending \cup {node[s]}
    BY <1>4 DEF Join
  <2> SUFFICES ASSUME NEW n \in Nodes \ pending', NEW t \in Listeners(n)'
               PROVE  view'[t] = presence'[n]
    BY DEF ViewsCurrent
  <2>5. n # node[s] /\ n \in Nodes \ pending
    BY <2>4
  <2>6. t \in Listeners(n)
    BY <2>1, <2>4, <2>5 DEF Listeners
  <2>7. t # s
    BY <2>5, <2>6, <1>0, OneNode
  <2>8. view'[t] = view[t]
    BY <2>3, <2>6, <2>7, <1>0
  <2>9. presence'[n] = presence[n]
    <3>1. presence'[n] \in [Users -> Absent..MaxSelection]
          /\ presence[n] \in [Users -> Absent..MaxSelection]
      BY <1>2 DEF TypeOK, Presences
    <3>2. \A v \in Users : presence'[n][v] = presence[n][v]
      BY <2>2, <2>5
    <3> QED BY <3>1, <3>2
  <2> QED BY <2>5, <2>6, <2>8, <2>9 DEF ViewsCurrent
<1>5. ASSUME NEW s \in Sockets, UpdatePresence(s) PROVE ViewsCurrent'
  <2>1. /\ pending' = pending \cup {node[s]} /\ UNCHANGED <<sockets, room, pages>>
        /\ presence' = [presence EXCEPT ![node[s]][UserOf[s]] = Head(inbox[s]).selection]
    BY <1>5 DEF UpdatePresence
  <2>2. \A n \in Nodes \ pending' : presence'[n] = presence[n]
    BY <2>1 DEF TypeOK
  <2>3. \A n \in Nodes : Listeners(n)' = Listeners(n)
    BY <2>1 DEF Listeners, sockets
  <2> QED BY <1>1, <1>2, <2>1, <2>2, <2>3 DEF pages
<1>6. ASSUME NEW s \in Sockets, CloseJoined(s) PROVE ViewsCurrent'
  <2>1. node[s] \in Nodes
    BY <1>6, HasNode DEF CloseJoined
  <2>2. /\ open' = open \ {s}
        /\ room' = [room EXCEPT ![node[s]] = room[node[s]] \ {s}]
        /\ PagesGone({s})
    BY <1>6 DEF CloseJoined
  <2>3. \A n \in Nodes : room'[n] \subseteq room[n]
    BY <2>1, <2>2 DEF TypeOK
  <2>4. \A n \in Nodes : Listeners(n)' \subseteq Listeners(n) \ {s}
    BY <2>2, <2>3 DEF Listeners
  <2>5. \A n \in Nodes : \A t \in Listeners(n)' : view'[t] = view[t]
    BY <2>2, <2>4, <1>0, GoneFacts
  <2>6. /\ pending \subseteq pending'
        /\ \A n \in Nodes \ pending' : presence'[n] = presence[n]
    <3>1. CASE LeavesWithLast(node[s], UserOf[s])
      <4>1. /\ presence' = [presence EXCEPT ![node[s]][UserOf[s]] = Absent]
            /\ pending' = pending \cup {node[s]}
        BY <1>6, <3>1 DEF CloseJoined, Removed
      <4> QED BY <4>1 DEF TypeOK
    <3>2. CASE ~LeavesWithLast(node[s], UserOf[s])
      BY <1>6, <3>2 DEF CloseJoined
    <3> QED BY <3>1, <3>2
  <2> QED BY <1>1, <1>2, <2>4, <2>5, <2>6
<1>7. ASSUME NEW s \in Sockets, CloseUnjoined(s) PROVE ViewsCurrent'
  <2>1. open' = open \ {s} /\ PagesGone({s}) /\ UNCHANGED <<members, pending>>
    BY <1>7 DEF CloseUnjoined
  <2>2. \A n \in Nodes : Listeners(n)' \subseteq Listeners(n) \ {s}
    BY <2>1 DEF Listeners, members
  <2>3. \A n \in Nodes : \A t \in Listeners(n)' : view'[t] = view[t]
    BY <2>1, <2>2, <1>0, GoneFacts
  <2> QED BY <1>1, <1>2, <2>1, <2>2, <2>3 DEF members
\* The pages of a node are shown what it has now.
<1>8. ASSUME NEW n \in Nodes, NEW presences \in Presences, presence'[n] = presences,
             \A m \in Nodes \ {n} : presence'[m] = presence[m],
             ShowTo(Listeners(n), presences), pending \ {n} \subseteq pending',
             UNCHANGED <<sockets, room>>
      PROVE  ViewsCurrent'
  <2> SUFFICES ASSUME NEW m \in Nodes \ pending', NEW s \in Listeners(m)'
               PROVE  view'[s] = presence'[m]
    BY DEF ViewsCurrent
  <2>1. s \in Listeners(m) /\ s \in Sockets
    BY <1>0, <1>8 DEF Listeners, sockets
  <2>2. view'[s] = IF s \in Listeners(n) THEN presences ELSE view[s]
    BY <1>8, <2>1, ShowToFacts
  <2>3. CASE m = n
    BY <1>8, <2>1, <2>2, <2>3
  <2>4. CASE m # n
    <3>1. s \notin Listeners(n)
      BY <2>1, <2>4, OneNode
    <3>2. m \in Nodes \ pending
      BY <1>8, <2>4
    <3> QED BY <1>8, <2>1, <2>2, <2>4, <3>1, <3>2 DEF ViewsCurrent
  <2> QED BY <2>3, <2>4
<1>9. ASSUME NEW n \in Nodes, Fire(n) PROVE ViewsCurrent'
  <2>1. presence[n] \in Presences
    BY DEF TypeOK
  <2> QED BY <1>8, <1>9, <2>1 DEF Fire, members
<1>10. ASSUME NEW n \in Nodes, ReceiveState(n) PROVE ViewsCurrent'
  <2>1. /\ ShowTo(Listeners(n), presence'[n])
        /\ UNCHANGED <<sockets, room, pending>>
        /\ \A m \in Nodes \ {n} : presence'[m] = presence[m]
    BY <1>10 DEF ReceiveState, TypeOK
  <2>2. presence'[n] \in Presences
    BY <1>2 DEF TypeOK
  <2> DEFINE shown == presence'[n]
  <2>3. shown \in Presences /\ presence'[n] = shown /\ ShowTo(Listeners(n), shown)
    BY <2>1, <2>2
  <2> HIDE DEF shown
  <2> QED BY <1>8, <2>1, <2>3
<1>11. ASSUME NEW n \in Nodes, Restart(n) PROVE ViewsCurrent'
  <2> DEFINE own == {s \in Sockets : node[s] = n}
  <2>1. /\ open' = open \ own /\ room' = [room EXCEPT ![n] = {}]
        /\ presence' = [presence EXCEPT ![n] = Empty] /\ pending' = pending \ {n}
        /\ PagesGone(own)
    BY <1>11 DEF Restart
  <2>2. room'[n] = {} /\ \A m \in Nodes \ {n} : room'[m] = room[m] /\ presence'[m] = presence[m]
    BY <2>1 DEF TypeOK
  <2> SUFFICES ASSUME NEW m \in Nodes \ pending', NEW s \in Listeners(m)'
               PROVE  view'[s] = presence'[m]
    BY DEF ViewsCurrent
  <2>3. m # n /\ s \in Listeners(m) /\ m \in Nodes \ pending
    BY <2>1, <2>2 DEF Listeners
  <2>4. s \notin own
    BY <2>3, <1>0, OneNode
  <2>5. view'[s] = view[s]
    BY <2>1, <2>3, <2>4, <1>0, GoneFacts
  <2> QED BY <2>2, <2>3, <2>5 DEF ViewsCurrent
<1>12. ASSUME UNCHANGED <<sockets, members, pending, view>> PROVE ViewsCurrent'
  BY <1>12 DEF ViewsCurrent, Listeners, sockets, members
<1>13. ASSUME NEW s \in Sockets,
              SendPresence(s) \/ SendVoice(s) \/ RefuseJoin(s) \/ UpdateVoice(s)
       PROVE  ViewsCurrent'
  BY <1>12, <1>13 DEF SendPresence, SendVoice, RefuseJoin, UpdateVoice, pages
<1>14. ASSUME NEW n \in Nodes, ReceiveVoice(n) PROVE ViewsCurrent'
  BY <1>12, <1>14 DEF ReceiveVoice
<1>15. CASE UNCHANGED vars
  BY <1>12, <1>15 DEF vars, pages
<1> QED BY <1>3, <1>4, <1>5, <1>6, <1>7, <1>9, <1>10, <1>11, <1>13, <1>14, <1>15
        DEF Next, Socket, Node

\* Where no broadcast is pending, every page of the node shows what it has.
THEOREM ViewsAreCurrent == Spec => []ViewsCurrent
<1>1. Init => ViewsCurrent
  BY DEF Init, ViewsCurrent, Listeners
<1>2. PresenceInv /\ ViewsCurrent /\ [Next]_vars => ViewsCurrent'
  BY ViewsStep DEF PresenceInv
<1> QED BY <1>1, <1>2, PresenceTypeCorrect, PTL DEF Spec

-----------------------------------------------------------------------------
(* The call: a page that listens knows the participants its node knows,    *)
(* and a page that does not listen knows none.                             *)

Listens(s) == s \in open /\ s \in room[node[s]]
Hears(s) == heard[s] = IF Listens(s) THEN voice[node[s]] \ {UserOf[s]} ELSE {}
CallInv == \A s \in Sockets : Hears(s)

LEMMA ListenersListen ==
  ASSUME TypeOK, SocketsKnown, NEW s \in Sockets, NEW n \in Nodes
  PROVE  s \in Listeners(n) <=> Listens(s) /\ node[s] = n
BY OneNode DEF Listens, Listeners

LEMMA CallTold ==
  ASSUME TypeOK, SocketsKnown, CallInv, UNCHANGED <<sockets, room>>,
         NEW n \in Nodes, NEW u \in Users, NEW on \in BOOLEAN,
         voice' = [voice EXCEPT ![n] = With(voice[n], u, on)],
         NEW told, TellTo(told, u, on), told \subseteq Listeners(n),
         \A s \in Listeners(n) \ told : UserOf[s] = u
  PROVE  CallInv'
<1> SUFFICES ASSUME NEW s \in Sockets PROVE Hears(s)'
  BY DEF CallInv
<1>1. Listens(s)' = Listens(s) /\ node' = node
  BY DEF Listens, sockets
<1>2. Hears(s)
  BY DEF CallInv
<1>3. heard'[s] = IF s \in told /\ UserOf[s] # u THEN With(heard[s], u, on) ELSE heard[s]
  BY TellToFacts
<1>4. s \in Listeners(n) <=> Listens(s) /\ node[s] = n
  BY ListenersListen
<1>5. CASE s \in Listeners(n)
  <2>1. voice'[n] = With(voice[n], u, on)
    BY DEF TypeOK
  <2>2. heard[s] = voice[n] \ {UserOf[s]}
    BY <1>2, <1>4, <1>5 DEF Hears
  <2>3. heard'[s] = voice'[n] \ {UserOf[s]}
    <3>1. CASE UserOf[s] = u
      BY <1>3, <2>1, <2>2, <3>1 DEF With
    <3>2. CASE UserOf[s] # u
      BY <1>3, <1>5, <2>1, <2>2, <3>2 DEF With
    <3> QED BY <3>1, <3>2
  <2> QED BY <1>1, <1>4, <1>5, <2>3 DEF Hears
<1>6. CASE s \notin Listeners(n)
  <2>1. heard'[s] = heard[s]
    BY <1>3, <1>6
  <2>2. Listens(s) => voice'[node[s]] = voice[node[s]]
    BY <1>4, <1>6 DEF TypeOK
  <2> QED BY <1>1, <1>2, <2>1, <2>2 DEF Hears
<1> QED BY <1>5, <1>6

LEMMA CallStep ==
  ASSUME TypeOK, SocketsKnown, CallInv, [Next]_vars
  PROVE  CallInv'
<1>1. ASSUME NEW s \in Sockets, NEW n \in Nodes, Connect(s, n) PROVE CallInv'
  <2>1. /\ node[s] = NoNode /\ node' = [node EXCEPT ![s] = n]
        /\ open' = open \cup {s} /\ UNCHANGED <<room, voice, heard>>
    BY <1>1 DEF Connect, members, pages
  <2>2. s \notin open /\ s \notin current
    BY <2>1 DEF SocketsKnown, UnopenedIdle
  <2> SUFFICES ASSUME NEW t \in Sockets PROVE Hears(t)'
    BY DEF CallInv
  <2>3. Hears(t)
    BY DEF CallInv
  <2>4. CASE t = s
    <3>1. node'[t] = n
      BY <2>1, <2>4 DEF TypeOK
    <3>2. ~Listens(t)'
      BY <2>1, <2>2, <2>4, <3>1 DEF Listens, SocketsKnown, AtHome
    <3>3. heard[t] = {}
      BY <2>2, <2>3, <2>4 DEF Hears, Listens
    <3> QED BY <2>1, <3>2, <3>3 DEF Hears
  <2>5. CASE t # s
    <3>1. node'[t] = node[t] /\ Listens(t)' = Listens(t)
      BY <2>1, <2>5 DEF Listens, TypeOK
    <3> QED BY <2>1, <2>3, <3>1 DEF Hears
  <2> QED BY <2>4, <2>5
<1>2. ASSUME NEW s \in Sockets, Join(s) PROVE CallInv'
  <2>1. \A m \in Nodes : room'[m] = IF m = node[s] THEN room[m] \cup {s} ELSE room[m]
    BY <1>2, JoinFacts
  <2>2. \A t \in Sockets :
          heard'[t] = IF t = s /\ s \in open
                      THEN heard[s] \cup (voice[node[s]] \ {UserOf[s]}) ELSE heard[t]
    BY <1>2, JoinFacts
  <2>3. node[s] \in Nodes
    BY <1>2, JoinFacts
  <2>4. UNCHANGED <<node, open, voice>>
    BY <1>2 DEF Join
  <2>5. \A m \in Nodes : s \notin room[m]
    BY <1>2, JoinsFresh DEF Join
  <2> SUFFICES ASSUME NEW t \in Sockets PROVE Hears(t)'
    BY DEF CallInv
  <2>6. Hears(t)
    BY DEF CallInv
  <2>7. CASE t = s
    <3>1. heard[t] = {}
      BY <2>3, <2>5, <2>6, <2>7 DEF Hears, Listens
    <3>2. Listens(t)' <=> t \in open
      BY <2>1, <2>3, <2>4, <2>7 DEF Listens
    <3> QED BY <2>2, <2>4, <2>7, <3>1, <3>2 DEF Hears
  <2>8. CASE t # s
    <3>1. t \in open => node[t] \in Nodes
      BY HasNode
    <3>2. Listens(t)' <=> Listens(t)
      BY <2>1, <2>4, <2>8, <3>1 DEF Listens
    <3>3. heard'[t] = heard[t]
      BY <2>2, <2>8
    <3> QED BY <2>4, <2>6, <3>2, <3>3 DEF Hears
  <2> QED BY <2>7, <2>8
<1>3. ASSUME NEW s \in Sockets, UpdateVoice(s) PROVE CallInv'
  <2> DEFINE n == node[s]
             u == UserOf[s]
             on == Head(inbox[s]).on
             told == Listeners(n) \ {s}
  <2>1. n \in Nodes /\ u \in Users
    BY <1>3, HasNode, UserIsKnown DEF UpdateVoice, Takes
  <2>2. on \in BOOLEAN
    BY <1>3, TakesFacts, MessageFields DEF UpdateVoice, Takes
  <2>3. /\ voice' = [voice EXCEPT ![n] = With(voice[n], u, on)]
        /\ TellTo(told, u, on)
        /\ UNCHANGED <<sockets, room>>
    BY <1>3 DEF UpdateVoice, members
  <2>4. told \subseteq Listeners(n) /\ \A t \in Listeners(n) \ told : UserOf[t] = u
    OBVIOUS
  <2> HIDE DEF n, u, on, told
  <2> QED BY <2>1, <2>2, <2>3, <2>4, CallTold
<1>4. ASSUME NEW n \in Nodes, ReceiveVoice(n) PROVE CallInv'
  <2> DEFINE u == Head(channel[n]).user
             on == Head(channel[n]).on
             told == Listeners(n)
  <2>1. u \in Users /\ on \in BOOLEAN
    BY <1>4, ReceivedFacts, EventFields DEF ReceiveVoice
  <2>2. /\ voice' = [voice EXCEPT ![n] = With(voice[n], u, on)]
        /\ TellTo(told, u, on)
        /\ UNCHANGED <<sockets, room>>
    BY <1>4 DEF ReceiveVoice, members
  <2>3. told \subseteq Listeners(n) /\ \A t \in Listeners(n) \ told : UserOf[t] = u
    OBVIOUS
  <2> HIDE DEF u, on, told
  <2> QED BY <2>1, <2>2, <2>3, CallTold
<1>5. ASSUME NEW s \in Sockets, CloseJoined(s) PROVE CallInv'
  <2> DEFINE n == node[s]
             u == UserOf[s]
  <2>1. n \in Nodes /\ u \in Users
    BY <1>5, HasNode, UserIsKnown DEF CloseJoined
  <2>2. /\ open' = open \ {s} /\ node' = node
        /\ room' = [room EXCEPT ![n] = room[n] \ {s}]
    BY <1>5 DEF CloseJoined
  <2>3. \A t \in Sockets \ {s} : Listens(t)' <=> Listens(t)
    BY <2>2, HasNode DEF Listens, TypeOK
  <2>4. ~Listens(s)'
    BY <2>2 DEF Listens
  <2>5. CASE LeavesWithLast(n, u)
    <3>1. HangUp(s, n, u)
      BY <1>5, <2>5 DEF CloseJoined
    <3>2. \A m \in Nodes : voice'[m] = IF m = n THEN voice[m] \ {u} ELSE voice[m]
      <4>1. Left(n, u)
        BY <2>1, <3>1, HangUpFacts
      <4> QED BY <4>1 DEF Left
    <3>3. heard'[s] = {}
      BY <2>1, <3>1, HangUpFacts
    <3>4. \A t \in Sockets \ {s} :
            heard'[t] = IF t \in Listeners(n) THEN heard[t] \ (voice[n] \cap {u})
                        ELSE heard[t]
      <4>1. HeardLeave(s, n, u)
        BY <2>1, <3>1, HangUpFacts
      <4> QED BY <4>1 DEF HeardLeave
    <3> SUFFICES ASSUME NEW t \in Sockets PROVE Hears(t)'
      BY DEF CallInv
    <3>5. CASE t = s
      BY <2>4, <3>3, <3>5 DEF Hears
    <3>6. CASE t # s
      <4>1. Hears(t)
        BY DEF CallInv
      <4>2. t \in Listeners(n) <=> Listens(t) /\ node[t] = n
        BY <2>1, ListenersListen
      <4>3. Listens(t) => node[t] \in Nodes
        BY HasNode DEF Listens
      <4>4. CASE t \in Listeners(n)
        <5>1. heard[t] = voice[n] \ {UserOf[t]} /\ node[t] = n /\ Listens(t)
          BY <4>1, <4>2, <4>4 DEF Hears
        <5>2. heard'[t] = heard[t] \ (voice[n] \cap {u})
          BY <3>4, <3>6, <4>4
        <5>3. voice'[n] = voice[n] \ {u}
          BY <2>1, <3>2
        <5>4. heard'[t] = voice'[n] \ {UserOf[t]}
          BY <5>1, <5>2, <5>3
        <5>5. Listens(t)' /\ node'[t] = n
          BY <2>2, <2>3, <3>6, <5>1
        <5> HIDE DEF n
        <5> QED BY <5>4, <5>5 DEF Hears
      <4>5. CASE t \notin Listeners(n)
        <5>1. heard'[t] = heard[t]
          BY <3>4, <3>6, <4>5
        <5>2. Listens(t) => voice'[node[t]] = voice[node[t]]
          BY <3>2, <4>2, <4>3, <4>5
        <5>3. Listens(t)' <=> Listens(t)
          BY <2>3, <3>6
        <5> QED BY <2>2, <4>1, <5>1, <5>2, <5>3 DEF Hears
      <4> QED BY <4>4, <4>5
    <3> QED BY <3>5, <3>6
  <2>6. CASE ~LeavesWithLast(n, u)
    <3>1. Forgotten({s}) /\ voice' = voice
      BY <1>5, <2>6 DEF CloseJoined
    <3>2. \A t \in Sockets : heard'[t] = IF t \in {s} THEN {} ELSE heard[t]
      BY <3>1, ForgottenFacts
    <3> QED BY <2>2, <2>3, <2>4, <3>1, <3>2 DEF CallInv, Hears
  <2> QED BY <2>5, <2>6
<1>6. ASSUME NEW s \in Sockets, CloseUnjoined(s) PROVE CallInv'
  <2>1. open' = open \ {s} /\ Forgotten({s}) /\ UNCHANGED <<node, room, voice>>
    BY <1>6 DEF CloseUnjoined, members
  <2>2. \A t \in Sockets : heard'[t] = IF t \in {s} THEN {} ELSE heard[t]
    BY <2>1, ForgottenFacts
  <2>3. \A t \in Sockets \ {s} : Listens(t)' <=> Listens(t)
    BY <2>1 DEF Listens
  <2>4. ~Listens(s)'
    BY <2>1 DEF Listens
  <2> QED BY <2>1, <2>2, <2>3, <2>4 DEF CallInv, Hears
<1>7. ASSUME NEW n \in Nodes, Restart(n) PROVE CallInv'
  <2> DEFINE own == {s \in Sockets : node[s] = n}
  <2>1. /\ open' = open \ own /\ room' = [room EXCEPT ![n] = {}]
        /\ voice' = [voice EXCEPT ![n] = {}] /\ Forgotten(own) /\ node' = node
    BY <1>7 DEF Restart
  <2>2. \A t \in Sockets : heard'[t] = IF t \in own THEN {} ELSE heard[t]
    BY <2>1, ForgottenFacts
  <2> SUFFICES ASSUME NEW t \in Sockets PROVE Hears(t)'
    BY DEF CallInv
  <2>3. CASE t \in own
    BY <2>1, <2>2, <2>3 DEF Hears, Listens
  <2>4. CASE t \notin own
    <3>1. node[t] # n /\ heard'[t] = heard[t]
      BY <2>2, <2>4
    <3>2. t \in open => node[t] \in Nodes
      BY HasNode
    <3>3. Listens(t)' <=> Listens(t)
      BY <2>1, <2>4, <3>1, <3>2 DEF Listens, TypeOK
    <3>4. Listens(t) => voice'[node[t]] = voice[node[t]]
      BY <2>1, <3>1, <3>2 DEF Listens, TypeOK
    <3>5. Hears(t)
      BY DEF CallInv
    <3> QED BY <2>1, <3>1, <3>3, <3>4, <3>5 DEF Hears
  <2> QED BY <2>3, <2>4
<1>8. ASSUME UNCHANGED <<sockets, room, voice, heard>> PROVE CallInv'
  BY <1>8 DEF CallInv, Hears, Listens, sockets
<1>9. ASSUME NEW s \in Sockets,
             SendPresence(s) \/ SendVoice(s) \/ RefuseJoin(s) \/ UpdatePresence(s)
      PROVE  CallInv'
  BY <1>8, <1>9 DEF SendPresence, SendVoice, RefuseJoin, UpdatePresence, members, pages
<1>10. ASSUME NEW n \in Nodes, Fire(n) \/ ReceiveState(n) PROVE CallInv'
  BY <1>8, <1>10 DEF Fire, ReceiveState, members
<1>11. CASE UNCHANGED vars
  BY <1>8, <1>11 DEF vars, members, pages
<1> QED BY <1>1, <1>2, <1>3, <1>4, <1>5, <1>6, <1>7, <1>9, <1>10, <1>11
        DEF Next, Socket, Node

\* Every page of a node knows exactly the participants of the call its node
\* knows, whether it joined before or after they did.
THEOREM CallIsKnown == Spec => []CallKnown
<1>1. Init => CallInv
  BY DEF Init, CallInv, Hears, Listens
<1>2. PresenceInv /\ CallInv /\ [Next]_vars => CallInv'
  BY CallStep DEF PresenceInv
<1>3. PresenceInv /\ CallInv => CallKnown
  <2> SUFFICES ASSUME PresenceInv, CallInv, NEW n \in Nodes, NEW s \in Listeners(n)
               PROVE  heard[s] = voice[n] \ {UserOf[s]}
    BY DEF CallKnown
  <2>1. TypeOK /\ SocketsKnown /\ s \in Sockets
    BY DEF PresenceInv, TypeOK, Listeners
  <2>2. Listens(s) /\ node[s] = n
    BY <2>1, ListenersListen
  <2> QED BY <2>1, <2>2 DEF CallInv, Hears
<1> QED BY <1>1, <1>2, <1>3, PresenceTypeCorrect, PTL DEF Spec

-----------------------------------------------------------------------------
(* The questions to the AI: what a step does to the queue, what one does   *)
(* to the page, and what both leave in range.                              *)

Stage == {"result", "failure"}
MovesOn(h, stage) ==
  /\ running' = (running \ {h}) \cup {[h EXCEPT !.stage = stage]}
  /\ UNCHANGED <<ready, connection, faults, history>>

QueueStep ==
  \/ UNCHANGED queueVars
  \/ \E j \in Jobs : Enqueue(j)
  \/ \E h \in running, stage \in Stage : MovesOn(h, stage)
  \/ \E h \in running : Acknowledge(h) \/ AcknowledgeFails(h)
  \/ \E stage \in Stage : Deliver(stage)
  \/ Disconnect \/ Reconnect \/ Crash

\* Where the handler of a post, of an answer or of a failure goes.
LEMMA HandlerGoes ==
  ASSUME NEW h \in running, NEW left, Goes(h, left)
  PROVE  QueueStep
<1>1. ASSUME Finish(h, left) PROVE QueueStep
  BY <1>1 DEF Finish, QueueStep
<1>2. CASE MovesOn(h, "failure")
  BY <1>2 DEF Stage, QueueStep
<1> QED BY <1>1, <1>2 DEF Goes, Throws, MovesOn

LEMMA StepsOfQueue == ASSUME [AiNext]_aiVars PROVE QueueStep
<1>1. ASSUME NEW j \in Jobs, Page(j) PROVE QueueStep
  BY <1>1 DEF Page, Generate, Ask, OpenQuestion, Image, ImageChosen, ImageReady, ImageUnreadable,
              Accepted, Refused, Answered, Polled, PollFails, QueueStep
<1>2. ASSUME NEW j \in Jobs, Backend(j) PROVE QueueStep
  <2>1. CASE PublishJob(j) \/ PublishUnconfirmed(j)
    BY <2>1 DEF PublishJob, PublishUnconfirmed, QueueStep
  <2>2. CASE StoreEntry(j) \/ PublishFails(j) \/ Expire(j)
    BY <2>2 DEF StoreEntry, PublishFails, Expire, QueueStep
  <2> QED BY <1>2, <2>1, <2>2 DEF Backend
<1>3. CASE Reload
  BY <1>3 DEF Reload, QueueStep
<1>4. ASSUME NEW h \in running, Unfound(h) \/ PostFails(h) PROVE QueueStep
  <2>1. \E left : Goes(h, left)
    BY <1>4 DEF Unfound, PostFails, Goes
  <2> QED BY <2>1, HandlerGoes
<1>5. ASSUME NEW p \in posts, Receive(p) PROVE QueueStep
  <2>1. CASE UNCHANGED queueVars
    BY <2>1 DEF QueueStep
  <2>2. CASE \E h \in running : Goes(h, posts \ {p})
    BY <2>2, HandlerGoes
  <2> QED BY <1>5, <2>1, <2>2 DEF Receive
<1>6. CASE Compute \/ Faults
  BY <1>6 DEF Compute, Faults, Stage, QueueStep
<1>7. CASE UNCHANGED aiVars
  BY <1>7 DEF aiVars, QueueStep
<1> QED BY <1>1, <1>2, <1>3, <1>4, <1>5, <1>6, <1>7 DEF AiNext, Worker

\* A sequence without one of its elements.
LEMMA WithoutOne ==
  ASSUME NEW S, NEW seq \in Seq(S), NEW n \in 1..Len(seq), NEW rest,
         rest = SubSeq(seq, 1, n - 1) \o SubSeq(seq, n + 1, Len(seq))
  PROVE  /\ rest \in Seq(S) /\ Len(rest) = Len(seq) - 1
         /\ \A i \in 1..Len(rest) : rest[i] = seq[IF i < n THEN i ELSE i + 1]
<1>1. /\ SubSeq(seq, 1, n - 1) \in Seq(S) /\ Len(SubSeq(seq, 1, n - 1)) = n - 1
      /\ \A i \in 1..(n - 1) : SubSeq(seq, 1, n - 1)[i] = seq[i]
  BY SubSeqProperties
<1>2. /\ SubSeq(seq, n + 1, Len(seq)) \in Seq(S)
      /\ Len(SubSeq(seq, n + 1, Len(seq))) = Len(seq) - n
      /\ \A i \in 1..(Len(seq) - n) : SubSeq(seq, n + 1, Len(seq))[i] = seq[n + i]
  BY SubSeqProperties
<1> DEFINE before == SubSeq(seq, 1, n - 1)
           after == SubSeq(seq, n + 1, Len(seq))
<1> HIDE DEF before, after
<1>3. /\ before \in Seq(S) /\ Len(before) = n - 1
      /\ \A i \in 1..(n - 1) : before[i] = seq[i]
      /\ after \in Seq(S) /\ Len(after) = Len(seq) - n
      /\ \A i \in 1..(Len(seq) - n) : after[i] = seq[n + i]
      /\ rest = before \o after
  BY <1>1, <1>2 DEF before, after
<1>4. /\ rest \in Seq(S) /\ Len(rest) = Len(before) + Len(after)
      /\ \A i \in 1..(Len(before) + Len(after)) :
           rest[i] = IF i <= Len(before) THEN before[i] ELSE after[i - Len(before)]
  <2>1. rest = before \o after /\ before \in Seq(S) /\ after \in Seq(S)
    BY <1>3
  <2>2. before \o after \in Seq(S) /\ Len(before \o after) = Len(before) + Len(after)
    BY <2>1, ConcatProperties
  <2>3. \A i \in 1..Len(before) + Len(after) :
          (before \o after)[i] = IF i <= Len(before) THEN before[i] ELSE after[i - Len(before)]
    BY <2>1, ConcatProperties
  <2> QED BY <2>1, <2>2, <2>3
<1>5. Len(seq) \in Nat /\ n \in Nat /\ 1 <= n /\ n <= Len(seq)
  OBVIOUS
<1>6. Len(rest) = Len(seq) - 1
  <2>1. Len(before) = n - 1 /\ Len(after) = Len(seq) - n /\ Len(rest) = Len(before) + Len(after)
    BY <1>3, <1>4
  <2>2. (n - 1) + (Len(seq) - n) = Len(seq) - 1
    BY <1>5
  <2> QED BY <2>1, <2>2
<1>7. ASSUME NEW i \in 1..Len(rest) PROVE rest[i] = seq[IF i < n THEN i ELSE i + 1]
  <2>1. rest[i] = IF i <= Len(before) THEN before[i] ELSE after[i - Len(before)]
    BY <1>4
  <2>2. CASE i < n
    <3>0. Len(before) = n - 1
      BY <1>3
    <3>1. i <= Len(before) /\ i \in 1..(n - 1)
      <4>1. i \in Nat /\ 1 <= i /\ i <= n - 1
        BY <1>4, <1>5, <2>2
      <4> QED BY <1>5, <3>0, <4>1
    <3>2. rest[i] = before[i] /\ before[i] = seq[i]
      BY <1>3, <2>1, <3>1
    <3> QED BY <2>2, <3>2
  <2>3. CASE ~(i < n)
    <3>1. i - (n - 1) \in 1..(Len(seq) - n) /\ n + (i - (n - 1)) = i + 1
      <4>1. i \in Int /\ i <= Len(seq) - 1 /\ n <= i
        <5>1. i \in 1..(Len(seq) - 1)
          BY <1>6
        <5>2. i \in Nat /\ i <= Len(seq) - 1
          BY <1>5, <5>1
        <5> QED BY <1>5, <2>3, <5>2
      <4>2. i - (n - 1) \in Int /\ 1 <= i - (n - 1) /\ i - (n - 1) <= Len(seq) - n
        BY <1>5, <4>1
      <4>3. n + (i - (n - 1)) = i + 1
        BY <1>5, <4>1
      <4> QED BY <4>2, <4>3
    <3>0. Len(before) = n - 1 /\ ~(i <= n - 1)
      BY <1>3, <1>5, <1>6, <2>3
    <3>2. rest[i] = after[i - (n - 1)]
      BY <2>1, <3>0
    <3>3. after[i - (n - 1)] = seq[n + (i - (n - 1))]
      BY <1>3, <3>1
    <3> QED BY <2>3, <3>1, <3>2, <3>3
  <2> QED BY <2>2, <2>3
<1> QED BY <1>4, <1>6, <1>7

\* What a lost channel gives back.
LEMMA GivenBack ==
  ASSUME QueueTypeOK, ChannelLost
  PROVE  /\ ready' \in Seq(Jobs) /\ unacked' = <<>> /\ consumer' = 0 /\ tags' = 0
         /\ \A n \in DOMAIN unacked : \E k \in DOMAIN ready' : ready'[k] = unacked[n].job
         /\ \A n \in DOMAIN ready : \E k \in DOMAIN ready' : ready'[k] = ready[n]
<1> DEFINE back == [n \in DOMAIN unacked |-> unacked[n].job]
<1>1. unacked \in Seq([tag : 1..tags, job : Jobs]) /\ ready \in Seq(Jobs)
  BY DEF QueueTypeOK
<1>2. DOMAIN unacked = 1..Len(unacked) /\ Len(unacked) \in Nat
  BY <1>1
<1>3. back \in Seq(Jobs) /\ Len(back) = Len(unacked) /\ \A n \in 1..Len(unacked) : back[n] = unacked[n].job
  <2>1. ASSUME NEW n \in 1..Len(unacked) PROVE unacked[n].job \in Jobs
    <3>1. unacked[n] \in [tag : 1..tags, job : Jobs]
      BY <1>1, ElementOfSeq
    <3> QED BY <3>1
  <2>2. back \in [1..Len(unacked) -> Jobs]
    BY <1>2, <2>1
  <2>3. back \in Seq(Jobs)
    BY <1>2, <2>2, SeqDef
  <2> QED BY <1>2, <2>2, <2>3, LenProperties
<1>4. ready' = back \o ready /\ unacked' = <<>> /\ consumer' = 0 /\ tags' = 0
  BY DEF ChannelLost
<1> HIDE DEF back
<1>5. /\ ready' \in Seq(Jobs) /\ Len(ready') = Len(back) + Len(ready)
      /\ \A i \in 1..(Len(back) + Len(ready)) :
           ready'[i] = IF i <= Len(back) THEN back[i] ELSE ready[i - Len(back)]
  BY <1>1, <1>3, <1>4, ConcatProperties
<1>6. Len(ready) \in Nat /\ DOMAIN ready = 1..Len(ready)
      /\ DOMAIN ready' = 1..(Len(unacked) + Len(ready))
  BY <1>1, <1>3, <1>5, LenProperties
<1>7. ASSUME NEW n \in DOMAIN unacked
      PROVE  \E k \in DOMAIN ready' : ready'[k] = unacked[n].job
  <2>1. n \in 1..Len(unacked) /\ n \in DOMAIN ready'
    BY <1>2, <1>6
  <2>2. ready'[n] = back[n]
    BY <1>2, <1>3, <1>5, <1>6, <2>1
  <2> QED BY <1>3, <2>1, <2>2
<1>8. ASSUME NEW n \in DOMAIN ready
      PROVE  \E k \in DOMAIN ready' : ready'[k] = ready[n]
  <2>1. n + Len(unacked) \in DOMAIN ready' /\ (n + Len(unacked)) - Len(back) = n
        /\ ~(n + Len(unacked) <= Len(back))
    BY <1>2, <1>3, <1>6
  <2>2. ready'[n + Len(unacked)] = ready[n]
    BY <1>2, <1>3, <1>5, <1>6, <2>1
  <2> QED BY <2>1, <2>2
<1> QED BY <1>4, <1>5, <1>7, <1>8

\* Without a channel nothing awaits an answer.
Unconnected == consumer = 0 => unacked = <<>> /\ tags = 0
QueueOK == QueueTypeOK /\ running \subseteq Handler /\ Unconnected

LEMMA MovedHandler ==
  ASSUME NEW h \in Handler, NEW stage \in Stage
  PROVE  /\ [h EXCEPT !.stage = stage] \in Handler
         /\ [h EXCEPT !.stage = stage].job = h.job
         /\ [h EXCEPT !.stage = stage].tag = h.tag
BY DEF Handler, Stage

LEMMA QueueTypeStep ==
  ASSUME QueueOK, QueueStep
  PROVE  QueueOK'
<1>0. /\ ready \in Seq(Jobs) /\ consumer \in Nat /\ tags \in Nat
      /\ unacked \in Seq([tag : 1..tags, job : Jobs])
      /\ drops \in 0..MaxFaults /\ ends \in Nat
      /\ published \subseteq Jobs /\ handled \subseteq Jobs
      /\ running \subseteq Handler /\ MaxFaults \in Nat
  BY JobQueueAssumption DEF QueueOK, QueueTypeOK, JobQueueAssumption
<1>u. consumer = 0 => unacked = <<>> /\ tags = 0
  BY DEF QueueOK, Unconnected
<1>1. CASE UNCHANGED queueVars
  BY <1>0, <1>u, <1>1 DEF queueVars, connection, faults, history, QueueOK, QueueTypeOK, Unconnected
<1>2. ASSUME NEW j \in Jobs, Enqueue(j) PROVE QueueOK'
  <2>1. ready' \in Seq(Jobs)
    BY <1>0, <1>u, <1>2 DEF Enqueue
  <2> QED BY <1>0, <1>u, <1>2, <2>1 DEF Enqueue, connection, faults, QueueOK, QueueTypeOK, Unconnected
<1>3. ASSUME NEW h \in running, NEW stage \in Stage, MovesOn(h, stage) PROVE QueueOK'
  <2>1. running' \subseteq Handler
    BY <1>0, <1>u, <1>3, MovedHandler DEF MovesOn
  <2> QED BY <1>0, <1>u, <1>3, <2>1 DEF MovesOn, connection, faults, history, QueueOK, QueueTypeOK, Unconnected
<1>4. ASSUME NEW h \in running, Acknowledge(h) PROVE QueueOK'
  <2>1. PICK n \in DOMAIN unacked :
          unacked' = SubSeq(unacked, 1, n - 1) \o SubSeq(unacked, n + 1, Len(unacked))
    BY <1>4 DEF Acknowledge
  <2>2. n \in 1..Len(unacked)
    BY <1>0
  <2>3. unacked' \in Seq([tag : 1..tags, job : Jobs])
    BY <1>0, <1>u, <2>1, <2>2, WithoutOne
  <2>4. h.job \in Jobs
    BY <1>0 DEF Handler
  <2>5. /\ ready' = ready /\ consumer' = consumer /\ tags' = tags
        /\ drops' = drops /\ ends' = ends /\ published' = published
        /\ running' = running \ {h} /\ handled' = handled \cup {h.job}
    BY <1>4 DEF Acknowledge, faults
  <2>6. QueueTypeOK'
    BY <1>0, <2>3, <2>4, <2>5 DEF QueueTypeOK
  <2>7. running' \subseteq Handler
    BY <1>0, <2>5
  <2>8. consumer # 0
    BY <1>u, <2>2
  <2> QED BY <2>5, <2>6, <2>7, <2>8 DEF QueueOK, Unconnected
<1>5. ASSUME ProcessEnds, handled' \subseteq Jobs, UNCHANGED published PROVE QueueOK'
  <2>1. ready' \in Seq(Jobs) /\ unacked' = <<>> /\ consumer' = 0 /\ tags' = 0
    BY <1>5, GivenBack DEF ProcessEnds, QueueOK
  <2>2. unacked' \in Seq([tag : 1..tags', job : Jobs])
    BY <2>1
  <2>3. running' = {} /\ ends' \in Nat /\ drops' \in 0..MaxFaults
    BY <1>0, <1>u, <1>5 DEF ProcessEnds
  <2> QED BY <1>0, <1>u, <1>5, <2>1, <2>2, <2>3 DEF QueueOK, QueueTypeOK, Unconnected
<1>6. ASSUME NEW h \in running, AcknowledgeFails(h) PROVE QueueOK'
  <2>1. h.job \in Jobs
    BY <1>0 DEF Handler
  <2> QED BY <1>0, <1>u, <1>5, <1>6, <2>1 DEF AcknowledgeFails
<1>7. ASSUME NEW stage \in Stage, Deliver(stage) PROVE QueueOK'
  <2>1. consumer # 0 /\ ready # <<>> /\ ready' = Tail(ready) /\ tags' = tags + 1
        /\ unacked' = Append(unacked, [tag |-> tags', job |-> Head(ready)])
        /\ running' = running \cup {[job |-> Head(ready), tag |-> tags',
                                     channel |-> consumer, stage |-> stage]}
        /\ UNCHANGED <<consumer, faults, history>>
    BY <1>7 DEF Deliver
  <2>2. Head(ready) \in Jobs /\ ready' \in Seq(Jobs) /\ tags' \in Nat
    BY <1>0, <1>u, <2>1
  <2>3. [tag |-> tags', job |-> Head(ready)] \in [tag : 1..tags', job : Jobs]
    BY <1>0, <1>u, <2>1, <2>2
  <2>4. unacked \in Seq([tag : 1..tags', job : Jobs])
    <3>1. 1..tags \subseteq 1..tags'
      BY <1>0, <1>u, <2>1
    <3>2. [tag : 1..tags, job : Jobs] \subseteq [tag : 1..tags', job : Jobs]
      BY <3>1
    <3> DEFINE Old == [tag : 1..tags, job : Jobs]
               New == [tag : 1..tags', job : Jobs]
    <3>3. unacked \in Seq(Old) /\ Old \subseteq New
      BY <1>0, <3>2
    <3> HIDE DEF Old, New
    <3>4. unacked \in Seq(New)
      BY <3>3, SeqMonotonic
    <3> QED BY <3>4 DEF New
  <2>5. unacked' \in Seq([tag : 1..tags', job : Jobs])
    BY <2>1, <2>3, <2>4
  <2>6. [job |-> Head(ready), tag |-> tags', channel |-> consumer, stage |-> stage] \in Handler
    BY <1>0, <1>u, <2>2 DEF Handler, Stage
  <2>7. running' \subseteq Handler
    BY <1>0, <1>u, <2>1, <2>6
  <2> QED BY <1>0, <1>u, <2>1, <2>2, <2>5, <2>7 DEF faults, history, QueueOK, QueueTypeOK, Unconnected
<1>8. CASE Disconnect
  <2>1. ready' \in Seq(Jobs) /\ unacked' = <<>> /\ consumer' = 0 /\ tags' = 0
    BY <1>8, GivenBack DEF Disconnect, QueueOK
  <2>2. unacked' \in Seq([tag : 1..tags', job : Jobs])
    BY <2>1
  <2>3. drops' \in 0..MaxFaults /\ UNCHANGED <<running, ends, history>>
    BY <1>0, <1>u, <1>8 DEF Disconnect
  <2> QED BY <1>0, <1>u, <2>1, <2>2, <2>3 DEF history, QueueOK, QueueTypeOK, Unconnected
<1>9. CASE Reconnect
  <2>1. consumer' \in Nat /\ consumer' # 0 /\ tags' = 0 /\ consumer = 0
        /\ UNCHANGED <<ready, unacked, running, faults, history>>
    BY <1>0, <1>u, <1>9 DEF Reconnect
  <2> QED BY <1>0, <1>u, <2>1 DEF faults, history, QueueOK, QueueTypeOK, Unconnected
<1>10. CASE Crash
  BY <1>0, <1>u, <1>5, <1>10 DEF Crash, history
<1> QED BY <1>1, <1>2, <1>3, <1>4, <1>6, <1>7, <1>8, <1>9, <1>10 DEF QueueStep

LEMMA UnackedWithout ==
  ASSUME QueueTypeOK, NEW n \in DOMAIN unacked,
         unacked' = SubSeq(unacked, 1, n - 1) \o SubSeq(unacked, n + 1, Len(unacked))
  PROVE  /\ Len(unacked) \in Nat /\ n \in 1..Len(unacked)
         /\ DOMAIN unacked = 1..Len(unacked) /\ DOMAIN unacked' = 1..(Len(unacked) - 1)
         /\ \A i \in DOMAIN unacked' : unacked'[i] = unacked[IF i < n THEN i ELSE i + 1]
<1> DEFINE S == [tag : 1..tags, job : Jobs]
           rest == unacked'
<1>1. unacked \in Seq(S) /\ rest = SubSeq(unacked, 1, n - 1) \o SubSeq(unacked, n + 1, Len(unacked))
  BY DEF QueueTypeOK
<1> HIDE DEF S, rest
<1>2. Len(unacked) \in Nat /\ DOMAIN unacked = 1..Len(unacked) /\ n \in 1..Len(unacked)
  BY <1>1
<1>3. rest \in Seq(S) /\ Len(rest) = Len(unacked) - 1
  BY <1>1, <1>2, WithoutOne
<1>4. \A i \in 1..Len(rest) : rest[i] = unacked[IF i < n THEN i ELSE i + 1]
  BY <1>1, <1>2, WithoutOne
<1>5. DOMAIN rest = 1..(Len(unacked) - 1)
  BY <1>3, LenProperties
<1> QED BY <1>2, <1>3, <1>4, <1>5 DEF rest

\* While the connection holds, a handler is of a delivery of this channel, and
\* the tag it will acknowledge with is of its own job or answered already.
RunsItsOwn(h) ==
  h.tag <= tags /\ \A n \in DOMAIN unacked : unacked[n].tag = h.tag => unacked[n].job = h.job
TagsOwned == drops = 0 => \A h \in running : RunsItsOwn(h)

LEMMA TagsOwnedStep ==
  ASSUME QueueOK, TagsOwned, QueueStep
  PROVE  TagsOwned'
<1>0. /\ ready \in Seq(Jobs) /\ consumer \in Nat /\ tags \in Nat
      /\ unacked \in Seq([tag : 1..tags, job : Jobs])
      /\ drops \in 0..MaxFaults /\ running \subseteq Handler /\ MaxFaults \in Nat
  BY JobQueueAssumption DEF QueueOK, QueueTypeOK, JobQueueAssumption
<1>1. CASE UNCHANGED queueVars
  BY <1>1 DEF queueVars, connection, faults, history, TagsOwned, RunsItsOwn
<1>2. ASSUME NEW j \in Jobs, Enqueue(j) PROVE TagsOwned'
  BY <1>2 DEF Enqueue, connection, faults, TagsOwned, RunsItsOwn
<1>3. ASSUME NEW h \in running, NEW stage \in Stage, MovesOn(h, stage) PROVE TagsOwned'
  <2>1. UNCHANGED <<unacked, tags, drops>>
    BY <1>3 DEF MovesOn, connection, faults
  <2>2. running' = (running \ {h}) \cup {[h EXCEPT !.stage = stage]}
    BY <1>3 DEF MovesOn
  <2>3. \A g \in running' : \E f \in running : g.tag = f.tag /\ g.job = f.job
    <3> DEFINE moved == [h EXCEPT !.stage = stage]
    <3>1. moved.tag = h.tag /\ moved.job = h.job
      BY <1>0, MovedHandler
    <3>2. running' = (running \ {h}) \cup {moved}
      BY <2>2
    <3> HIDE DEF moved
    <3> QED BY <3>1, <3>2
  <2> QED BY <2>1, <2>3 DEF TagsOwned, RunsItsOwn
<1>4. ASSUME NEW h \in running, Acknowledge(h) PROVE TagsOwned'
  <2>1. PICK n \in DOMAIN unacked :
          unacked' = SubSeq(unacked, 1, n - 1) \o SubSeq(unacked, n + 1, Len(unacked))
    BY <1>4 DEF Acknowledge
  <2>2. /\ Len(unacked) \in Nat /\ n \in 1..Len(unacked)
        /\ DOMAIN unacked = 1..Len(unacked) /\ DOMAIN unacked' = 1..(Len(unacked) - 1)
    BY <2>1, UnackedWithout DEF QueueOK
  <2>3. \A i \in DOMAIN unacked' : unacked'[i] = unacked[IF i < n THEN i ELSE i + 1]
    BY <2>1, UnackedWithout DEF QueueOK
  <2>5. \A i \in DOMAIN unacked' : \E k \in DOMAIN unacked : unacked'[i] = unacked[k]
    <3> SUFFICES ASSUME NEW i \in DOMAIN unacked'
                 PROVE  \E k \in DOMAIN unacked : unacked'[i] = unacked[k]
      OBVIOUS
    <3>1. i \in 1..(Len(unacked) - 1)
      BY <2>2
    <3>2. (IF i < n THEN i ELSE i + 1) \in DOMAIN unacked
      BY <2>2, <3>1
    <3> QED BY <2>3, <3>2
  <2>6. running' \subseteq running /\ tags' = tags /\ drops' = drops
    BY <1>4 DEF Acknowledge, faults
  <2> QED BY <2>5, <2>6 DEF TagsOwned, RunsItsOwn
<1>5. ASSUME ProcessEnds PROVE TagsOwned'
  BY <1>5 DEF ProcessEnds, TagsOwned
<1>6. ASSUME NEW h \in running, AcknowledgeFails(h) PROVE TagsOwned'
  BY <1>5, <1>6 DEF AcknowledgeFails
<1>7. ASSUME NEW stage \in Stage, Deliver(stage) PROVE TagsOwned'
  <2> DEFINE given == [tag |-> tags', job |-> Head(ready)]
             new == [job |-> Head(ready), tag |-> tags',
                     channel |-> consumer, stage |-> stage]
  <2>1. /\ tags' = tags + 1 /\ unacked' = Append(unacked, given)
        /\ running' = running \cup {new} /\ drops' = drops
    BY <1>7 DEF Deliver, faults
  <2>2. new.tag = tags' /\ new.job = Head(ready) /\ given.tag = tags' /\ given.job = Head(ready)
    OBVIOUS
  <2> HIDE DEF given, new
  <2>3. Len(unacked) \in Nat /\ DOMAIN unacked = 1..Len(unacked)
        /\ DOMAIN unacked' = 1..(Len(unacked) + 1)
        /\ unacked'[Len(unacked) + 1] = given
        /\ \A n \in 1..Len(unacked) : unacked'[n] = unacked[n]
    BY <1>0, <2>1
  <2>4. ASSUME NEW n \in 1..Len(unacked) PROVE unacked[n].tag \in 1..tags
    <3>1. unacked[n] \in [tag : 1..tags, job : Jobs]
      BY <1>0, ElementOfSeq
    <3> QED BY <3>1
  <2> SUFFICES ASSUME drops = 0, NEW h \in running' PROVE RunsItsOwn(h)'
    BY <2>1 DEF TagsOwned
  <2>5. CASE h = new
    <3>1. ASSUME NEW n \in DOMAIN unacked', unacked'[n].tag = new.tag
          PROVE  unacked'[n].job = new.job
      <4>1. CASE n = Len(unacked) + 1
        BY <2>2, <2>3, <4>1
      <4>2. CASE n # Len(unacked) + 1
        <5>1. n \in 1..Len(unacked)
          BY <2>3, <4>2
        <5>2. unacked[n].tag \in 1..tags /\ unacked[n].tag = tags + 1
          BY <2>1, <2>2, <2>3, <2>4, <3>1, <5>1
        <5> QED BY <1>0, <5>2
      <4> QED BY <4>1, <4>2
    <3>2. new.tag <= tags'
      BY <1>0, <2>1, <2>2
    <3> QED BY <2>5, <3>1, <3>2 DEF RunsItsOwn
  <2>6. CASE h # new
    <3>1. h \in running /\ RunsItsOwn(h) /\ h.tag \in Nat
      BY <1>0, <2>1, <2>6 DEF TagsOwned, Handler
    <3>2. h.tag <= tags /\ h.tag <= tags' /\ h.tag # tags'
      BY <1>0, <2>1, <3>1 DEF RunsItsOwn
    <3>3. ASSUME NEW n \in DOMAIN unacked', unacked'[n].tag = h.tag
          PROVE  unacked'[n].job = h.job
      <4>1. n # Len(unacked) + 1
        BY <2>2, <2>3, <3>2, <3>3
      <4>2. n \in 1..Len(unacked)
        BY <2>3, <4>1
      <4> QED BY <2>3, <3>1, <3>3, <4>2 DEF RunsItsOwn
    <3> QED BY <3>2, <3>3 DEF RunsItsOwn
  <2> QED BY <2>5, <2>6
<1>8. CASE Disconnect
  <2>1. drops' = drops + 1
    BY <1>8 DEF Disconnect
  <2>2. drops' # 0
    BY <1>0, <2>1
  <2> QED BY <2>2 DEF TagsOwned
<1>9. CASE Reconnect
  <2>1. tags' = 0 /\ tags = 0 /\ UNCHANGED <<unacked, running, drops>>
    BY <1>9 DEF Reconnect, faults, QueueOK, Unconnected
  <2> QED BY <2>1 DEF TagsOwned, RunsItsOwn
<1>10. CASE Crash
  BY <1>5, <1>10 DEF Crash
<1> QED BY <1>1, <1>2, <1>3, <1>4, <1>6, <1>7, <1>8, <1>9, <1>10 DEF QueueStep

LEMMA JobsKeptStep ==
  ASSUME QueueOK, TagsOwned, JobsKept, QueueStep
  PROVE  JobsKept'
<1>0. /\ ready \in Seq(Jobs) /\ consumer \in Nat /\ tags \in Nat
      /\ unacked \in Seq([tag : 1..tags, job : Jobs])
      /\ drops \in 0..MaxFaults /\ running \subseteq Handler /\ MaxFaults \in Nat
  BY JobQueueAssumption DEF QueueOK, QueueTypeOK, JobQueueAssumption
<1>a. Len(ready) \in Nat /\ DOMAIN ready = 1..Len(ready)
      /\ Len(unacked) \in Nat /\ DOMAIN unacked = 1..Len(unacked)
  BY <1>0
\* What waits, awaits an answer or was handled still does so.
<1>b. ASSUME drops' = drops, published' \subseteq published, handled \subseteq handled',
             drops = 0 =>
               /\ \A n \in DOMAIN ready :
                    \/ \E k \in DOMAIN ready' : ready'[k] = ready[n]
                    \/ \E k \in DOMAIN unacked' : unacked'[k].job = ready[n]
               /\ \A n \in DOMAIN unacked :
                    \/ unacked[n].job \in handled'
                    \/ \E k \in DOMAIN ready' : ready'[k] = unacked[n].job
                    \/ \E k \in DOMAIN unacked' : unacked'[k].job = unacked[n].job
      PROVE  JobsKept'
  BY <1>b DEF JobsKept, Kept
<1>1. CASE UNCHANGED queueVars
  BY <1>1 DEF queueVars, connection, faults, history, JobsKept, Kept
<1>2. ASSUME NEW j \in Jobs, Enqueue(j) PROVE JobsKept'
  <2>1. /\ ready' = Append(ready, j) /\ published' = published \cup {j}
        /\ UNCHANGED <<unacked, drops, handled>>
    BY <1>2 DEF Enqueue, connection, faults
  <2>2. /\ DOMAIN ready' = 1..(Len(ready) + 1) /\ ready'[Len(ready) + 1] = j
        /\ \A n \in 1..Len(ready) : ready'[n] = ready[n]
    BY <1>0, <2>1
  <2>3. \E k \in DOMAIN ready' : ready'[k] = j
    BY <1>a, <2>2
  <2>4. \A n \in DOMAIN ready : n \in DOMAIN ready' /\ ready'[n] = ready[n]
    BY <1>a, <2>2
  <2> SUFFICES ASSUME drops = 0, NEW k \in published' PROVE Kept(k)'
    BY <2>1 DEF JobsKept
  <2>5. CASE k = j
    BY <2>3, <2>5 DEF Kept
  <2>6. CASE k # j
    <3>1. Kept(k)
      BY <2>1, <2>6 DEF JobsKept
    <3> QED BY <2>1, <2>4, <3>1 DEF Kept
  <2> QED BY <2>5, <2>6
<1>3. ASSUME NEW h \in running, NEW stage \in Stage, MovesOn(h, stage) PROVE JobsKept'
  BY <1>3 DEF MovesOn, connection, faults, history, JobsKept, Kept
<1>4. ASSUME NEW h \in running, Acknowledge(h) PROVE JobsKept'
  <2>1. PICK n \in DOMAIN unacked :
          /\ unacked[n].tag = h.tag
          /\ unacked' = SubSeq(unacked, 1, n - 1) \o SubSeq(unacked, n + 1, Len(unacked))
    BY <1>4 DEF Acknowledge
  <2>2. n \in 1..Len(unacked) /\ DOMAIN unacked' = 1..(Len(unacked) - 1)
    BY <2>1, UnackedWithout DEF QueueOK
  <2>3. \A i \in DOMAIN unacked' : unacked'[i] = unacked[IF i < n THEN i ELSE i + 1]
    BY <2>1, UnackedWithout DEF QueueOK
  <2>5. \A i \in DOMAIN unacked :
          i = n \/ \E k \in DOMAIN unacked' : unacked'[k] = unacked[i]
    <3> SUFFICES ASSUME NEW i \in DOMAIN unacked, i # n
                 PROVE  \E k \in DOMAIN unacked' : unacked'[k] = unacked[i]
      OBVIOUS
    <3>1. CASE i < n
      <4>1. i \in 1..(Len(unacked) - 1)
        BY <1>a, <2>2, <3>1
      <4> QED BY <2>2, <2>3, <3>1, <4>1
    <3>2. CASE ~(i < n)
      <4>1. i - 1 \in 1..(Len(unacked) - 1) /\ ~(i - 1 < n) /\ (i - 1) + 1 = i
        BY <1>a, <2>2, <3>2
      <4> QED BY <2>2, <2>3, <4>1
    <3> QED BY <3>1, <3>2
  <2>6. drops = 0 => unacked[n].job = h.job
    BY <2>1 DEF TagsOwned, RunsItsOwn
  <2>7. handled' = handled \cup {h.job} /\ UNCHANGED <<ready, drops, published>>
    BY <1>4 DEF Acknowledge, faults
  <2> QED BY <1>b, <2>5, <2>6, <2>7
<1>5. ASSUME ProcessEnds, UNCHANGED published, handled \subseteq handled' PROVE JobsKept'
  <2>1. /\ \A n \in DOMAIN unacked : \E k \in DOMAIN ready' : ready'[k] = unacked[n].job
        /\ \A n \in DOMAIN ready : \E k \in DOMAIN ready' : ready'[k] = ready[n]
    BY <1>5, GivenBack DEF ProcessEnds, QueueOK
  <2>2. drops' = drops
    BY <1>5 DEF ProcessEnds
  <2> QED BY <1>b, <1>5, <2>1, <2>2
<1>6. ASSUME NEW h \in running, AcknowledgeFails(h) PROVE JobsKept'
  BY <1>5, <1>6 DEF AcknowledgeFails
<1>7. ASSUME NEW stage \in Stage, Deliver(stage) PROVE JobsKept'
  <2> DEFINE given == [tag |-> tags', job |-> Head(ready)]
  <2>1. /\ ready # <<>> /\ ready' = Tail(ready) /\ unacked' = Append(unacked, given)
        /\ UNCHANGED <<drops, published, handled>>
    BY <1>7 DEF Deliver, faults, history
  <2>2. given.job = Head(ready)
    OBVIOUS
  <2> HIDE DEF given
  <2>3. /\ DOMAIN unacked' = 1..(Len(unacked) + 1) /\ unacked'[Len(unacked) + 1] = given
        /\ \A n \in 1..Len(unacked) : unacked'[n] = unacked[n]
    BY <1>0, <2>1
  <2>4. /\ DOMAIN ready' = 1..(Len(ready) - 1) /\ Head(ready) = ready[1]
        /\ \A n \in 1..(Len(ready) - 1) : ready'[n] = ready[n + 1]
    BY <1>0, <2>1
  <2>5. ASSUME NEW n \in DOMAIN ready
        PROVE  \/ \E k \in DOMAIN ready' : ready'[k] = ready[n]
               \/ \E k \in DOMAIN unacked' : unacked'[k].job = ready[n]
    <3>1. CASE n = 1
      <4>1. Len(unacked) + 1 \in DOMAIN unacked'
        BY <1>a, <2>3
      <4> QED BY <2>2, <2>3, <2>4, <3>1, <4>1
    <3>2. CASE n # 1
      <4>1. n - 1 \in 1..(Len(ready) - 1) /\ (n - 1) + 1 = n
        BY <1>a, <3>2
      <4> QED BY <2>4, <4>1
    <3> QED BY <3>1, <3>2
  <2>6. \A n \in DOMAIN unacked : n \in DOMAIN unacked' /\ unacked'[n] = unacked[n]
    BY <1>a, <2>3
  <2> QED BY <1>b, <2>1, <2>5, <2>6
<1>8. CASE Disconnect
  <2>1. drops' = drops + 1
    BY <1>8 DEF Disconnect
  <2>2. drops' # 0
    BY <1>0, <2>1
  <2> QED BY <2>2 DEF JobsKept
<1>9. CASE Reconnect
  BY <1>9 DEF Reconnect, faults, history, JobsKept, Kept
<1>10. CASE Crash
  BY <1>5, <1>10 DEF Crash, history
<1> QED BY <1>1, <1>2, <1>3, <1>4, <1>6, <1>7, <1>8, <1>9, <1>10 DEF QueueStep

\* What a step does to the page.
AskedOf == {"unasked", "preparing"} \cup Asking \cup Settled
PageTypeOK ==
  /\ asked \in [Jobs -> AskedOf]
  /\ busy \in BOOLEAN /\ overlapped \in BOOLEAN
  /\ polls \in [Jobs -> 0..MaxPolls]
  /\ applied \in [Jobs -> Nat]

PageStep ==
  \/ UNCHANGED page
  \/ \E j \in Jobs : Page(j)
  \/ Reload

LEMMA StepsOfPage == ASSUME [AiNext]_aiVars PROVE PageStep
<1>1. ASSUME NEW j \in Jobs, Backend(j) PROVE UNCHANGED page
  BY <1>1 DEF Backend, StoreEntry, PublishJob, PublishUnconfirmed, PublishFails, Expire
<1>2. ASSUME Worker PROVE UNCHANGED page
  BY <1>2 DEF Worker, Compute, Unfound, PostFails
<1>3. ASSUME Faults PROVE UNCHANGED page
  BY <1>3 DEF Faults
<1>4. ASSUME NEW p \in posts, Receive(p) PROVE UNCHANGED page
  BY <1>4 DEF Receive
<1>5. ASSUME UNCHANGED aiVars PROVE UNCHANGED page
  BY <1>5 DEF aiVars
<1> QED BY <1>1, <1>2, <1>3, <1>4, <1>5 DEF AiNext, PageStep

\* The question j goes to a stage, and the others stay where they are.
LEMMA AskedFacts ==
  ASSUME PageTypeOK, NEW j \in Jobs, NEW stage \in AskedOf,
         asked' = [asked EXCEPT ![j] = stage]
  PROVE  /\ asked' \in [Jobs -> AskedOf]
         /\ asked'[j] = stage /\ \A k \in Jobs \ {j} : asked'[k] = asked[k]
BY DEF PageTypeOK

\* What is open is not what is settled, shown or prepared.
LEMMA Stages ==
  /\ Asking \subseteq AskedOf /\ Settled \subseteq AskedOf
  /\ {"unasked", "preparing"} \subseteq AskedOf
  /\ \A stage \in Settled \cup {"unasked", "preparing"} : stage \notin Asking
  /\ "shown" \notin Asking /\ "failed" \in Settled /\ "answered" \in Settled
  /\ "posting" \in Asking /\ "polling" \in Asking /\ "asking" \in Asking
  /\ "shown" \in Settled /\ "failed" # "shown" /\ "answered" # "shown"
BY DEF AskedOf, Asking, Settled

\* A question is opened beside no other, or the overlap is noted.
LEMMA BeginTrue ==
  ASSUME PageTypeOK, AnswerIsTrue, NEW j \in Jobs, NEW stage \in Asking,
         asked[j] \in {"unasked", "preparing"}, OpenQuestion(j, stage)
  PROVE  PageTypeOK' /\ AnswerIsTrue'
<1>1. /\ asked' = [asked EXCEPT ![j] = stage] /\ busy' = TRUE
      /\ overlapped' = (overlapped \/ \E k \in Jobs : asked[k] \in Asking)
      /\ UNCHANGED <<polls, applied>>
  BY DEF OpenQuestion, Open
<1>2. /\ asked' \in [Jobs -> AskedOf]
      /\ asked'[j] = stage /\ \A k \in Jobs \ {j} : asked'[k] = asked[k]
  BY <1>1, AskedFacts, Stages
<1>3. overlapped' \in BOOLEAN
  BY <1>1 DEF PageTypeOK
<1>4. PageTypeOK'
  BY <1>1, <1>2, <1>3 DEF PageTypeOK
<1>5. \A k \in Jobs : asked'[k] = "shown" <=> asked[k] = "shown"
  BY <1>2, Stages
<1>6. \A k \in Jobs : applied'[k] = IF asked'[k] = "shown" THEN 1 ELSE 0
  BY <1>1, <1>5 DEF AnswerIsTrue
<1>7. ~overlapped' => \A k \in Jobs : asked'[k] \in Asking => k = j
  BY <1>1, <1>2
<1>8. asked'[j] \in Asking
  BY <1>2
<1> QED BY <1>1, <1>4, <1>6, <1>7, <1>8 DEF AnswerIsTrue, Open

\* Preparing an image opens and settles nothing.
LEMMA ImageTrue ==
  ASSUME PageTypeOK, AnswerIsTrue, NEW j \in Jobs, ImageChosen(j) \/ ImageUnreadable(j)
  PROVE  PageTypeOK' /\ AnswerIsTrue'
<1>1. PICK stage \in {"unasked", "preparing"} :
        /\ asked[j] \in {"unasked", "preparing"}
        /\ asked' = [asked EXCEPT ![j] = stage]
        /\ UNCHANGED <<busy, polls, applied, overlapped>>
  BY DEF ImageChosen, ImageUnreadable, NextQuestion
<1>2. /\ asked' \in [Jobs -> AskedOf]
      /\ asked'[j] = stage /\ \A k \in Jobs \ {j} : asked'[k] = asked[k]
  BY <1>1, AskedFacts, Stages
<1>3. \A k \in Jobs : /\ asked'[k] \in Asking <=> asked[k] \in Asking
                      /\ asked'[k] = "shown" <=> asked[k] = "shown"
  BY <1>1, <1>2, Stages
<1>4. PageTypeOK'
  BY <1>1, <1>2 DEF PageTypeOK
<1> QED BY <1>1, <1>3, <1>4 DEF AnswerIsTrue, Open

LEMMA SettleFacts ==
  ASSUME PageTypeOK, NEW j \in Jobs, NEW how \in Settled, Settle(j, how)
  PROVE  /\ asked' \in [Jobs -> AskedOf]
         /\ asked'[j] = how /\ \A k \in Jobs \ {j} : asked'[k] = asked[k]
         /\ busy' = FALSE
         /\ overlapped' = (overlapped /\ \E k \in Jobs \ {j} : asked[k] \in Asking)
         /\ polls' \in [Jobs -> 0..MaxPolls]
<1>1. 0 \in 0..MaxPolls
  BY AiJobsAssumption DEF AiJobsAssumption
<1>2. asked' = [asked EXCEPT ![j] = how] /\ polls' = [polls EXCEPT ![j] = 0]
  BY DEF Settle
<1>3. /\ asked' \in [Jobs -> AskedOf]
      /\ asked'[j] = how /\ \A k \in Jobs \ {j} : asked'[k] = asked[k]
  BY <1>2, AskedFacts, Stages
<1> QED BY <1>1, <1>2, <1>3 DEF PageTypeOK, Settle, Open

\* A poll that brought no answer leaves the question open, or it failed.
LEMMA NextPollFacts ==
  ASSUME PageTypeOK, NEW j \in Jobs, NextPoll(j)
  PROVE  /\ polls' \in [Jobs -> 0..MaxPolls]
         /\ \/ Settle(j, "failed")
            \/ UNCHANGED <<asked, busy, overlapped>>
<1>1. CASE Settle(j, "failed")
  BY <1>1, SettleFacts DEF Settled
<1>2. CASE /\ polls[j] + 1 <= MaxPolls
           /\ polls' = [polls EXCEPT ![j] = polls[j] + 1]
           /\ UNCHANGED <<asked, busy, overlapped>>
  <2>1. polls[j] \in 0..MaxPolls
    BY DEF PageTypeOK
  <2>2. polls[j] + 1 \in 0..MaxPolls
    BY <1>2, <2>1, AiJobsAssumption DEF AiJobsAssumption
  <2> QED BY <1>2, <2>2 DEF PageTypeOK
<1> QED BY <1>1, <1>2 DEF NextPoll

\* Nothing is shown with an open question before it is settled; unless there
\* was an overlap it was the only one.
LEMMA SettledTrue ==
  ASSUME PageTypeOK, AnswerIsTrue, NEW j \in Jobs, asked[j] \in Asking
  PROVE  /\ \A how \in {"failed", "answered"} :
              Settle(j, how) /\ UNCHANGED applied => PageTypeOK' /\ AnswerIsTrue'
         /\ Show(j) => PageTypeOK' /\ AnswerIsTrue'
<1>0. /\ applied[j] = 0 /\ applied \in [Jobs -> Nat] /\ overlapped \in BOOLEAN
      /\ ~overlapped => \A k \in Jobs \ {j} : asked[k] \notin Asking
      /\ \A k \in Jobs : applied[k] = IF asked[k] = "shown" THEN 1 ELSE 0
  BY Stages DEF AnswerIsTrue, Open, PageTypeOK
<1>1. ASSUME NEW how \in Settled, Settle(j, how),
             applied' \in [Jobs -> Nat],
             \A k \in Jobs \ {j} : applied'[k] = applied[k],
             applied'[j] = IF how = "shown" THEN 1 ELSE 0
      PROVE  PageTypeOK' /\ AnswerIsTrue'
  <2>1. /\ asked' \in [Jobs -> AskedOf]
        /\ asked'[j] = how /\ \A k \in Jobs \ {j} : asked'[k] = asked[k]
        /\ busy' = FALSE
        /\ overlapped' = (overlapped /\ \E k \in Jobs \ {j} : asked[k] \in Asking)
        /\ polls' \in [Jobs -> 0..MaxPolls]
    BY <1>1, SettleFacts
  <2>2. ~overlapped' => \A k \in Jobs : asked'[k] \notin Asking
    <3> SUFFICES ASSUME ~overlapped', NEW k \in Jobs PROVE asked'[k] \notin Asking
      OBVIOUS
    <3>1. CASE k = j
      BY <2>1, <3>1, Stages
    <3>2. CASE k # j
      BY <1>0, <2>1, <3>2
    <3> QED BY <3>1, <3>2
  <2>3. \A k \in Jobs : applied'[k] = IF asked'[k] = "shown" THEN 1 ELSE 0
    BY <1>0, <1>1, <2>1
  <2>4. overlapped' \in BOOLEAN
    BY <1>0, <2>1
  <2>5. PageTypeOK'
    BY <1>1, <2>1, <2>4 DEF PageTypeOK
  <2>6. AnswerIsTrue'
    BY <2>1, <2>2, <2>3 DEF AnswerIsTrue, Open
  <2> QED BY <2>5, <2>6
<1>2. ASSUME NEW how \in {"failed", "answered"}, Settle(j, how), UNCHANGED applied
      PROVE  PageTypeOK' /\ AnswerIsTrue'
  <2>1. how \in Settled /\ how # "shown"
    BY Stages
  <2> QED BY <1>0, <1>1, <1>2, <2>1
<1>3. ASSUME Show(j) PROVE PageTypeOK' /\ AnswerIsTrue'
  <2>1. applied' = [applied EXCEPT ![j] = applied[j] + 1] /\ Settle(j, "shown")
    BY <1>3 DEF Show
  <2>2. applied' \in [Jobs -> Nat] /\ applied'[j] = 1
        /\ \A k \in Jobs \ {j} : applied'[k] = applied[k]
    BY <1>0, <2>1
  <2> QED BY <1>1, <2>1, <2>2, Stages
<1> QED BY <1>2, <1>3

LEMMA AnswerStep ==
  ASSUME PageTypeOK, AnswerIsTrue, PageStep
  PROVE  PageTypeOK' /\ AnswerIsTrue'
<1>1. ASSUME UNCHANGED page PROVE PageTypeOK' /\ AnswerIsTrue'
  BY <1>1 DEF page, PageTypeOK, AnswerIsTrue, Open
<1>2. ASSUME NEW j \in Jobs, Generate(j) \/ Ask(j) \/ ImageReady(j)
      PROVE  PageTypeOK' /\ AnswerIsTrue'
  <2>1. \E stage \in Asking : asked[j] \in {"unasked", "preparing"} /\ OpenQuestion(j, stage)
    BY <1>2, Stages DEF Generate, Ask, ImageReady, NextQuestion
  <2> QED BY <2>1, BeginTrue
<1>3. ASSUME NEW j \in Jobs, ImageChosen(j) \/ ImageUnreadable(j)
      PROVE  PageTypeOK' /\ AnswerIsTrue'
  BY <1>3, ImageTrue
<1>4. ASSUME NEW j \in Jobs, Accepted(j) PROVE PageTypeOK' /\ AnswerIsTrue'
  <2>1. /\ asked[j] = "posting" /\ asked' = [asked EXCEPT ![j] = "polling"]
        /\ UNCHANGED <<busy, polls, applied, overlapped>>
    BY <1>4 DEF Accepted
  <2>2. /\ asked' \in [Jobs -> AskedOf]
        /\ asked'[j] = "polling" /\ \A k \in Jobs \ {j} : asked'[k] = asked[k]
    BY <2>1, AskedFacts, Stages
  <2>3. \A k \in Jobs : (asked'[k] \in Asking <=> asked[k] \in Asking)
                        /\ (asked'[k] = "shown" <=> asked[k] = "shown")
    BY <2>1, <2>2, Stages
  <2>4. PageTypeOK'
    BY <2>1, <2>2 DEF PageTypeOK
  <2>5. AnswerIsTrue'
    BY <2>1, <2>3 DEF AnswerIsTrue, Open
  <2> QED BY <2>4, <2>5
<1>5. ASSUME NEW j \in Jobs, Refused(j) \/ Answered(j) \/ PollFails(j)
      PROVE  PageTypeOK' /\ AnswerIsTrue'
  <2>1. /\ asked[j] \in Asking /\ UNCHANGED applied
        /\ \E how \in {"failed", "answered"} : Settle(j, how)
    BY <1>5, Stages DEF Refused, Answered, PollFails
  <2> QED BY <2>1, SettledTrue
<1>6. ASSUME NEW j \in Jobs, Polled(j) PROVE PageTypeOK' /\ AnswerIsTrue'
  <2>1. asked[j] \in Asking
    BY <1>6, Stages DEF Polled
  <2>2. CASE NextPoll(j) /\ UNCHANGED applied
    <3>1. CASE Settle(j, "failed")
      BY <2>1, <2>2, <3>1, SettledTrue
    <3>2. CASE ~Settle(j, "failed")
      <4>1. UNCHANGED <<asked, busy, overlapped, applied>> /\ polls' \in [Jobs -> 0..MaxPolls]
        BY <2>2, <3>2, NextPollFacts
      <4> QED BY <4>1 DEF PageTypeOK, AnswerIsTrue, Open
    <3> QED BY <3>1, <3>2
  <2>3. CASE Show(j)
    BY <2>1, <2>3, SettledTrue
  <2>4. CASE Settle(j, "failed") /\ UNCHANGED applied
    BY <2>1, <2>4, SettledTrue
  <2> QED BY <1>6, <2>2, <2>3, <2>4 DEF Polled
<1>7. ASSUME Reload PROVE PageTypeOK' /\ AnswerIsTrue'
  <2>1. /\ busy' = FALSE /\ overlapped' = FALSE
        /\ polls' = [k \in Jobs |-> 0] /\ UNCHANGED applied
        /\ asked' = [k \in Jobs |-> CASE Open(k) -> "failed"
                                      [] asked[k] = "preparing" -> "unasked"
                                      [] OTHER -> asked[k]]
    BY <1>7 DEF Reload
  <2>2. ASSUME NEW k \in Jobs
        PROVE  /\ asked'[k] \in AskedOf /\ asked'[k] \notin Asking
               /\ asked'[k] = "shown" <=> asked[k] = "shown"
    <3>1. asked[k] \in AskedOf
      BY DEF PageTypeOK
    <3>2. CASE Open(k)
      <4>0. asked[k] \in Asking /\ asked[k] # "preparing"
        BY <3>2, Stages DEF Open
      <4>1. asked'[k] = "failed" /\ asked[k] \in Asking
        BY <2>1, <3>2, <4>0 DEF Open
      <4> QED BY <4>1, Stages
    <3>3. CASE ~Open(k) /\ asked[k] = "preparing"
      <4>1. asked'[k] = "unasked"
        BY <2>1, <3>3
      <4> QED BY <3>3, <4>1, Stages
    <3>4. CASE ~Open(k) /\ asked[k] # "preparing"
      <4>1. asked'[k] = asked[k] /\ asked[k] \notin Asking
        BY <2>1, <3>4 DEF Open
      <4> QED BY <3>1, <4>1
    <3> QED BY <3>2, <3>3, <3>4
  <2>3. PageTypeOK'
    <3>1. asked' \in [Jobs -> AskedOf]
      BY <2>1, <2>2
    <3>2. 0 \in 0..MaxPolls
      BY AiJobsAssumption DEF AiJobsAssumption
    <3>3. polls' \in [Jobs -> 0..MaxPolls]
      BY <2>1, <3>2
    <3> QED BY <2>1, <3>1, <3>3 DEF PageTypeOK
  <2>4. AnswerIsTrue'
    BY <2>1, <2>2 DEF AnswerIsTrue, Open
  <2> QED BY <2>3, <2>4
<1> QED BY <1>1, <1>2, <1>3, <1>4, <1>5, <1>6, <1>7 DEF PageStep, Page, Image

\* The backend's own part.
BackendTypeOK ==
  /\ call \in [Jobs -> {"none", "begun", "stored", "unconfirmed", "accepted", "refused"}]
  /\ entry \in [Jobs -> {"none", "pending", "done", "error"}]
  /\ posts \subseteq Post

LEMMA PostType == \A h \in Handler : PostOf(h) \in Post
BY DEF Handler, PostOf, Post

LEMMA FoundType == ASSUME NEW hs \in SUBSET Handler PROVE Found(hs) \subseteq Post
BY PostType DEF Found

\* Whatever becomes of a handler, what it leaves under way are posts.
LEMMA GoesPosts ==
  ASSUME running \subseteq Handler, running' \subseteq Handler, NEW h \in running,
         NEW left \in SUBSET Post, Goes(h, left)
  PROVE  posts' \subseteq Post
<1>1. CASE Finish(h, left)
  BY <1>1 DEF Finish
<1>2. CASE posts' = left \cup Found(running' \ running)
  <2>1. Found(running' \ running) \subseteq Post
    BY FoundType
  <2> QED BY <1>2, <2>1
<1> QED BY <1>1, <1>2 DEF Goes, Throws

LEMMA BackendStep ==
  ASSUME BackendTypeOK, running \subseteq Handler, running' \subseteq Handler, [AiNext]_aiVars
  PROVE  BackendTypeOK'
<1>0. posts \subseteq Post
  BY DEF BackendTypeOK
<1>1. ASSUME NEW j \in Jobs, Page(j) PROVE BackendTypeOK'
  BY <1>1 DEF Page, Generate, Ask, OpenQuestion, Image, ImageChosen, ImageReady, ImageUnreadable,
              Accepted, Refused, Answered, Polled, PollFails, results, BackendTypeOK
<1>2. ASSUME NEW j \in Jobs, Backend(j) PROVE BackendTypeOK'
  BY <1>2 DEF Backend, StoreEntry, PublishJob, PublishUnconfirmed, PublishFails, Expire,
              SetCall, SetEntry, results, BackendTypeOK
<1>3. ASSUME NEW p \in posts, Receive(p) PROVE BackendTypeOK'
  <2>1. p.job \in Jobs /\ p.status \in {"done", "error"} /\ posts \ {p} \in SUBSET Post
    BY <1>0 DEF Post
  <2>2. posts' \subseteq Post
    BY <1>3, <2>1, GoesPosts DEF Receive
  <2> QED BY <1>3, <2>1, <2>2 DEF Receive, SetEntry, BackendTypeOK
<1>4. ASSUME UNCHANGED <<call, entry>>, posts' \subseteq Post PROVE BackendTypeOK'
  BY <1>4 DEF BackendTypeOK
<1>5. ASSUME NEW h \in running, Unfound(h) \/ PostFails(h) PROVE BackendTypeOK'
  <2>1. \E left \in SUBSET Post : Goes(h, left)
    BY <1>0, <1>5 DEF Unfound, PostFails, Goes
  <2>2. posts' \subseteq Post
    BY <2>1, GoesPosts
  <2> QED BY <1>4, <1>5, <2>2 DEF Unfound, PostFails
<1>6. CASE Compute
  <2>1. Found(running' \ running) \subseteq Post
    BY FoundType
  <2> QED BY <1>0, <1>4, <1>6, <2>1 DEF Compute
<1>7. CASE Reload \/ Faults \/ UNCHANGED aiVars
  BY <1>0, <1>4, <1>7 DEF Reload, Faults, aiVars, results
<1> QED BY <1>1, <1>2, <1>3, <1>5, <1>6, <1>7 DEF AiNext, Worker

(***************************************************************************)
(* The inductive invariant of the questions and their jobs.                *)
(***************************************************************************)
QuestionsInv ==
  /\ AiTypeOK /\ Unconnected
  /\ AnswerIsTrue
  /\ TagsOwned /\ JobsKept

LEMMA AiTypeParts ==
  AiTypeOK /\ Unconnected <=> QueueOK /\ PageTypeOK /\ BackendTypeOK
BY DEF AiTypeOK, QueueOK, PageTypeOK, BackendTypeOK, AskedOf

\* Of every question, its job, the handlers that compute it and RabbitMQ's
\* deliveries: the types, and what the two theorems below say.
THEOREM QuestionsCorrect == AiSpec => []QuestionsInv
<1>1. AiInit => QuestionsInv
  <2> SUFFICES ASSUME AiInit PROVE QuestionsInv
    OBVIOUS
  <2>1. QueueOK
    BY JobQueueAssumption DEF AiInit, QueueInit, QueueOK, QueueTypeOK, Unconnected,
       JobQueueAssumption
  <2>2. PageTypeOK /\ BackendTypeOK
    <3>1. 0 \in 0..MaxPolls /\ 0 \in Nat
      BY AiJobsAssumption DEF AiJobsAssumption
    <3>2. PageTypeOK
      BY <3>1 DEF AiInit, PageTypeOK, AskedOf
    <3> QED BY <3>2 DEF AiInit, BackendTypeOK
  <2>3. AnswerIsTrue
    BY DEF AiInit, AnswerIsTrue, Open, Asking
  <2>4. TagsOwned /\ JobsKept
    BY DEF AiInit, QueueInit, TagsOwned, JobsKept
  <2> QED BY <2>1, <2>2, <2>3, <2>4, AiTypeParts DEF QuestionsInv
<1>2. QuestionsInv /\ [AiNext]_aiVars => QuestionsInv'
  <2> SUFFICES ASSUME QuestionsInv, [AiNext]_aiVars PROVE QuestionsInv'
    OBVIOUS
  <2>1. QueueOK /\ PageTypeOK /\ BackendTypeOK /\ AnswerIsTrue /\ TagsOwned /\ JobsKept
    BY AiTypeParts DEF QuestionsInv
  <2>2. QueueStep /\ PageStep
    BY StepsOfQueue, StepsOfPage
  <2>3. QueueOK' /\ TagsOwned' /\ JobsKept'
    BY <2>1, <2>2, QueueTypeStep, TagsOwnedStep, JobsKeptStep
  <2>4. PageTypeOK' /\ AnswerIsTrue'
    BY <2>1, <2>2, AnswerStep
  <2>5. BackendTypeOK'
    BY <2>1, <2>3, BackendStep DEF QueueOK
  <2>6. (AiTypeOK /\ Unconnected)'
    BY <2>3, <2>4, <2>5 DEF AiTypeOK, QueueOK, PageTypeOK, BackendTypeOK, AskedOf
  <2> QED BY <2>3, <2>4, <2>6 DEF QuestionsInv
<1> QED BY <1>1, <1>2, PTL DEF AiSpec

\* However often a job is delivered, computed and its entry overwritten, its
\* shapes are on the canvas once when the page says so and never when it says
\* that the question failed.  isGenerating is set only while a question is open;
\* and unless a question with an image was opened beside an open one, at most
\* one is open and isGenerating is set while it is.
THEOREM AnswersAreTrue == AiSpec => []AnswerIsTrue
<1>1. QuestionsInv => AnswerIsTrue
  BY DEF QuestionsInv
<1> QED BY <1>1, QuestionsCorrect, PTL

\* While the connection holds, a job that RabbitMQ took is in the queue, awaits
\* an answer or was handled, wherever the worker ended: no handler acknowledges
\* the delivery of another.
THEOREM NoQuestionLost == AiSpec => []JobsKept
<1>1. QuestionsInv => JobsKept
  BY DEF QuestionsInv
<1> QED BY <1>1, QuestionsCorrect, PTL

-----------------------------------------------------------------------------
(***************************************************************************)
(* The editor, for any shapes, pointers and bound of the history.  Every   *)
(* step of it does one of five things to the document (Changes); that      *)
(* carries over what undo and redo reach.                                  *)
(***************************************************************************)

Links == Ids \cup {NoShape}

DocTypes ==
  /\ past \in Seq(Board) /\ present \in Board /\ future \in Seq(Board)
  /\ touched \subseteq Ids

HandTypes ==
  /\ readOnly \in BOOLEAN
  /\ selected \subseteq Ids /\ mode \subseteq Gestures
  /\ tracked \subseteq Pointers /\ pressed \subseteq Pointers
  /\ resizing \in Links /\ erased \subseteq Ids
  /\ editor \in [open : BOOLEAN, existing : Texts \cup {NoShape}, parent : Links]

Edits == \E c \in Board : SetTo(c, <<>>)
Loads == \E c \in Board : Hydrate(c)
Undoes ==
  /\ past # <<>>
  /\ present' = Last(past) /\ past' = Front(past)
  /\ future' = Append(future, present) /\ touched' = touched
Redoes ==
  /\ future # <<>>
  /\ present' = Last(future) /\ future' = Front(future)
  /\ past' = Append(past, present) /\ touched' = touched

Changes == UNCHANGED doc \/ Edits \/ Loads \/ Undoes \/ Redoes

LEMMA EditorTypes == EditorTypeOK <=> DocTypes /\ HandTypes
  BY DEF EditorTypeOK, DocTypes, HandTypes, Links

LEMMA ShapeFacts ==
  /\ Gone \in Shape
  /\ \A link \in Links : Mine(link) \in Shape
  /\ \A s \in Shape : s.link \in Links
  /\ \A s \in Shape, link \in Links : [s EXCEPT !.link = link] \in Shape
  /\ NoShape \in Links /\ Ids \subseteq Links
<1>1. Gone \in Shape
  BY DEF Gone, Shape
<1>2. \A link \in Links : Mine(link) \in Shape
  BY DEF Mine, Shape, Links
<1>3. \A s \in Shape : s.link \in Links
  BY DEF Shape, Links
<1>4. \A s \in Shape, link \in Links : [s EXCEPT !.link = link] \in Shape
  BY DEF Shape, Links
<1> QED BY <1>1, <1>2, <1>3, <1>4 DEF Links

LEMMA BoardFacts ==
  ASSUME NEW c \in Board
  PROVE  /\ Normalized(c) \in Board
         /\ \A S : Unbound(c, S) \in Board
         /\ \A S : Written(c, S) \in Board
         /\ \A S : Without(c, S) \in Board
         /\ \A S, over : over \in Links => RefreshedTo(c, S, over) \in Board
         /\ \A i \in Ids, link \in Links : [c EXCEPT ![i] = Mine(link)] \in Board
         /\ \A i \in Ids, link \in Links : [c EXCEPT ![i].link = link] \in Board
         /\ Live(c) \subseteq Ids
<1>0. /\ c \in [Ids -> Shape] /\ Board = [Ids -> Shape]
      /\ \A i \in Ids : c[i] \in Shape /\ c[i].link \in Links
      /\ \A i \in Ids, link \in Links : [c[i] EXCEPT !.link = link] \in Shape
  BY ShapeFacts DEF Board
<1>1. Normalized(c) \in Board
  BY <1>0, ShapeFacts DEF Normalized
<1>2. \A S : Unbound(c, S) \in Board
  BY <1>0, ShapeFacts DEF Unbound
<1>3. \A S : Written(c, S) \in Board
  BY <1>0, ShapeFacts DEF Written
<1>4. \A S : Without(c, S) \in Board
  BY <1>0, ShapeFacts DEF Without
<1>5. \A S, over : over \in Links => RefreshedTo(c, S, over) \in Board
  BY <1>0, ShapeFacts DEF RefreshedTo
<1>6. \A i \in Ids, link \in Links : [c EXCEPT ![i] = Mine(link)] \in Board
  BY <1>0, ShapeFacts
<1>7. ASSUME NEW i \in Ids, NEW link \in Links PROVE [c EXCEPT ![i].link = link] \in Board
  <2> DEFINE s == [c[i] EXCEPT !.link = link]
  <2>1. s \in Shape
    BY <1>0
  <2>2. [c EXCEPT ![i].link = link] = [c EXCEPT ![i] = s]
    OBVIOUS
  <2> HIDE DEF s
  <2> QED BY <1>0, <2>1, <2>2
<1>8. Live(c) \subseteq Ids
  BY DEF Live
<1> QED BY <1>1, <1>2, <1>3, <1>4, <1>5, <1>6, <1>7, <1>8

LEMMA SetShapesFacts ==
  ASSUME NEW c \in Board, SetShapes(c)
  PROVE  Changes
  BY DEF SetShapes, Changes, Edits

LEMMA ReboundFacts ==
  ASSUME NEW c \in Board, SetRebound(c)
  PROVE  Changes
<1>1. PICK S : SetShapes(Unbound(c, S))
  BY DEF SetRebound
<1>2. Unbound(c, S) \in Board
  BY BoardFacts
<1> QED BY <1>1, <1>2, SetShapesFacts

LEMMA StoreFacts ==
  ASSUME present \in Board
  PROVE  /\ \A i \in Ids, link \in Links : AddShape(i, link) => Changes
         /\ \A S, over : over \in Links /\ MoveShapes(S, over) => Changes
         /\ \A S : DeleteShapes(S) => Changes
         /\ Targets \subseteq Links
<1>1. ASSUME NEW i \in Ids, NEW link \in Links, AddShape(i, link) PROVE Changes
  <2>1. [present EXCEPT ![i] = Mine(link)] \in Board
    BY BoardFacts
  <2> QED BY <1>1, <2>1, ReboundFacts DEF AddShape
<1>2. ASSUME NEW S, NEW over, over \in Links, MoveShapes(S, over) PROVE Changes
  <2>1. Written(present, Carried(present, S)) \in Board
    BY BoardFacts
  <2>2. RefreshedTo(Written(present, Carried(present, S)), S, over) \in Board
    BY <1>2, <2>1, BoardFacts
  <2> QED BY <1>2, <2>2, ReboundFacts DEF MoveShapes
<1>3. ASSUME NEW S, DeleteShapes(S) PROVE Changes
  <2>1. Without(present, S) \in Board
    BY BoardFacts
  <2> QED BY <1>3, <2>1, ReboundFacts DEF DeleteShapes
<1>4. Targets \subseteq Links
  BY DEF Targets, Live, Links
<1> QED BY <1>1, <1>2, <1>3, <1>4

LEMMA TypesLive ==
  ASSUME DocTypes
  PROVE  Live(present) \subseteq Ids /\ Live(present) \subseteq Links /\ Ids \subseteq Links
  BY DEF Live, Links

LEMMA StoppedTypes == Stopped => mode' \subseteq Gestures /\ resizing' \in Links /\ erased' \subseteq Ids
  BY DEF Stopped, Links

\* The pointers: what is selected and held has its type.
LEMMA PointerDownSteps ==
  ASSUME DocTypes, HandTypes, NEW p \in Pointers, PointerDown(p)
  PROVE  Changes /\ HandTypes'
<1>1. UNCHANGED doc /\ readOnly' = readOnly /\ pressed' \subseteq Pointers /\ tracked' \subseteq Pointers
  BY DEF PointerDown, HandTypes
<1> DEFINE Held == /\ selected' \subseteq Ids /\ mode' \subseteq Gestures
                   /\ resizing' \in Links /\ erased' \subseteq Ids
                   /\ editor' \in [open : BOOLEAN, existing : Texts \cup {NoShape}, parent : Links]
<1>0. /\ selected \subseteq Ids /\ mode \subseteq Gestures /\ resizing \in Links /\ erased \subseteq Ids
      /\ editor \in [open : BOOLEAN, existing : Texts \cup {NoShape}, parent : Links]
  BY DEF HandTypes
<1>2. Held
  <2>1. CASE DownPan
    BY <1>0, <2>1 DEF DownPan, Begin, Gestures
  <2>2. CASE DownErase
    BY <1>0, <2>2, TypesLive DEF DownErase, Begin, Gestures
  <2>3. CASE DownResize
    BY <1>0, <2>3, TypesLive DEF DownResize, Begin, Gestures
  <2>4. CASE DownDrag
    BY <1>0, <2>4, TypesLive DEF DownDrag, Begin, Gestures
  <2>5. CASE DownSelect
    BY <1>0, <2>5, TypesLive DEF DownSelect
  <2>6. CASE DownEmpty
    BY <1>0, <2>6 DEF DownEmpty, Begin, Gestures
  <2>7. CASE DownText
    <3>1. \E e \in Texts \cup {NoShape}, q \in Links : editor' = Editing(e, q)
      BY <2>7, TypesLive DEF DownText, Links
    <3>2. editor' \in [open : BOOLEAN, existing : Texts \cup {NoShape}, parent : Links]
      BY <3>1 DEF Editing
    <3> QED BY <1>0, <2>7, <3>2 DEF DownText
  <2>8. DownPan \/ DownErase \/ DownResize \/ DownDrag \/ DownSelect \/ DownEmpty \/ DownText
    BY Zenon DEF PointerDown
  <2> HIDE DEF Held
  <2> QED BY <2>1, <2>2, <2>3, <2>4, <2>5, <2>6, <2>7, <2>8
<1> HIDE DEF Held
<1>3. HandTypes'
  BY <1>1, <1>2 DEF HandTypes, Held
<1> QED BY <1>1, <1>3 DEF Changes

LEMMA PointerMoveSteps ==
  ASSUME DocTypes, HandTypes, NEW p \in Pointers, PointerMove(p)
  PROVE  Changes /\ HandTypes'
<1>1. UNCHANGED <<readOnly, mode, pressed, resizing, editor>> /\ tracked' \subseteq Pointers
  BY DEF PointerMove, HandTypes
<1>2. CASE UNCHANGED <<doc, selected, erased>>
  BY <1>1, <1>2 DEF Changes, HandTypes
<1>3. CASE /\ \E S \in SUBSET Live(present) : erased' = erased \cup S
           /\ selected' = selected \ erased'
           /\ UNCHANGED doc
  BY <1>1, <1>3, TypesLive DEF Changes, HandTypes
<1>4. CASE /\ \E S \in SUBSET Ids : \E over \in Targets : MoveShapes(S, over)
           /\ UNCHANGED <<selected, erased>>
  <2>1. Changes
    BY <1>4, StoreFacts DEF DocTypes
  <2> QED BY <1>1, <1>4, <2>1 DEF HandTypes
<1>5. CASE \E over \in Targets : MoveShapes({resizing}, over) /\ UNCHANGED <<selected, erased>>
  <2>1. Changes
    BY <1>5, StoreFacts DEF DocTypes
  <2> QED BY <1>1, <1>5, <2>1 DEF HandTypes
<1>6. CASE selected' \in SUBSET Live(present) /\ UNCHANGED <<doc, erased>>
  BY <1>1, <1>6, TypesLive DEF Changes, HandTypes
<1>7. selected \in SUBSET Ids
  BY DEF HandTypes
<1> QED BY <1>2, <1>3, <1>4, <1>5, <1>6, <1>7 DEF PointerMove

LEMMA PointerUpSteps ==
  ASSUME DocTypes, HandTypes, NEW p \in Pointers, PointerUp(p)
  PROVE  Changes /\ HandTypes'
<1>1. /\ readOnly' = readOnly /\ editor' = editor
      /\ pressed' \subseteq Pointers /\ tracked' \subseteq Pointers
      /\ mode' \subseteq Gestures /\ resizing' \in Links /\ erased' \subseteq Ids
  BY StoppedTypes DEF PointerUp, WindowUp, HandTypes
<1>2. Changes /\ selected' \subseteq Ids
  <2>0. selected \subseteq Ids /\ present \in Board
    BY DEF HandTypes, DocTypes
  <2>1. CASE UpPan \/ UpSelect \/ UpResize
    BY <2>0, <2>1 DEF UpPan, UpSelect, UpResize, Changes
  <2>2. CASE UpErase
    BY <2>0, <2>2, StoreFacts DEF UpErase, Changes
  <2>3. CASE UpFreehand
    <3>1. CASE UNCHANGED doc
      BY <2>0, <2>3, <3>1 DEF UpFreehand, Changes
    <3>2. CASE \E i \in Boxes \cap Fresh : AddShape(i, NoShape)
      <4>1. NoShape \in Links /\ Boxes \subseteq Ids
        BY DEF Links, Ids
      <4> QED BY <2>0, <2>3, <3>2, <4>1, StoreFacts DEF UpFreehand
    <3> QED BY <2>3, <3>1, <3>2 DEF UpFreehand
  <2>4. CASE UpDraw
    <3>1. CASE UNCHANGED <<doc, selected>>
      BY <2>0, <3>1 DEF Changes
    <3>2. CASE \E i \in (Boxes \cup Connectors) \cap Fresh :
                 /\ \E over \in IF i \in Boxes THEN {NoShape} ELSE Targets : AddShape(i, over)
                 /\ selected' = {i}
      <4>1. PICK i \in Boxes \cup Connectors :
                 /\ \E over \in IF i \in Boxes THEN {NoShape} ELSE Targets : AddShape(i, over)
                 /\ selected' = {i}
        BY <3>2
      <4>2. i \in Ids
        BY DEF Ids
      <4>3. PICK over \in IF i \in Boxes THEN {NoShape} ELSE Targets : AddShape(i, over)
        BY <4>1
      <4>4. over \in Links
        BY <2>0, <4>3, StoreFacts DEF Links
      <4> QED BY <2>0, <4>1, <4>2, <4>3, <4>4, StoreFacts
    <3> QED BY <2>4, <3>1, <3>2 DEF UpDraw
  <2> QED BY <2>1, <2>2, <2>3, <2>4 DEF PointerUp
<1> QED BY <1>1, <1>2 DEF HandTypes

LEMMA OtherPointerSteps ==
  ASSUME DocTypes, HandTypes,
         (\E p \in Pointers : PointerCancel(p)) \/ ReleaseElsewhere \/ ContextMenu \/ MoveViewport
  PROVE  Changes /\ HandTypes'
<1>1. UNCHANGED <<doc, readOnly, selected, editor>> /\ pressed' \subseteq pressed
  BY DEF PointerCancel, ReleaseElsewhere, ContextMenu, MoveViewport
<1>2. tracked' \subseteq tracked
  BY DEF PointerCancel, ReleaseElsewhere, ContextMenu, MoveViewport
<1>3. Stopped \/ UNCHANGED <<mode, resizing, erased>>
  BY DEF PointerCancel, ReleaseElsewhere, ContextMenu, MoveViewport, WindowUp
<1> QED BY <1>1, <1>2, <1>3, StoppedTypes DEF HandTypes, Changes

\* The keys and the text editor.
LEMMA KeySteps ==
  ASSUME DocTypes, HandTypes, Key
  PROVE  Changes /\ HandTypes'
<1>1. UNCHANGED <<readOnly, gesture, editor>> /\ selected' \subseteq selected
  BY DEF Key, Undo, Redo, DeleteSelection, Nudge
<1>2. HandTypes'
  BY <1>1 DEF HandTypes, gesture
<1>3. CASE Undo
  BY <1>2, <1>3 DEF Undo, Changes, Undoes
<1>4. CASE Redo
  BY <1>2, <1>4 DEF Redo, Changes, Redoes
<1>5. CASE DeleteSelection
  BY <1>2, <1>5, StoreFacts DEF DeleteSelection, DocTypes
<1>6. CASE Nudge
  BY <1>2, <1>6, StoreFacts DEF Nudge, DocTypes
<1> QED BY <1>2, <1>3, <1>4, <1>5, <1>6 DEF Key

LEMMA TextSteps ==
  ASSUME DocTypes, HandTypes, Text
  PROVE  Changes /\ HandTypes'
<1>0. /\ present \in Board /\ NoShape \in Links /\ Texts \subseteq Ids /\ selected \subseteq Ids
      /\ editor.parent \in Links /\ editor.existing \in Texts \cup {NoShape}
  BY DEF DocTypes, HandTypes, Links, Ids
<1>1. UNCHANGED <<readOnly, gesture>>
  BY DEF Text, DoubleClick, CommitText, CommitNothing, CancelText
<1>2. editor' \in [open : BOOLEAN, existing : Texts \cup {NoShape}, parent : Links]
  <2>1. ClosedEditor \in [open : BOOLEAN, existing : Texts \cup {NoShape}, parent : Links]
    BY DEF ClosedEditor, Links
  <2>2. CASE DoubleClick
    BY <2>2 DEF DoubleClick, Editing, Links
  <2> QED BY <2>1, <2>2 DEF Text, CommitText, CommitNothing, CancelText
<1>3. Changes /\ selected' \subseteq Ids
  <2>1. CASE DoubleClick \/ CancelText
    BY <1>0, <2>1 DEF DoubleClick, CancelText, Changes
  <2>2. CASE CommitText
    <3>1. CASE editor.existing # NoShape
      BY <1>0, <2>2, <3>1, StoreFacts DEF CommitText
    <3>2. CASE ~(editor.existing # NoShape)
      <4>1. PICK i \in Texts : AddShape(i, editor.parent) /\ selected' = {i}
        BY <2>2, <3>2 DEF CommitText
      <4> QED BY <1>0, <4>1, StoreFacts
    <3> QED BY <3>1, <3>2
  <2>3. CASE CommitNothing
    BY <1>0, <2>3, StoreFacts DEF CommitNothing, Changes
  <2> QED BY <2>1, <2>2, <2>3 DEF Text
<1> QED BY <1>1, <1>2, <1>3 DEF HandTypes, gesture

\* The commands of the page and the snapshots.
LEMMA BoardsFacts == DocTypes => Boards \subseteq Board
<1> SUFFICES ASSUME DocTypes, NEW c \in Boards PROVE c \in Board
  OBVIOUS
<1>0. present \in [Ids -> Shape] /\ Board = [Ids -> Shape] /\ Boxes \subseteq Ids
  BY DEF DocTypes, Board, Ids
<1>1. PICK i \in Ids :
        c \in {[present EXCEPT ![i] = Gone]} \cup
              {[present EXCEPT ![i] = [by |-> "others", link |-> link]] :
                 link \in IF i \in Boxes THEN {NoShape} ELSE {NoShape} \cup Boxes}
  BY DEF Boards
<1>2. CASE c = [present EXCEPT ![i] = Gone]
  BY <1>0, <1>2, ShapeFacts
<1>3. ASSUME NEW link \in Links, c = [present EXCEPT ![i] = [by |-> "others", link |-> link]]
      PROVE  c \in Board
  <2> DEFINE s == [by |-> "others", link |-> link]
  <2>1. s \in Shape
    BY DEF Shape, Links
  <2> HIDE DEF s
  <2>2. c = [present EXCEPT ![i] = s]
    BY <1>3 DEF s
  <2> QED BY <1>0, <2>1, <2>2
<1>4. \A link \in IF i \in Boxes THEN {NoShape} ELSE {NoShape} \cup Boxes : link \in Links
  BY <1>0 DEF Links
<1> QED BY <1>1, <1>2, <1>3, <1>4

LEMMA CommandFacts ==
  ASSUME HandTypes, NEW c \in Board
  PROVE  Command(c) \/ CommandShown(c) => Changes /\ HandTypes'
<1>1. ASSUME Command(c) PROVE Changes /\ HandTypes'
  <2>1. Changes
    BY <1>1, SetShapesFacts DEF Command
  <2>2. HandTypes'
    BY <1>1 DEF Command, HandTypes, gesture
  <2> QED BY <2>1, <2>2
<1>2. ASSUME CommandShown(c) PROVE Changes /\ HandTypes'
  <2>1. Changes
    BY <1>2, SetShapesFacts DEF CommandShown
  <2>2. HandTypes'
    BY <1>2, StoppedTypes DEF CommandShown, HandTypes
  <2> QED BY <2>1, <2>2
<1> QED BY <1>1, <1>2

LEMMA CommandSteps ==
  ASSUME DocTypes, HandTypes, EditorCommand
  PROVE  Changes /\ HandTypes'
<1>0. /\ present \in Board /\ NoShape \in Links /\ Ids \subseteq Links
      /\ Boxes \subseteq Ids /\ Texts \subseteq Ids /\ Connectors \subseteq Ids /\ Fresh \subseteq Ids
      /\ Live(present) \subseteq Ids
      /\ \A i : LinksOf(i) \subseteq Links
  BY DEF DocTypes, Links, Ids, Fresh, Live, LinksOf
<1>1. CASE ApplyAi
  <2>1. CASE \E replaced \in SUBSET Live(present) :
               \/ Command(Without(present, replaced))
               \/ \E i \in replaced : Command(WithMine(Without(present, replaced), i, NoShape))
    <3>1. PICK replaced \in SUBSET Live(present) :
               \/ Command(Without(present, replaced))
               \/ \E i \in replaced : Command(WithMine(Without(present, replaced), i, NoShape))
      BY <2>1
    <3>2. Without(present, replaced) \in Board
      BY <1>0, BoardFacts
    <3>3. \A i \in replaced : WithMine(Without(present, replaced), i, NoShape) \in Board
      BY <1>0, <3>2, BoardFacts DEF WithMine
    <3> QED BY <3>1, <3>2, <3>3, CommandFacts
  <2>2. CASE \E i \in Fresh : \E link \in LinksOf(i) : CommandShown(WithMine(present, i, link))
    <3>1. PICK i \in Fresh : \E link \in LinksOf(i) : CommandShown(WithMine(present, i, link))
      BY <2>2
    <3>2. PICK link \in LinksOf(i) : CommandShown(WithMine(present, i, link))
      BY <3>1
    <3>3. WithMine(present, i, link) \in Board
      BY <1>0, BoardFacts DEF WithMine
    <3> QED BY <3>2, <3>3, CommandFacts
  <2> QED BY <1>1, <2>1, <2>2 DEF ApplyAi
<1>2. CASE InsertShapes \/ InsertSummary
  <2>1. \A i \in Ids : WithMine(present, i, NoShape) \in Board
    BY <1>0, BoardFacts DEF WithMine
  <2> QED BY <1>0, <1>2, <2>1, CommandFacts DEF InsertShapes, InsertSummary
<1>3. CASE Rearrange \/ ClearCanvas \/ SnapOff
  <2>1. /\ \A S : Written(present, S) \in Board
        /\ Unbound(present, Connectors) \in Board
    BY <1>0, BoardFacts
  <2>2. [i \in Ids |-> Gone] \in Board
    BY ShapeFacts DEF Board
  <2> QED BY <1>3, <2>1, <2>2, CommandFacts DEF Rearrange, ClearCanvas, SnapOff
<1>4. CASE AttachLabels
  <2>1. PICK i \in Ids : \E link \in Links : Command([present EXCEPT ![i].link = link])
    BY <1>0, <1>4 DEF AttachLabels
  <2>2. PICK link \in Links : Command([present EXCEPT ![i].link = link])
    BY <2>1
  <2>3. [present EXCEPT ![i].link = link] \in Board
    BY <1>0, BoardFacts
  <2> QED BY <2>2, <2>3, CommandFacts
<1>5. CASE RestoreVersion
  <2>1. PICK c \in Boards : SetShapes(c)
    BY <1>5 DEF RestoreVersion
  <2>2. Changes
    BY <2>1, BoardsFacts, SetShapesFacts
  <2> QED BY <1>5, <2>2 DEF RestoreVersion, HandTypes, gesture
<1>6. CASE MoveViewport
  BY <1>6, OtherPointerSteps
<1>7. CASE \E b \in BOOLEAN : SetReadOnly(b)
  BY <1>7 DEF SetReadOnly, Changes, HandTypes, gesture
<1> QED BY <1>1, <1>2, <1>3, <1>4, <1>5, <1>6, <1>7 DEF EditorCommand

LEMMA EditorSteps ==
  ASSUME EditorTypeOK, [EditorNext]_editorVars
  PROVE  Changes /\ HandTypes'
<1>0. DocTypes /\ HandTypes
  BY EditorTypes
<1>1. CASE UNCHANGED editorVars
  BY <1>0, <1>1 DEF editorVars, Changes, HandTypes, gesture
<1>2. CASE \E p \in Pointers : Pointer(p)
  BY <1>0, <1>2, PointerDownSteps, PointerMoveSteps, PointerUpSteps, OtherPointerSteps DEF Pointer
<1>3. CASE ReleaseElsewhere \/ ContextMenu
  BY <1>0, <1>3, OtherPointerSteps
<1>4. CASE Key \/ Text \/ EditorCommand
  BY <1>0, <1>4, KeySteps, TextSteps, CommandSteps
<1>5. CASE HydrateRemote
  <2>1. Changes
    BY <1>0, <1>5, BoardsFacts DEF HydrateRemote, Changes, Loads
  <2> QED BY <1>0, <1>5, <2>1 DEF HydrateRemote, HandTypes, gesture
<1> QED BY <1>1, <1>2, <1>3, <1>4, <1>5 DEF EditorNext

\* What each kind of change does to the history and its types.
LEMMA ChangesKeepTypes == DocTypes /\ Changes => DocTypes'
<1> SUFFICES ASSUME DocTypes, Changes PROVE DocTypes'
  OBVIOUS
<1>0. past \in Seq(Board) /\ present \in Board /\ future \in Seq(Board) /\ touched \subseteq Ids
  BY DEF DocTypes
<1>1. CASE UNCHANGED doc
  BY <1>0, <1>1 DEF doc, DocTypes
<1>2. CASE Edits
  <2>1. PICK c \in Board : SetTo(c, <<>>)
    BY <1>2 DEF Edits
  <2>2. Normalized(c) \in Board
    BY BoardFacts
  <2>3. past' = Append(past, present) /\ present' = Normalized(c) /\ future' = <<>>
    BY <2>1 DEF SetTo
  <2>4. past' \in Seq(Board) /\ future' \in Seq(Board)
    BY <1>0, <2>3
  <2>5. touched' \subseteq Ids
    BY <1>0, <2>1 DEF SetTo
  <2> QED BY <2>2, <2>3, <2>4, <2>5 DEF DocTypes
<1>3. CASE Loads
  <2>1. PICK c \in Board : Hydrate(c)
    BY <1>3 DEF Loads
  <2>2. Normalized(c) \in Board
    BY BoardFacts
  <2> QED BY <2>1, <2>2 DEF Hydrate, HydrateWith, DocTypes
<1>4. CASE Undoes
  <2>1. Last(past) \in Board /\ Front(past) \in Seq(Board)
    BY <1>0, <1>4 DEF Undoes, Last, Front
  <2>2. Append(future, present) \in Seq(Board)
    BY <1>0
  <2> QED BY <1>0, <1>4, <2>1, <2>2 DEF Undoes, DocTypes
<1>5. CASE Redoes
  <2>1. Last(future) \in Board /\ Front(future) \in Seq(Board)
    BY <1>0, <1>5 DEF Redoes, Last, Front
  <2>2. Append(past, present) \in Seq(Board)
    BY <1>0
  <2> QED BY <1>0, <1>5, <2>1, <2>2 DEF Redoes, DocTypes
<1> QED BY <1>1, <1>2, <1>3, <1>4, <1>5 DEF Changes

LEMMA EditorStarts == EditorInit => EditorTypeOK
<1> SUFFICES ASSUME EditorInit PROVE EditorTypeOK
  OBVIOUS
<1>1. present \in Board
  BY ShapeFacts DEF EditorInit, Board
<1>2. past \in Seq(Board) /\ future \in Seq(Board) /\ touched \subseteq Ids
  BY DEF EditorInit
<1>3. HandTypes
  BY DEF EditorInit, HandTypes, ClosedEditor, Links
<1> QED BY <1>1, <1>2, <1>3, EditorTypes DEF DocTypes

\* The shapes, the history, the gestures and the text editor keep their types.
THEOREM EditorTypeCorrect == EditorSpec => []EditorTypeOK
<1>1. EditorInit => EditorTypeOK
  BY EditorStarts
<1>2. EditorTypeOK /\ [EditorNext]_editorVars => EditorTypeOK'
  <2> SUFFICES ASSUME EditorTypeOK, [EditorNext]_editorVars PROVE EditorTypeOK'
    OBVIOUS
  <2>1. DocTypes /\ Changes /\ HandTypes'
    BY EditorSteps, EditorTypes
  <2>2. DocTypes'
    BY <2>1, ChangesKeepTypes
  <2>3. EditorTypeOK' <=> DocTypes' /\ HandTypes'
    BY DEF EditorTypeOK, DocTypes, HandTypes, Links
  <2> QED BY <2>1, <2>2, <2>3
<1> QED BY <1>1, <1>2, PTL DEF EditorSpec

\* The last of a history, and the rest of it.
LEMMA LastFront ==
  ASSUME NEW s \in Seq(Board), s # <<>>
  PROVE  /\ Len(s) \in Nat \ {0} /\ DOMAIN s = 1..Len(s)
         /\ Last(s) = s[Len(s)] /\ Front(s) \in Seq(Board)
         /\ Len(Front(s)) = Len(s) - 1 /\ DOMAIN Front(s) = 1..(Len(s) - 1)
         /\ \A n \in 1..(Len(s) - 1) : Front(s)[n] = s[n]
<1>1. Len(s) \in Nat \ {0} /\ DOMAIN s = 1..Len(s) /\ Last(s) = s[Len(s)]
  BY DEF Last
<1> DEFINE top == Len(s) - 1
           r == SubSeq(s, 1, top)
<1>2. \A n \in 1..top : s[n] \in Board
  BY <1>1
<1>3. top \in Nat
  BY <1>1
<1> HIDE DEF top
<1>6. /\ r \in Seq(Board)
      /\ Len(r) = IF 1 <= top THEN top - 1 + 1 ELSE 0
      /\ \A n \in 1..(top - 1 + 1) : r[n] = s[1 + n - 1]
  BY <1>2, <1>3, SubSeqProperties
<1> HIDE DEF r
<1>7. \A n \in 1..top : 1 + n - 1 = n
  BY <1>3
<1>8. Len(r) = top /\ \A n \in 1..top : r[n] = s[n]
  BY <1>3, <1>6, <1>7
<1>4. Len(r) = Len(s) - 1 /\ DOMAIN r = 1..Len(r) /\ \A n \in 1..(Len(s) - 1) : r[n] = s[n]
  BY <1>6, <1>8 DEF top
<1>5. Front(s) = r
  BY DEF Front, r, top
<1> QED BY <1>1, <1>4, <1>5, <1>6

LEMMA Appended ==
  ASSUME NEW s \in Seq(Board), NEW b \in Board
  PROVE  /\ Len(s) \in Nat /\ DOMAIN s = 1..Len(s)
         /\ Append(s, b) \in Seq(Board)
         /\ Len(Append(s, b)) = Len(s) + 1 /\ DOMAIN Append(s, b) = 1..(Len(s) + 1)
         /\ \A n \in 1..Len(s) : Append(s, b)[n] = s[n]
         /\ Append(s, b)[Len(s) + 1] = b
  OBVIOUS

LEMMA ChangesKeepRemote ==
  ASSUME DocTypes, RemoteKept, Changes
  PROVE  RemoteKept'
<1>0. past \in Seq(Board) /\ present \in Board /\ future \in Seq(Board) /\ touched \subseteq Ids
  BY DEF DocTypes
<1> SUFFICES ASSUME NEW i \in Ids, i \notin touched'
             PROVE  /\ \A n \in DOMAIN past' : past'[n][i] = present'[i]
                    /\ \A n \in DOMAIN future' : future'[n][i] = present'[i]
  BY DEF RemoteKept
<1>1. i \notin touched =>
        /\ \A n \in DOMAIN past : past[n][i] = present[i]
        /\ \A n \in DOMAIN future : future[n][i] = present[i]
  BY DEF RemoteKept
<1>2. CASE UNCHANGED doc
  BY <1>1, <1>2 DEF doc
<1>3. CASE Edits
  <2>1. past' = Append(past, present) /\ future' = <<>>
        /\ touched' = touched \cup {j \in Ids : present'[j] # present[j]}
    BY <1>3 DEF Edits, SetTo
  <2>2. i \notin touched /\ present'[i] = present[i]
    BY <2>1
  <2>3. /\ DOMAIN past' = DOMAIN past \cup {Len(past) + 1}
        /\ \A n \in DOMAIN past : past'[n] = past[n]
        /\ past'[Len(past) + 1] = present
    BY <1>0, <2>1, Appended
  <2> QED BY <1>1, <2>1, <2>2, <2>3
<1>4. CASE Loads
  BY <1>4 DEF Loads, Hydrate, HydrateWith
<1>5. CASE Undoes
  <2>1. /\ past # <<>> /\ present' = Last(past) /\ past' = Front(past)
        /\ future' = Append(future, present) /\ i \notin touched
    BY <1>5 DEF Undoes
  <2>2. /\ Len(past) \in DOMAIN past /\ present' = past[Len(past)]
        /\ DOMAIN past' \subseteq DOMAIN past
        /\ \A n \in DOMAIN past' : past'[n] = past[n]
    <3>1. /\ Len(past) \in Nat \ {0} /\ DOMAIN past = 1..Len(past)
          /\ Last(past) = past[Len(past)] /\ DOMAIN past' = 1..(Len(past) - 1)
          /\ \A n \in 1..(Len(past) - 1) : past'[n] = past[n]
      BY <1>0, <2>1, LastFront
    <3> QED BY <2>1, <3>1
  <2>3. /\ DOMAIN future' = DOMAIN future \cup {Len(future) + 1}
        /\ \A n \in DOMAIN future : future'[n] = future[n]
        /\ future'[Len(future) + 1] = present
    BY <1>0, <2>1, Appended
  <2> QED BY <1>1, <2>1, <2>2, <2>3
<1>6. CASE Redoes
  <2>1. /\ future # <<>> /\ present' = Last(future) /\ future' = Front(future)
        /\ past' = Append(past, present) /\ i \notin touched
    BY <1>6 DEF Redoes
  <2>2. /\ Len(future) \in DOMAIN future /\ present' = future[Len(future)]
        /\ DOMAIN future' \subseteq DOMAIN future
        /\ \A n \in DOMAIN future' : future'[n] = future[n]
    <3>1. /\ Len(future) \in Nat \ {0} /\ DOMAIN future = 1..Len(future)
          /\ Last(future) = future[Len(future)] /\ DOMAIN future' = 1..(Len(future) - 1)
          /\ \A n \in 1..(Len(future) - 1) : future'[n] = future[n]
      BY <1>0, <2>1, LastFront
    <3> QED BY <2>1, <3>1
  <2>3. /\ DOMAIN past' = DOMAIN past \cup {Len(past) + 1}
        /\ \A n \in DOMAIN past : past'[n] = past[n]
        /\ past'[Len(past) + 1] = present
    BY <1>0, <2>1, Appended
  <2> QED BY <1>1, <2>1, <2>2, <2>3
<1> QED BY <1>2, <1>3, <1>4, <1>5, <1>6 DEF Changes

\* Undo and redo never touch what others did: hydrateShapes drops the history,
\* and what this user did not change since is the same in all of it.
THEOREM RemoteIsKept == EditorSpec => []RemoteKept
<1>1. EditorInit => RemoteKept
  BY DEF EditorInit, RemoteKept
<1>2. EditorTypeOK /\ RemoteKept /\ [EditorNext]_editorVars => RemoteKept'
  BY EditorSteps, EditorTypes, ChangesKeepRemote
<1> QED BY <1>1, <1>2, EditorTypeCorrect, PTL DEF EditorSpec

\* The timeline: what was done, what is, and what was undone, last first.
Line(a, b, f) == a \o <<b>> \o Reverse(f)

IsLine(l, a, b, f) ==
  /\ l \in Seq(Board)
  /\ Len(l) = Len(a) + 1 + Len(f)
  /\ \A n \in 1..(Len(a) + 1 + Len(f)) :
       l[n] = IF n <= Len(a) THEN a[n]
              ELSE IF n = Len(a) + 1 THEN b ELSE f[Len(f) + 1 - (n - (Len(a) + 1))]

LEMMA LineFacts ==
  ASSUME NEW a \in Seq(Board), NEW b \in Board, NEW f \in Seq(Board)
  PROVE  IsLine(Line(a, b, f), a, b, f)
<1> DEFINE r == Reverse(f)
           ab == a \o <<b>>
<1>1. /\ r \in Seq(Board) /\ Len(r) = Len(f) /\ Len(f) \in Nat /\ Len(a) \in Nat
      /\ \A k \in 1..Len(f) : r[k] = f[Len(f) + 1 - k]
  <2>1. Len(f) \in Nat /\ Len(a) \in Nat /\ \A k \in 1..Len(f) : f[Len(f) - k + 1] \in Board
    OBVIOUS
  <2>2. r = [k \in 1..Len(f) |-> f[(Len(f) - k) + 1]]
    BY DEF Reverse
  <2>3. r \in Seq(Board) /\ Len(r) = Len(f)
    BY <2>1, <2>2
  <2>4. \A k \in 1..Len(f) : r[k] = f[Len(f) + 1 - k]
    <3> TAKE k \in 1..Len(f)
    <3>1. Len(f) - k + 1 = Len(f) + 1 - k
      BY <2>1
    <3> QED BY <2>2, <3>1
  <2> QED BY <2>1, <2>3, <2>4
<1>2. /\ ab \in Seq(Board) /\ Len(ab) = Len(a) + 1
      /\ \A n \in 1..Len(a) : ab[n] = a[n]
      /\ ab[Len(a) + 1] = b
  OBVIOUS
<1>7. ab \in Seq(Board) /\ r \in Seq(Board)
  BY <1>1, <1>2
<1> HIDE DEF r, ab
<1>3. /\ ab \o r \in Seq(Board)
      /\ Len(ab \o r) = Len(ab) + Len(r)
      /\ \A n \in 1..(Len(ab) + Len(r)) : (ab \o r)[n] = IF n <= Len(ab) THEN ab[n] ELSE r[n - Len(ab)]
  BY <1>7, ConcatProperties
<1> DEFINE l == ab \o r
<1>4. Line(a, b, f) = l
  BY DEF Line, ab, r
<1> HIDE DEF l
<1>5. ASSUME NEW n \in 1..(Len(a) + 1 + Len(f))
      PROVE  l[n] = IF n <= Len(a) THEN a[n]
                    ELSE IF n = Len(a) + 1 THEN b
                    ELSE f[Len(f) + 1 - (n - (Len(a) + 1))]
  <2>1. l[n] = IF n <= Len(a) + 1 THEN ab[n] ELSE r[n - (Len(a) + 1)]
    BY <1>1, <1>2, <1>3 DEF l
  <2>2. CASE n <= Len(a)
    BY <1>1, <1>2, <2>1, <2>2
  <2>3. CASE n = Len(a) + 1
    BY <1>1, <1>2, <2>1, <2>3
  <2>4. CASE n > Len(a) + 1
    <3>1. n - (Len(a) + 1) \in 1..Len(f)
      BY <1>1, <2>4
    <3>2. l[n] = r[n - (Len(a) + 1)]
      BY <1>1, <2>1, <2>4
    <3> QED BY <1>1, <2>4, <3>1, <3>2
  <2> QED BY <1>1, <2>2, <2>3, <2>4
<1>6. l \in Seq(Board) /\ Len(l) = Len(a) + 1 + Len(f)
  BY <1>1, <1>2, <1>3 DEF l
<1> QED BY <1>4, <1>5, <1>6 DEF IsLine

\* Undoing moves the last board of the past to the front of what was undone.
LEMMA SameLine ==
  ASSUME NEW a \in Seq(Board), NEW b \in Board, NEW f \in Seq(Board), a # <<>>
  PROVE  Line(Front(a), Last(a), Append(f, b)) = Line(a, b, f)
<1> DEFINE x == Front(a)
           y == Last(a)
           z == Append(f, b)
           l == Line(x, y, z)
           m == Line(a, b, f)
<1>1. /\ Len(a) \in Nat \ {0} /\ y = a[Len(a)] /\ x \in Seq(Board) /\ y \in Board
      /\ Len(x) = Len(a) - 1 /\ \A n \in 1..(Len(a) - 1) : x[n] = a[n]
  <2>1. /\ Len(a) \in Nat \ {0} /\ DOMAIN a = 1..Len(a)
        /\ y = a[Len(a)] /\ x \in Seq(Board)
        /\ Len(x) = Len(a) - 1 /\ \A n \in 1..(Len(a) - 1) : x[n] = a[n]
    BY LastFront
  <2> QED BY <2>1
<1>2. /\ Len(f) \in Nat /\ z \in Seq(Board) /\ Len(z) = Len(f) + 1
      /\ \A n \in 1..Len(f) : z[n] = f[n]
      /\ z[Len(f) + 1] = b
  BY Appended
<1> HIDE DEF x, y, z
<1>8. IsLine(l, x, y, z)
  BY <1>1, <1>2, LineFacts
<1>9. IsLine(m, a, b, f)
  BY LineFacts
<1> HIDE DEF l, m
<1>3. /\ l \in Seq(Board) /\ Len(l) = Len(x) + 1 + Len(z)
      /\ \A n \in 1..(Len(x) + 1 + Len(z)) :
           l[n] = IF n <= Len(x) THEN x[n]
                  ELSE IF n = Len(x) + 1 THEN y ELSE z[Len(z) + 1 - (n - (Len(x) + 1))]
  BY <1>8 DEF IsLine
<1>4. /\ m \in Seq(Board) /\ Len(m) = Len(a) + 1 + Len(f)
      /\ \A n \in 1..(Len(a) + 1 + Len(f)) :
           m[n] = IF n <= Len(a) THEN a[n]
                  ELSE IF n = Len(a) + 1 THEN b ELSE f[Len(f) + 1 - (n - (Len(a) + 1))]
  BY <1>9 DEF IsLine
<1>5. Len(l) = Len(m) /\ Len(m) = Len(a) + 1 + Len(f)
  BY <1>1, <1>2, <1>3, <1>4
<1>6. ASSUME NEW n \in 1..Len(m) PROVE l[n] = m[n]
  <2>0. n \in Nat /\ 1 <= n /\ n <= Len(a) + 1 + Len(f)
    BY <1>1, <1>2, <1>5
  <2>1. /\ l[n] = IF n <= Len(x) THEN x[n]
                  ELSE IF n = Len(x) + 1 THEN y ELSE z[Len(z) + 1 - (n - (Len(x) + 1))]
        /\ m[n] = IF n <= Len(a) THEN a[n]
                  ELSE IF n = Len(a) + 1 THEN b ELSE f[Len(f) + 1 - (n - (Len(a) + 1))]
    BY <1>1, <1>2, <1>3, <1>4, <1>5
  <2>2. CASE n <= Len(a) - 1
    BY <1>1, <2>0, <2>1, <2>2
  <2>3. CASE n = Len(a)
    BY <1>1, <2>0, <2>1, <2>3
  <2>4. CASE n = Len(a) + 1
    <3>1. Len(z) + 1 - (n - (Len(x) + 1)) = Len(f) + 1
      BY <1>1, <1>2, <2>4
    <3> QED BY <1>1, <1>2, <2>0, <2>1, <2>4, <3>1
  <2>5. CASE n > Len(a) + 1
    <3> DEFINE k == Len(f) + 1 - (n - (Len(a) + 1))
    <3>1. Len(z) + 1 - (n - (Len(x) + 1)) = k /\ k \in 1..Len(f)
      BY <1>1, <1>2, <2>0, <2>5
    <3>2. l[n] = z[k] /\ m[n] = f[k]
      BY <1>1, <2>0, <2>1, <2>5, <3>1
    <3> QED BY <1>2, <3>1, <3>2
  <2> QED BY <1>1, <2>0, <2>2, <2>3, <2>4, <2>5
<1>7. l = m
  BY <1>3, <1>4, <1>5, <1>6
<1> QED BY <1>7 DEF l, m, x, y, z

\* An edit keeps the timeline up to where it was.
LEMMA LineGrows ==
  ASSUME NEW a \in Seq(Board), NEW b \in Board, NEW f \in Seq(Board), NEW c \in Board
  PROVE  /\ Len(Line(Append(a, b), c, <<>>)) = Len(a) + 2
         /\ SubSeq(Line(Append(a, b), c, <<>>), 1, Len(a) + 1) = SubSeq(Line(a, b, f), 1, Len(a) + 1)
<1> DEFINE x == Append(a, b)
           l == Line(x, c, <<>>)
           m == Line(a, b, f)
<1>1. /\ Len(a) \in Nat /\ x \in Seq(Board) /\ Len(x) = Len(a) + 1
      /\ \A n \in 1..Len(a) : x[n] = a[n]
      /\ x[Len(a) + 1] = b
  BY Appended
<1>0. <<>> \in Seq(Board) /\ Len(<<>>) = 0 /\ Len(f) \in Nat
  OBVIOUS
<1> HIDE DEF x
<1> DEFINE none == <<>>
<1>11. none \in Seq(Board) /\ Len(none) = 0
  OBVIOUS
<1> HIDE DEF none
<1>12. IsLine(Line(x, c, none), x, c, none)
  BY <1>1, <1>11, LineFacts
<1>13. l = Line(x, c, none)
  BY DEF none
<1>14. IsLine(m, a, b, f)
  BY LineFacts
<1> HIDE DEF l, m
<1>2. /\ l \in Seq(Board) /\ Len(l) = Len(x) + 1
      /\ \A n \in 1..Len(x) : l[n] = x[n]
  BY <1>1, <1>11, <1>12, <1>13 DEF IsLine
<1>3. /\ m \in Seq(Board) /\ Len(m) = Len(a) + 1 + Len(f)
      /\ \A n \in 1..(Len(a) + 1 + Len(f)) :
           m[n] = IF n <= Len(a) THEN a[n]
                  ELSE IF n = Len(a) + 1 THEN b ELSE f[Len(f) + 1 - (n - (Len(a) + 1))]
  BY <1>14 DEF IsLine
<1>4. ASSUME NEW n \in 1..(Len(a) + 1) PROVE l[n] = m[n] /\ l[n] \in Board /\ m[n] \in Board
  <2>1. l[n] = x[n] /\ x[n] \in Board
    BY <1>0, <1>1, <1>2
  <2>2. m[n] = IF n <= Len(a) THEN a[n] ELSE b
    BY <1>0, <1>1, <1>3
  <2> QED BY <1>1, <2>1, <2>2
<1> DEFINE p == SubSeq(l, 1, Len(a) + 1)
           q == SubSeq(m, 1, Len(a) + 1)
           top == Len(a) + 1
<1>5. top \in Int /\ 1 <= top /\ top - 1 + 1 = top
  BY <1>1
<1>6. (\A n \in 1..top : l[n] \in Board) /\ \A n \in 1..top : m[n] \in Board
  BY <1>4
<1> HIDE DEF top
<1>7. /\ SubSeq(l, 1, top) \in Seq(Board)
      /\ Len(SubSeq(l, 1, top)) = top
      /\ \A n \in 1..top : SubSeq(l, 1, top)[n] = l[n]
  <2>1. /\ SubSeq(l, 1, top) \in Seq(Board)
        /\ Len(SubSeq(l, 1, top)) = IF 1 <= top THEN top - 1 + 1 ELSE 0
        /\ \A n \in 1..(top - 1 + 1) : SubSeq(l, 1, top)[n] = l[1 + n - 1]
    BY <1>5, <1>6, SubSeqProperties
  <2>2. \A n \in 1..top : 1 + n - 1 = n
    BY <1>5
  <2> QED BY <1>5, <2>1, <2>2
<1>8. /\ SubSeq(m, 1, top) \in Seq(Board)
      /\ Len(SubSeq(m, 1, top)) = top
      /\ \A n \in 1..top : SubSeq(m, 1, top)[n] = m[n]
  <2>1. /\ SubSeq(m, 1, top) \in Seq(Board)
        /\ Len(SubSeq(m, 1, top)) = IF 1 <= top THEN top - 1 + 1 ELSE 0
        /\ \A n \in 1..(top - 1 + 1) : SubSeq(m, 1, top)[n] = m[1 + n - 1]
    BY <1>5, <1>6, SubSeqProperties
  <2>2. \A n \in 1..top : 1 + n - 1 = n
    BY <1>5
  <2> QED BY <1>5, <2>1, <2>2
<1>9. SubSeq(l, 1, top) = SubSeq(m, 1, top)
  <2>1. \A n \in 1..top : l[n] = m[n]
    BY <1>4 DEF top
  <2> DEFINE u == SubSeq(l, 1, top)
             v == SubSeq(m, 1, top)
  <2>2. u \in Seq(Board) /\ v \in Seq(Board) /\ Len(u) = Len(v) /\ \A n \in 1..Len(u) : u[n] = v[n]
    BY <1>7, <1>8, <2>1
  <2> HIDE DEF u, v
  <2>3. u = v
    BY <2>2
  <2> QED BY <2>3 DEF u, v
<1>10. Len(l) = Len(a) + 2
  BY <1>0, <1>1, <1>2
<1> QED BY <1>9, <1>10 DEF l, m, x, top

\* The editor edits one timeline: an edit drops what was undone, undo and redo
\* move in it, a snapshot starts another (state.ts).
THEOREM EditorKeepsTimeline == EditorSpec => Timeline
<1> DEFINE line == Line(past, present, future)
           at == Len(past) + 1
<1>1. EditorInit => T!TInit
  <2> SUFFICES ASSUME EditorInit PROVE T!TInit
    OBVIOUS
  <2>1. DocTypes /\ past = <<>> /\ future = <<>>
    BY EditorStarts, EditorTypes DEF EditorInit
  <2>2. Len(line) = Len(past) + 1 + Len(future)
    BY <2>1, LineFacts DEF DocTypes, IsLine
  <2> QED BY <2>1, <2>2 DEF Line, T!TInit
<1>2. EditorTypeOK /\ EditorTypeOK' /\ [EditorNext]_editorVars
        => [T!Edit \/ T!Back \/ T!Forth \/ T!Load]_(T!tvars)
  <2> SUFFICES ASSUME EditorTypeOK, EditorTypeOK', [EditorNext]_editorVars
               PROVE  [T!Edit \/ T!Back \/ T!Forth \/ T!Load]_(T!tvars)
    OBVIOUS
  <2>0. /\ past \in Seq(Board) /\ present \in Board /\ future \in Seq(Board)
        /\ past' \in Seq(Board) /\ present' \in Board /\ future' \in Seq(Board)
    BY DEF EditorTypeOK
  <2>1. Changes
    BY EditorSteps
  <2>2. CASE UNCHANGED doc
    BY <2>2 DEF doc, T!tvars
  <2>3. CASE Edits
    <3>1. past' = Append(past, present) /\ future' = <<>>
      BY <2>3 DEF Edits, SetTo
    <3>2. /\ Len(Line(past', present', future')) = Len(past) + 2
          /\ SubSeq(Line(past', present', future'), 1, Len(past) + 1) = SubSeq(line, 1, Len(past) + 1)
      BY <2>0, <3>1, LineGrows
    <3>3. Len(past') = Len(past) + 1 /\ Len(past) \in Nat
      BY <2>0, <3>1, Appended
    <3>4. T!Edit
      BY <3>2, <3>3 DEF Line, T!Edit
    <3> QED BY <3>4
  <2>4. CASE Loads
    <3>1. past' = <<>> /\ future' = <<>>
      BY <2>4 DEF Loads, Hydrate, HydrateWith
    <3>2. Len(Line(past', present', future')) = Len(past') + 1 + Len(future')
      BY <2>0, LineFacts DEF IsLine
    <3>3. Len(past') + 1 = 1 /\ Len(Line(past', present', future')) = 1
      BY <3>1, <3>2
    <3>4. T!Load
      BY <3>3 DEF Line, T!Load
    <3> QED BY <3>4
  <2>5. CASE Undoes
    <3>1. /\ past # <<>> /\ present' = Last(past) /\ past' = Front(past)
          /\ future' = Append(future, present)
      BY <2>5 DEF Undoes
    <3>2. Line(past', present', future') = line
      BY <2>0, <3>1, SameLine
    <3>3. Len(past) \in Nat \ {0} /\ Len(past') = Len(past) - 1
      BY <2>0, <3>1, LastFront
    <3>4. T!Back
      BY <3>2, <3>3 DEF Line, T!Back
    <3> QED BY <3>4
  <2>6. CASE Redoes
    <3>1. /\ future # <<>> /\ present' = Last(future) /\ future' = Front(future)
          /\ past' = Append(past, present)
      BY <2>6 DEF Redoes
    <3>2. /\ Len(past') = Len(past) + 1 /\ Len(past) \in Nat
          /\ past' # <<>> /\ Front(past') = past /\ Last(past') = present
      <4>1. /\ Len(past) \in Nat /\ Len(past') = Len(past) + 1
            /\ \A n \in 1..Len(past) : past'[n] = past[n]
            /\ past'[Len(past) + 1] = present
        BY <2>0, <3>1, Appended
      <4>2. past' # <<>>
        BY <2>0, <4>1
      <4>3. /\ Last(past') = past'[Len(past')] /\ Front(past') \in Seq(Board)
            /\ Len(Front(past')) = Len(past') - 1
            /\ \A n \in 1..(Len(past') - 1) : Front(past')[n] = past'[n]
        BY <2>0, <4>2, LastFront
      <4> DEFINE x == Front(past')
      <4>4. x \in Seq(Board) /\ Len(x) = Len(past) /\ \A n \in 1..Len(past) : x[n] = past[n]
        BY <4>1, <4>3
      <4> HIDE DEF x
      <4>5. x = past
        BY <2>0, <4>4
      <4> QED BY <4>1, <4>2, <4>3, <4>5 DEF x
    <3>3. /\ Len(future) \in Nat \ {0} /\ Len(future') = Len(future) - 1
          /\ Append(future', present') = future
      <4>1. /\ Len(future) \in Nat \ {0} /\ Len(future') = Len(future) - 1
            /\ Last(future) = future[Len(future)]
            /\ \A n \in 1..(Len(future) - 1) : future'[n] = future[n]
        BY <2>0, <3>1, LastFront
      <4> DEFINE x == Append(future', present')
      <4>2. /\ x \in Seq(Board) /\ Len(x) = Len(future') + 1
            /\ \A n \in 1..Len(future') : x[n] = future'[n]
            /\ x[Len(future') + 1] = present'
        BY <2>0, Appended
      <4> HIDE DEF x
      <4>3. Len(x) = Len(future)
        BY <4>1, <4>2
      <4>4. ASSUME NEW n \in 1..Len(future) PROVE x[n] = future[n]
        BY <3>1, <4>1, <4>2
      <4>5. x = future
        BY <2>0, <4>2, <4>3, <4>4
      <4> QED BY <4>1, <4>5 DEF x
    <3>4. Line(past', present', future') = line
      <4>1. Line(Front(past'), Last(past'), Append(future', present')) = Line(past', present', future')
        BY <2>0, <3>2, SameLine
      <4> QED BY <3>2, <3>3, <4>1
    <3>5. Len(line) = Len(past) + 1 + Len(future)
      BY <2>0, LineFacts DEF IsLine
    <3>6. Len(past) + 1 < Len(line)
      BY <3>2, <3>3, <3>5
    <3>7. T!Forth
      BY <3>2, <3>4, <3>6 DEF Line, T!Forth
    <3> QED BY <3>7
  <2> QED BY <2>1, <2>2, <2>3, <2>4, <2>5, <2>6 DEF Changes
<1> QED BY <1>1, <1>2, EditorTypeCorrect, PTL DEF EditorSpec, Timeline, T!TSpec

=============================================================================
