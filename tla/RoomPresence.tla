---------------------------- MODULE RoomPresence ----------------------------
(***************************************************************************)
(* Who is in a room, and who is in its voice call, on the WebSocket nodes: *)
(* ws/connectionState.ts, the handlers of join_room, update_presence and   *)
(* the voice event in ws/messageHandler.ts, the close handler and the      *)
(* subscription of index.ts, and what the pages are shown.  One room.      *)
(*                                                                         *)
(* A presence is the selection of the user, 0 when nothing is selected.    *)
(***************************************************************************)
EXTENDS Integers, Sequences, FiniteSets, Functions

CONSTANTS
  Nodes,         \* the processes of ws-backend
  Users,
  Sockets,       \* the connections, each of one page that opens it once
  UserOf,        \* UserOf[s]: the user of the socket
  Speakers,      \* bound: the sockets whose pages use the call
  Selectors,     \* bound: the sockets whose pages select something
  NoNode,        \* the node of a socket that is not open yet
  MaxSelection,  \* the selections are 0..MaxSelection
  MaxInbox,      \* bound: messages of a socket that wait for their handler
  MaxChannel     \* bound: events on their way between the nodes

ASSUME RoomPresenceAssumption ==
  /\ UserOf \in [Sockets -> Users]
  /\ Speakers \subseteq Sockets /\ Selectors \subseteq Sockets
  /\ NoNode \notin Nodes
  /\ MaxSelection \in Nat
  /\ MaxInbox \in Nat \ {0}
  /\ MaxChannel \in Nat
  /\ IsFiniteSet(Sockets)

VARIABLES
  node,      \* node[s]: the node the socket was opened to
  open,      \* the sockets whose readyState is OPEN
  current,   \* the sockets with a currentRoomId
  inbox,     \* inbox[s]: the messageQueue
  room,      \* room[n]: activeRooms
  count,     \* count[n][u]: roomParticipants
  presence,  \* presence[n][u]: roomPresences
  pending,   \* the nodes with a pendingPresenceBroadcast
  voice,     \* voice[n]: roomVoice
  channel,   \* channel[n]: what Redis Pub/Sub has for the node
  view,      \* view[s]: the presences its page shows
  heard      \* heard[s]: the participants of the call its page knows,
             \* beside its own user

sockets == <<node, open, current>>
members == <<room, count, presence>>
pages == <<view, heard>>
vars == <<sockets, inbox, members, pending, voice, channel, pages>>

Absent == -1
Empty == [u \in Users |-> Absent]

Init ==
  /\ node = [s \in Sockets |-> NoNode]
  /\ open = {} /\ current = {}
  /\ inbox = [s \in Sockets |-> <<>>]
  /\ room = [n \in Nodes |-> {}]
  /\ count = [n \in Nodes |-> [u \in Users |-> 0]]
  /\ presence = [n \in Nodes |-> Empty]
  /\ pending = {}
  /\ voice = [n \in Nodes |-> {}]
  /\ channel = [n \in Nodes |-> <<>>]
  /\ view = [s \in Sockets |-> Empty]
  /\ heard = [s \in Sockets |-> {}]

(* ------------------------------- messages ------------------------------- *)

JoinMessage == [kind |-> "join"]
PresenceMessage(selection) == [kind |-> "presence", selection |-> selection]
VoiceMessage(on) == [kind |-> "voice", on |-> on]

\* The presences of a node, or a change of the call, for the other nodes.
StateEvent(presences) == [kind |-> "state", presences |-> presences]
VoiceEvent(u, on) == [kind |-> "voice", user |-> u, on |-> on]

UnderWay == SumFunctionOnSet([m \in Nodes |-> Len(channel[m])], Nodes)

\* Redis Pub/Sub delivers in order and at most once.
Publish(n, event) ==
  \E reached \in SUBSET (Nodes \ {n}) :
    /\ UnderWay + Cardinality(reached) <= MaxChannel
    /\ channel' = [m \in Nodes |->
                    IF m \in reached THEN Append(channel[m], event) ELSE channel[m]]

\* broadcastToRoomAll: a socket that is not open is passed over.
Listeners(n) == room[n] \cap open
ShowTo(listeners, presences) ==
  view' = [s \in Sockets |->
            IF s \in listeners THEN presences ELSE view[s]]

With(set, u, on) == IF on THEN set \cup {u} ELSE set \ {u}
TellTo(listeners, u, on) ==
  heard' = [s \in Sockets |->
             IF s \in listeners /\ UserOf[s] # u THEN With(heard[s], u, on) ELSE heard[s]]

(* -------------------------------- the pages ----------------------------- *)

\* connectWebSocket; onopen sends join_room, the only time on this socket.
Connect(s, n) ==
  /\ node[s] = NoNode
  /\ node' = [node EXCEPT ![s] = n]
  /\ open' = open \cup {s}
  /\ inbox' = [inbox EXCEPT ![s] = <<JoinMessage>>]
  /\ UNCHANGED <<current, members, pending, voice, channel, pages>>

\* The page got its room_joined, and its socket is open.
Joined(s) == s \in open \cap current

Send(s, message) ==
  /\ Len(inbox[s]) < MaxInbox
  /\ inbox' = [inbox EXCEPT ![s] = Append(@, message)]

SendPresence(s) ==
  /\ Joined(s) /\ s \in Selectors
  /\ \E selection \in 0..MaxSelection : Send(s, PresenceMessage(selection))
  /\ UNCHANGED <<sockets, members, pending, voice, channel, pages>>

\* join and leave of the call.  One that finds no connection tells nobody, so
\* that the next may say what was said before.
SendVoice(s) ==
  /\ Joined(s) /\ s \in Speakers
  /\ \E on \in BOOLEAN : Send(s, VoiceMessage(on))
  /\ UNCHANGED <<sockets, members, pending, voice, channel, pages>>

(* ----------------------------- the handlers ----------------------------- *)

\* The next message of the socket.  Its turn comes when the handlers before it,
\* which await Redis and Postgres, are through, and that may be after close.
Takes(s, kind) ==
  /\ inbox[s] # <<>> /\ Head(inbox[s]).kind = kind
  /\ inbox' = [inbox EXCEPT ![s] = Tail(@)]

\* getRoomRole finds no role, or initializeRoomSync throws.
RefuseJoin(s) ==
  /\ Takes(s, "join")
  /\ UNCHANGED <<sockets, members, pending, voice, channel, pages>>

\* (Changed form: a late joiner is not told of the call.)
ReplayNothing(s, n) == UNCHANGED heard

\* room_joined is followed by the participants of the call.
Replay(s, n) ==
  heard' = [heard EXCEPT ![s] =
             IF s \in open THEN @ \cup (voice[n] \ {UserOf[s]}) ELSE @]

\* join_room after its awaits: whether the socket is still open is not asked.
Join(s) ==
  LET n == node[s]
      u == UserOf[s]
  IN /\ Takes(s, "join")
     /\ room' = [room EXCEPT ![n] = @ \cup {s}]
     /\ current' = current \cup {s}
     /\ count' = [count EXCEPT ![n][u] = @ + 1]
     /\ presence' = IF count[n][u] = 0 THEN [presence EXCEPT ![n][u] = 0] ELSE presence
     /\ ShowTo({s} \cap open, presence'[n])
     /\ Replay(s, n)
     /\ pending' = pending \cup {n}
     /\ UNCHANGED <<node, open, voice, channel>>

UpdatePresence(s) ==
  LET n == node[s]
  IN /\ Takes(s, "presence") /\ s \in current
     /\ presence' = [presence EXCEPT ![n][UserOf[s]] = Head(inbox[s]).selection]
     /\ pending' = pending \cup {n}
     /\ UNCHANGED <<sockets, room, count, voice, channel, pages>>

\* The voice event goes to the others of the room, and to the other nodes.
UpdateVoice(s) ==
  LET n == node[s]
      u == UserOf[s]
      on == Head(inbox[s]).on
  IN /\ Takes(s, "voice") /\ s \in current
     /\ voice' = [voice EXCEPT ![n] = With(@, u, on)]
     /\ TellTo(Listeners(n) \ {s}, u, on)
     /\ Publish(n, VoiceEvent(u, on))
     /\ UNCHANGED <<sockets, members, pending, view>>

\* (Changed form: the presence goes with the first socket that leaves.)
LeavesWithFirst(n, u) == count[n][u] >= 1

\* leaveActiveRoom says that the user left entirely.
LeavesWithLast(n, u) == count[n][u] <= 1

\* (Changed form: the list is not sent again.)
RemovedQuietly(n, u) ==
  /\ presence' = [presence EXCEPT ![n][u] = Absent]
  /\ UNCHANGED pending

\* removeRoomPresence and broadcastRoomPresenceState.
Removed(n, u) ==
  /\ presence' = [presence EXCEPT ![n][u] = Absent]
  /\ pending' = pending \cup {n}

\* With the sockets go their pages, and what they knew of the call.
PagesGone(gone) ==
  view' = [s \in Sockets |-> IF s \in gone THEN Empty ELSE view[s]]
Forgotten(gone) == heard' = [s \in Sockets |-> IF s \in gone THEN {} ELSE heard[s]]

\* Who left entirely is taken out of the call: "Dropped connections must not
\* leave a ghost in the voice call."
HangUp(s, n, u) ==
  IF u \in voice[n]
  THEN /\ voice' = [voice EXCEPT ![n] = @ \ {u}]
       /\ heard' = [t \in Sockets |->
                     CASE t = s -> {}
                       [] t \in Listeners(n) \ {s} -> heard[t] \ {u}
                       [] OTHER -> heard[t]]
       /\ Publish(n, VoiceEvent(u, FALSE))
  ELSE Forgotten({s}) /\ UNCHANGED <<voice, channel>>

\* ws.on("close"), with a room.
CloseJoined(s) ==
  LET n == node[s]
      u == UserOf[s]
  IN /\ s \in open \cap current
     /\ open' = open \ {s}
     /\ room' = [room EXCEPT ![n] = @ \ {s}]
     /\ count' = [count EXCEPT ![n][u] = IF @ <= 1 THEN 0 ELSE @ - 1]
     /\ IF LeavesWithLast(n, u) THEN Removed(n, u) /\ HangUp(s, n, u)
        ELSE Forgotten({s}) /\ UNCHANGED <<presence, pending, voice, channel>>
     /\ PagesGone({s})
     /\ UNCHANGED <<node, current, inbox>>

\* The join of the socket was not handled yet, or was refused.
CloseUnjoined(s) ==
  /\ s \in open \ current
  /\ open' = open \ {s}
  /\ PagesGone({s}) /\ Forgotten({s})
  /\ UNCHANGED <<node, current, inbox, members, pending, voice, channel>>

\* The timer of broadcastRoomPresenceState.
Fire(n) ==
  /\ n \in pending
  /\ pending' = pending \ {n}
  /\ ShowTo(Listeners(n), presence[n])
  /\ Publish(n, StateEvent(presence[n]))
  /\ UNCHANGED <<sockets, inbox, members, voice, heard>>

Received(n, kind) ==
  /\ channel[n] # <<>> /\ Head(channel[n]).kind = kind
  /\ channel' = [channel EXCEPT ![n] = Tail(@)]

\* applyRemotePresenceState: what the other node has for a user replaces what
\* is here, and a user it has not stays.
ReceiveState(n) ==
  LET sent == Head(channel[n]).presences
  IN /\ Received(n, "state")
     /\ presence' = [presence EXCEPT ![n] =
                      [u \in Users |-> IF sent[u] # Absent THEN sent[u] ELSE @[u]]]
     /\ ShowTo(Listeners(n), presence'[n])
     /\ UNCHANGED <<sockets, inbox, room, count, pending, voice, heard>>

ReceiveVoice(n) ==
  LET event == Head(channel[n])
  IN /\ Received(n, "voice")
     /\ voice' = [voice EXCEPT ![n] = With(@, event.user, event.on)]
     /\ TellTo(Listeners(n), event.user, event.on)
     /\ UNCHANGED <<sockets, inbox, members, pending, view>>

\* The process ends and is started again: all it knew was in its memory.
Restart(n) ==
  LET own == {s \in Sockets : node[s] = n}
  IN /\ own \cap open # {}
     /\ open' = open \ own
     /\ current' = current \ own
     /\ inbox' = [s \in Sockets |-> IF s \in own THEN <<>> ELSE inbox[s]]
     /\ room' = [room EXCEPT ![n] = {}]
     /\ count' = [count EXCEPT ![n] = [u \in Users |-> 0]]
     /\ presence' = [presence EXCEPT ![n] = Empty]
     /\ pending' = pending \ {n}
     /\ voice' = [voice EXCEPT ![n] = {}]
     /\ channel' = [channel EXCEPT ![n] = <<>>]
     /\ PagesGone(own) /\ Forgotten(own)
     /\ UNCHANGED node

Socket(s) ==
  \/ \E n \in Nodes : Connect(s, n)
  \/ SendPresence(s)
  \/ SendVoice(s)
  \/ RefuseJoin(s) \/ Join(s) \/ UpdatePresence(s) \/ UpdateVoice(s)
  \/ CloseJoined(s) \/ CloseUnjoined(s)

Node(n) == Fire(n) \/ ReceiveState(n) \/ ReceiveVoice(n) \/ Restart(n)

Next == (\E s \in Sockets : Socket(s)) \/ (\E n \in Nodes : Node(n))

Spec == Init /\ [][Next]_vars

(* ------------------------------ properties ------------------------------ *)

Message ==
  {JoinMessage} \cup {PresenceMessage(selection) : selection \in 0..MaxSelection}
                \cup {VoiceMessage(on) : on \in BOOLEAN}
Presences == [Users -> Absent..MaxSelection]
Event ==
  {StateEvent(p) : p \in Presences} \cup {VoiceEvent(u, on) : u \in Users, on \in BOOLEAN}

\* The types of the variables.
TypeOK ==
  /\ node \in [Sockets -> Nodes \cup {NoNode}]
  /\ open \subseteq Sockets /\ current \subseteq Sockets
  /\ inbox \in [Sockets -> Seq(Message)]
  /\ room \in [Nodes -> SUBSET Sockets]
  /\ count \in [Nodes -> [Users -> Nat]]
  /\ presence \in [Nodes -> Presences]
  /\ pending \subseteq Nodes
  /\ voice \in [Nodes -> SUBSET Users]
  /\ channel \in [Nodes -> Seq(Event)]
  /\ view \in [Sockets -> Presences]
  /\ heard \in [Sockets -> SUBSET Users]

SocketsOf(n, u) == {s \in room[n] : UserOf[s] = u}

\* The participants of a node are counted by their sockets, whichever of their
\* tabs closed first and whatever the other nodes sent meanwhile, and while one
\* is there the user is in the list of presences.
MembersCounted ==
  \A n \in Nodes, u \in Users :
    /\ count[n][u] = Cardinality(SocketsOf(n, u))
    /\ count[n][u] > 0 => presence[n][u] # Absent

\* While no broadcast is pending, every page of the node shows what the node
\* has, local and remote changes alike: the debounce never drops the last one.
ViewsCurrent ==
  \A n \in Nodes \ pending : \A s \in Listeners(n) : view[s] = presence[n]

\* Every page knows exactly the participants of the call its node knows, early
\* or late, beside its own user.
CallKnown ==
  \A n \in Nodes : \A s \in Listeners(n) :
    heard[s] = voice[n] \ {UserOf[s]}

\* Nothing is under way on any node.
Quiet ==
  /\ pending = {}
  /\ \A s \in Sockets : inbox[s] = <<>>
  /\ \A n \in Nodes : channel[n] = <<>>

\* "On disconnect, the server removes the user from the presence list and
\* broadcasts the update to remaining peers" (docs/architecture-realtime-sync.md):
\* when nothing is under way, no page shows a user without an open socket.
LeaversGone ==
  Quiet => \A s \in open \cap current, u \in Users :
             view[s][u] # Absent => \E t \in open : UserOf[t] = u
=============================================================================
