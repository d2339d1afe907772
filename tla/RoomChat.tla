------------------------------- MODULE RoomChat -------------------------------
(***************************************************************************)
(* The chat of one room: the handler of send_chat_message in               *)
(* ws/messageHandler.ts, the relay of its events between the nodes, the    *)
(* bootstrap of room.controller.ts, and on the pages useCanvasChat.ts and  *)
(* the seen marks of CanvasMessenger.tsx.                                  *)
(*                                                                         *)
(* A message is named by its id, its place in the table.                   *)
(***************************************************************************)
EXTENDS Integers, Sequences, FiniteSets, FiniteSetsExt

CONSTANTS
  Nodes, Users,
  Messengers,  \* the open canvas pages, one per user
  UserOf,      \* UserOf[p]: the user of the page
  NodeOf,      \* NodeOf[p]: the node its socket is opened to
  Contents,    \* what is written: [kind, to], to a user, the shape or Nothing
  Nothing,
  Writes,      \* bound: Writes[p] is what the page writes, each at most once
  MaxWritten,  \* bound: what all pages write together
  Readers,     \* bound: the pages whose messenger is opened
  Opened,      \* bound: the tabs that are opened
  Settled,     \* the pages that are open before anything is written
  Removable,   \* bound: the users that may lose their access
  MaxTrouble   \* bound: lost connections, failing creates and publishes, and
               \* the deleted shape

ASSUME RoomChatAssumption ==
  /\ UserOf \in [Messengers -> Users] /\ NodeOf \in [Messengers -> Nodes]
  /\ \A p, q \in Messengers : UserOf[p] = UserOf[q] => p = q
  /\ Writes \in [Messengers -> SUBSET Contents]
  /\ Readers \cup Settled \subseteq Messengers
  /\ Opened \subseteq {"general", "direct"}
  /\ MaxWritten \in Nat /\ MaxTrouble \in Nat

VARIABLES
  access,    \* the users with access to the room
  shape,     \* whether the commented shape exists
  posts,     \* the rows of Chat: [by, what]
  room,      \* the pages whose sockets are in activeRooms of their node
  inbox,     \* inbox[p]: the messageQueue of its socket
  checked,   \* checked[p]: what its handler is about to create, or Nothing
  created,   \* created[p]: the row its handler has not broadcast yet, 0 none
  channel,   \* channel[n]: the chat events Redis has for the node
  wire,      \* wire[p]: what was sent to the page, <<type, value>>
  ws,        \* ws[p]: the socket of the page
  boot,      \* boot[p]: where its bootstrap request is
  answer,    \* answer[p]: the messages in the bootstrap's response
  realtime,  \* realtime[p]: realtimeChatMessages
  shown,     \* shown[p]: groupMessages, directMessages and comments
  outgoing,  \* outgoing[p]: optimisticMessages, [what, state]
  error,     \* error[p]: lastSyncError
  panel,     \* panel[p]: the tab of the messenger, or "closed"
  seen,      \* seen[p][t]: seenGeneralMessageId, seenDirectMessageId
  stored,    \* stored[u][t]: the same in the user's localStorage
  lost,      \* the messages whose publish failed
  trouble,   \* how much trouble there was
  whole,     \* the pages whose bootstrap was read while they were in the
             \* room, and that stayed since
  written,   \* written[p]: what was written on the page
  onScreen   \* onScreen[u]: the messages a loaded open tab has shown

server == <<access, shape, posts, room, inbox, checked, created, channel>>
talk == <<boot, answer, realtime, shown, outgoing, error>>
marks == <<panel, seen, stored, onScreen>>
history == <<lost, trouble, whole, written>>
chatVars == <<server, wire, ws, talk, marks, history>>

Tabs == {"general", "direct"}
Ids == 1..Len(posts)
Kind(i) == posts[i].what.kind
TabOf(i) == IF Kind(i) = "direct" THEN "direct" ELSE "general"

Trouble == trouble < MaxTrouble /\ trouble' = trouble + 1

JoinRoom == [kind |-> "join", to |-> Nothing]

Fresh(value) == [p \in Messengers |-> value]
Settling(settled, other) ==
  [p \in Messengers |-> IF p \in Settled THEN settled ELSE other]

ChatInit ==
  /\ access = Users /\ shape = TRUE /\ posts = <<>> /\ room = Settled
  /\ inbox = Fresh(<<>>) /\ checked = Fresh(Nothing) /\ created = Fresh(0)
  /\ channel = [n \in Nodes |-> <<>>]
  /\ wire = Fresh(<<>>)
  /\ ws = Settling("joined", "new")
  /\ boot = Settling("done", "asked")
  /\ answer = Fresh({}) /\ realtime = Fresh({}) /\ shown = Fresh({})
  /\ outgoing = Fresh({}) /\ error = Fresh("none")
  /\ panel = Fresh("closed") /\ seen = Fresh([t \in Tabs |-> 0])
  /\ stored = [u \in Users |-> [t \in Tabs |-> 0]]
  /\ lost = {} /\ trouble = 0
  /\ whole = Settled /\ written = Fresh({})
  /\ onScreen = [u \in Users |-> {}]

-----------------------------------------------------------------------------
(* What a page shows. *)

\* isMessageResolved.  The bodies are equal: what one page writes differs in
\* its kind, recipient or shape only, and the two minutes never pass.
Resolves(i, p, o) ==
  /\ posts[i].by = UserOf[p]
  /\ posts[i].what.kind = o.what.kind
  /\ posts[i].what.to = o.what.to

\* The effect on the three lists: a failed message stays
Unresolved(p, list) ==
  {o \in outgoing[p] :
     o.state = "failed" \/ ~ \E i \in list : Resolves(i, p, o)}

\* max*MessageId: the direct tab counts what others sent
Newest(p, t, list) ==
  Max({0} \cup {i \in list : /\ TabOf(i) = t
                             /\ t = "direct" => posts[i].by # UserOf[p]})

Loaded(state) == state \in {"done", "failed"}

\* isReadingGeneral, isReadingDirect and their effects, after a change of
\* the tab, of the lists or of isLoading
Look(p, tab, list, state) ==
  LET mark(old) == [old EXCEPT ![tab] = Max({@, Newest(p, tab, list)})]
      reads == tab # "closed" /\ Loaded(state)
      moves == reads /\ Newest(p, tab, list) > seen[p][tab]
  IN /\ seen' = IF moves THEN [seen EXCEPT ![p] = mark(@)] ELSE seen
     /\ stored' = IF moves
                  THEN [stored EXCEPT ![UserOf[p]][tab] = Newest(p, tab, list)]
                  ELSE stored
     /\ onScreen' = IF reads
                    THEN [onScreen EXCEPT ![UserOf[p]] =
                            @ \cup {i \in list : TabOf(i) = tab}]
                    ELSE onScreen

\* The lists change, with every effect that depends on them
Show(p, list, state) ==
  /\ shown' = [shown EXCEPT ![p] = list]
  /\ outgoing' = [outgoing EXCEPT ![p] = Unresolved(p, list)]
  /\ Look(p, panel[p], list, state)

\* Number of the tab's badge: the messages others sent after the seen mark
Unread(p, t) ==
  {i \in shown[p] : TabOf(i) = t /\ posts[i].by # UserOf[p] /\ i > seen[p][t]}

-----------------------------------------------------------------------------
(* The pages. *)

\* connectWebSocket, onopen
Connect(p) ==
  /\ ws[p] = "new"
  /\ ws' = [ws EXCEPT ![p] = "open"]
  /\ inbox' = [inbox EXCEPT ![p] = Append(@, JoinRoom)]
  /\ error' = [error EXCEPT ![p] = "none"]
  /\ UNCHANGED <<access, shape, posts, room, checked, created, channel, wire,
                 boot, answer, realtime, shown, outgoing, marks, history>>

\* createOptimisticMessage: before the first room_joined the page does not
\* know its own user, and nothing is written
KnowsItself(p) == ws[p] \in {"joined", "closed"}

\* sendWsMessage
CanSend(p) == ws[p] = "joined"

Written == UNION {{p} \X written[p] : p \in Messengers}

\* sendGroupMessage, sendDirectMessage and sendComment: on a closed socket the
\* message is shown as failed
Write(p, what) ==
  /\ KnowsItself(p)
  /\ what \in Writes[p] \ written[p] /\ Cardinality(Written) < MaxWritten
  /\ written' = [written EXCEPT ![p] = @ \cup {what}]
  /\ LET state == IF CanSend(p) THEN "sending" ELSE "failed" IN
     /\ outgoing' = [outgoing EXCEPT ![p] = @ \cup {[what |-> what,
                                                     state |-> state]}]
     /\ inbox' = IF CanSend(p) THEN [inbox EXCEPT ![p] = Append(@, what)] ELSE inbox
  /\ UNCHANGED <<access, shape, posts, room, checked, created, channel, wire,
                 ws, boot, answer, realtime, shown, error, marks, lost,
                 trouble, whole>>

\* The next message of the server: room_joined, chat_message_created with
\* appendRealtimeChatMessage and the effect on its list, or sync_error, of
\* which the chat-related ones fail every message that is still being sent
Hear(p) ==
  /\ wire[p] # <<>>
  /\ wire' = [wire EXCEPT ![p] = Tail(@)]
  /\ LET type == Head(wire[p])[1]
         said == Head(wire[p])[2]
     IN
     \/ /\ type = "room_joined"
        /\ ws' = [ws EXCEPT ![p] = "joined"]
        /\ error' = [error EXCEPT ![p] = "none"]
        /\ UNCHANGED <<realtime, shown, outgoing, marks>>
     \/ /\ type = "chat_message_created"
        /\ realtime' = [realtime EXCEPT ![p] = @ \cup {said}]
        /\ IF said \in realtime[p] THEN UNCHANGED <<shown, outgoing, marks>>
           ELSE Show(p, shown[p] \cup realtime'[p], boot[p])
        /\ UNCHANGED <<ws, error, panel>>
     \/ /\ type = "sync_error"
        /\ error' = [error EXCEPT ![p] = said]
        /\ outgoing' = IF said = error[p] \/ said = "other" THEN outgoing
                       ELSE [outgoing EXCEPT ![p] =
                               {[o EXCEPT !.state = "failed"] : o \in @}]
        /\ UNCHANGED <<ws, realtime, shown, marks>>
  /\ UNCHANGED <<server, boot, answer, history>>

\* An acknowledgement of the canvas clears the error
ClearError(p) ==
  /\ ws[p] = "joined" /\ error[p] # "none"
  /\ error' = [error EXCEPT ![p] = "none"]
  /\ UNCHANGED <<server, wire, ws, boot, answer, realtime, shown, outgoing,
                 marks, history>>

\* (Changed form: what the socket brought is replaced.)
BootstrappedOver(p) ==
  /\ boot[p] = "read"
  /\ boot' = [boot EXCEPT ![p] = "done"]
  /\ answer' = [answer EXCEPT ![p] = {}]
  /\ Show(p, answer[p], "done")
  /\ UNCHANGED <<server, wire, ws, realtime, error, panel, history>>

\* The response of the bootstrap: what it holds, merged with what the socket
\* brought meanwhile, replaces the lists
Bootstrapped(p) ==
  /\ boot[p] = "read"
  /\ boot' = [boot EXCEPT ![p] = "done"]
  /\ answer' = [answer EXCEPT ![p] = {}]
  /\ Show(p, answer[p] \cup realtime[p], "done")
  /\ UNCHANGED <<server, wire, ws, realtime, error, panel, history>>

\* Its catch: the lists are emptied, of what the socket brought too
BootstrapFailed(p) ==
  /\ boot[p] = "refused"
  /\ boot' = [boot EXCEPT ![p] = "failed"]
  /\ Show(p, {}, "failed")
  /\ UNCHANGED <<server, wire, ws, answer, realtime, error, panel, history>>

\* onOpenChange, setActiveTab
Turn(p, tab) ==
  /\ p \in Readers /\ panel[p] # tab
  /\ panel' = [panel EXCEPT ![p] = tab]
  /\ Look(p, tab, shown[p], boot[p])
  /\ UNCHANGED <<server, wire, ws, talk, history>>

\* The connection is lost, with the last messages under way in both
\* directions: onclose, and ws.on("close") at the node.  The hook does not
\* connect again
LoseConnection(p) ==
  /\ ws[p] \in {"open", "joined"}
  /\ Trouble
  /\ ws' = [ws EXCEPT ![p] = IF CanSend(p) THEN "closed" ELSE "dead"]
  /\ \E k \in 0..Len(inbox[p]) :
       inbox' = [inbox EXCEPT ![p] = SubSeq(@, 1, k)]
  /\ wire' = [wire EXCEPT ![p] = <<>>]
  /\ room' = room \ {p}
  /\ whole' = whole \ {p}
  /\ UNCHANGED <<access, shape, posts, checked, created, channel, talk, marks,
                 lost, written>>

\* (Changed form: what is stored is not read.)
BaselineNone(p) == [t \in Tabs |-> 0]

\* The marks of a page that is loaded: what is stored, otherwise the newest of
\* the empty lists, as the messenger mounts before anything is asked
Baseline(p) == stored[UserOf[p]]

\* The page is loaded again, once the node is done with its old socket
Reload(p) ==
  /\ ws[p] \in {"closed", "dead"} /\ inbox[p] = <<>>
  /\ checked[p] = Nothing /\ created[p] = 0 /\ p \notin room
  /\ ws' = [ws EXCEPT ![p] = "new"]
  /\ boot' = [boot EXCEPT ![p] = "asked"]
  /\ answer' = [answer EXCEPT ![p] = {}]
  /\ realtime' = [realtime EXCEPT ![p] = {}]
  /\ shown' = [shown EXCEPT ![p] = {}]
  /\ outgoing' = [outgoing EXCEPT ![p] = {}]
  /\ error' = [error EXCEPT ![p] = "none"]
  /\ panel' = [panel EXCEPT ![p] = "closed"]
  /\ seen' = [seen EXCEPT ![p] = Baseline(p)]
  /\ UNCHANGED <<server, wire, stored, onScreen, lost, trouble, whole, written>>

-----------------------------------------------------------------------------
(* The servers. *)

\* The rows the user may read: every group message and comment, and the
\* direct messages from or to the user.  The limits of 80, 160 and 120 are
\* beyond the bounds
Readable(p) ==
  {i \in Ids :
     Kind(i) = "direct" => UserOf[p] \in {posts[i].by, posts[i].what.to}}

\* getRoomChatBootstrap: refused without access
ReadBootstrap(p) ==
  /\ boot[p] = "asked"
  /\ IF UserOf[p] \in access
     THEN /\ boot' = [boot EXCEPT ![p] = "read"]
          /\ answer' = [answer EXCEPT ![p] = Readable(p)]
          /\ whole' = IF p \in room THEN whole \cup {p} ELSE whole
     ELSE /\ boot' = [boot EXCEPT ![p] = "refused"]
          /\ UNCHANGED <<answer, whole>>
  /\ UNCHANGED <<server, wire, ws, realtime, shown, outgoing, error, marks,
                 lost, trouble, written>>

Send(p, m) == wire' = [wire EXCEPT ![p] = Append(@, m)]
Refuse(p, reason) ==
  IF ws[p] \in {"open", "joined"} THEN Send(p, <<"sync_error", reason>>)
  ELSE UNCHANGED wire
Taken(p) == inbox' = [inbox EXCEPT ![p] = Tail(@)]
Idle(p) == checked[p] = Nothing /\ created[p] = 0

\* join_room, as far as the chat is concerned: RoomPresence has the rest
Join(p) ==
  /\ Idle(p) /\ inbox[p] # <<>> /\ Head(inbox[p]) = JoinRoom
  /\ Taken(p)
  /\ IF UserOf[p] \in access /\ ws[p] = "open"
     THEN room' = room \cup {p} /\ Send(p, <<"room_joined", 0>>)
     ELSE UNCHANGED <<room, wire>>
  /\ UNCHANGED <<access, shape, posts, checked, created, channel, ws, talk,
                 marks, history>>

\* Who is written to has access, what is commented exists
Refused(what) ==
  CASE what.kind = "direct" -> what.to \notin access
    [] what.kind = "comment" -> ~ shape
    [] OTHER -> FALSE

\* send_chat_message up to the create
Check(p) ==
  /\ Idle(p) /\ inbox[p] # <<>> /\ Head(inbox[p]) # JoinRoom
  /\ Taken(p)
  /\ LET what == Head(inbox[p]) IN
        IF Refused(what)
        THEN /\ Refuse(p, IF what.kind = "direct" THEN "recipient" ELSE "shape")
             /\ UNCHANGED checked
        ELSE /\ checked' = [checked EXCEPT ![p] = what]
             /\ UNCHANGED wire
  /\ UNCHANGED <<access, shape, posts, room, created, channel, ws, talk,
                 marks, history>>

\* What is stored, and mapped by mapPersistedChatMessage
Row(p) == [by |-> UserOf[p], what |-> checked[p]]

\* chat.create commits
Create(p) ==
  /\ checked[p] # Nothing
  /\ posts' = Append(posts, Row(p))
  /\ created' = [created EXCEPT ![p] = Len(posts')]
  /\ checked' = [checked EXCEPT ![p] = Nothing]
  /\ UNCHANGED <<access, shape, room, inbox, channel, wire, ws, talk, marks,
                 history>>

\* chat.create throws: the queue answers "Invalid message format"
CreateFails(p) ==
  /\ checked[p] # Nothing
  /\ Trouble
  /\ checked' = [checked EXCEPT ![p] = Nothing]
  /\ Refuse(p, "other")
  /\ UNCHANGED <<access, shape, posts, room, inbox, created, channel, ws,
                 talk, marks, lost, whole, written>>

\* (Changed form: recipientIds are ignored.)
AudienceAll(n, i) == {p \in room : NodeOf[p] = n}

\* The sockets of a node an event is sent to: broadcastToRoomUsers for a
\* direct message, broadcastToRoomAll for another
Audience(n, i) ==
  {p \in room : /\ NodeOf[p] = n
                /\ Kind(i) = "direct" =>
                     UserOf[p] \in {posts[i].by, posts[i].what.to}}

ToAll(listeners, i) ==
  wire' = [p \in Messengers |->
             IF p \in listeners
             THEN Append(wire[p], <<"chat_message_created", i>>) ELSE wire[p]]

\* The handler after its create: its own sockets, and a publish that may fail
Broadcast(p) ==
  /\ created[p] # 0
  /\ ToAll(Audience(NodeOf[p], created[p]), created[p])
  /\ created' = [created EXCEPT ![p] = 0]
  /\ \/ /\ channel' = [n \in Nodes |->
                         IF n = NodeOf[p] THEN channel[n]
                         ELSE Append(channel[n], created[p])]
        /\ UNCHANGED <<lost, trouble>>
     \/ /\ Trouble
        /\ lost' = lost \cup {created[p]}
        /\ UNCHANGED channel
  /\ UNCHANGED <<access, shape, posts, room, inbox, checked, ws, talk, marks,
                 whole, written>>

\* subscribeChatEvents
Relay(n) ==
  /\ channel[n] # <<>>
  /\ ToAll(Audience(n, Head(channel[n])), Head(channel[n]))
  /\ channel' = [channel EXCEPT ![n] = Tail(@)]
  /\ UNCHANGED <<access, shape, posts, room, inbox, checked, created, ws,
                 talk, marks, history>>

\* A member is removed, the shape is deleted: RoomAccess and RoomSync
Revoke(u) ==
  /\ u \in access \cap Removable
  /\ access' = access \ {u}
  /\ UNCHANGED <<shape, posts, room, inbox, checked, created, channel, wire,
                 ws, talk, marks, history>>

DeleteShape ==
  /\ shape /\ shape' = FALSE
  /\ Trouble
  /\ UNCHANGED <<access, posts, room, inbox, checked, created, channel, wire,
                 ws, talk, marks, lost, whole, written>>

ChatNext ==
  \/ \E p \in Messengers :
       \/ Connect(p) \/ Hear(p) \/ ClearError(p)
       \/ Bootstrapped(p) \/ BootstrapFailed(p) \/ LoseConnection(p) \/ Reload(p)
       \/ ReadBootstrap(p) \/ Join(p) \/ Check(p)
       \/ Create(p) \/ CreateFails(p) \/ Broadcast(p)
       \/ \E what \in Contents : Write(p, what)
       \/ \E tab \in Opened \cup {"closed"} : Turn(p, tab)
  \/ \E n \in Nodes : Relay(n)
  \/ \E u \in Users : Revoke(u)
  \/ DeleteShape

ChatSpec == ChatInit /\ [][ChatNext]_chatVars

-----------------------------------------------------------------------------
(* Properties. *)

\* A direct message reaches the pages of its author and of its recipient and
\* no other page, whichever way it takes: the handler's broadcast, the event
\* relayed to another node, the bootstrap of a page that is loaded while the
\* message is under way.
PrivateStaysPrivate ==
  \A p \in Messengers : \A i \in answer[p] \cup realtime[p] \cup shown[p] :
    Kind(i) = "direct" => UserOf[p] \in {posts[i].by, posts[i].what.to}

Quiet(p) ==
  /\ wire[p] = <<>> /\ channel[NodeOf[p]] = <<>>
  /\ \A q \in Messengers : created[q] = 0

\* A page that joined the room before its history was read, and is still
\* connected, misses nothing: once nothing is under way it shows every
\* message it may see, in whichever order the history, the broadcasts and the
\* relayed events came.
CaughtUp ==
  \A p \in whole : Quiet(p) /\ boot[p] = "done" =>
    \A i \in Ids :
      \/ i \in shown[p]
      \/ Kind(i) = "direct" /\ UserOf[p] \notin {posts[i].by, posts[i].what.to}
      \/ /\ i \in lost
         /\ \E q \in Messengers : UserOf[q] = posts[i].by /\ NodeOf[q] # NodeOf[p]

\* The badge of a tab counts what others wrote and the user has not read,
\* over reloads too, except a message that comes after one of a higher id was
\* read.
UnreadIsExact ==
  \A p \in Messengers : boot[p] = "done" => \A t \in Tabs :
    LET read == {i \in onScreen[UserOf[p]] :
                   TabOf(i) = t /\ (t = "direct" => posts[i].by # UserOf[p])}
    IN Unread(p, t) =
         {i \in shown[p] : /\ TabOf(i) = t /\ posts[i].by # UserOf[p]
                           /\ i \notin read /\ \A j \in read : j < i}
=============================================================================
