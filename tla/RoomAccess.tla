----------------------------- MODULE RoomAccess -----------------------------
(***************************************************************************)
(* Who may enter and edit one room: the access requests and memberships    *)
(* of room.controller.ts, the pages of the person who asks                 *)
(* (room/[userHandle]/[slug]/page.tsx), the decisions of the owner         *)
(* (rooms/page.tsx, MembersModal.tsx) and the role that a WebSocket keeps  *)
(* for its user (ws/messageHandler.ts).                                    *)
(*                                                                         *)
(* Rows of different people never meet (both tables are unique on room and *)
(* user), so one person is modelled, with several pages and sockets, and   *)
(* an owner with several calls under way.  A transaction runs at Postgres' *)
(* default level: it locks the rows it writes and shows them at its commit.*)
(* Time is counted in ticks since something happened.                      *)
(***************************************************************************)
EXTENDS Integers, FiniteSets

CONSTANTS Pages,      \* pages of the person who asks
          Sockets,    \* WebSockets of that person
          Calls,      \* slots for the owner's decisions and removals
          Grants,     \* the roles of the decision schema, "none" when absent
          MaxIds,     \* bound: access request rows ever created
          Recheck,    \* ROLE_RECHECK_MS
          MaxLatency  \* bound: the answer of one role query takes as long

ASSUME RoomAccessAssumption ==
  /\ Grants \subseteq {"EDITOR", "VIEWER", "none"}
  /\ MaxIds \in Nat
  /\ Recheck \in Nat
  /\ MaxLatency \in Nat

VARIABLES
  member,    \* the role of the RoomMember row, "none" without a row
  request,   \* the RoomAccessRequest row: its id (0 without a row) and status
  nextId,    \* the id the next request row gets
  page,      \* page[p]: what the page does
  found,     \* found[p]: the id existingRequest has, 0 when it is null
  call,      \* call[c]: the owner's call in slot c
  socket,    \* socket[s]: the WebSocket s
  since      \* history: ticks since the person last could edit

rows == <<member, request, nextId>>
http == <<page, found, call>>
vars == <<rows, http, socket, since>>

Bound == Recheck + MaxLatency
Roles == {"EDITOR", "VIEWER"}
NoRequest == [id |-> 0, status |-> "REJECTED"]

\* The calls of the owner.  fresh (history): the call examined its request
\* after the last removal.  held: the removal's transaction deleted a member row.
IdleCall == [stage |-> "idle", id |-> 0, action |-> "reject", role |-> "none",
             fresh |-> FALSE, held |-> FALSE]

\* age: ticks since roleCheckedAtMs, at most Bound + 1.  answer: what the
\* role query under way found.  wait: ticks since its handler began.
Holding(stage, role, age) == [stage |-> stage, role |-> role, age |-> age,
                              answer |-> "unread", wait |-> 0]
Closed == Holding("closed", "none", 0)

Init ==
  /\ member = "none"
  /\ request = NoRequest
  /\ nextId = 1
  /\ page = [p \in Pages |-> "closed"]
  /\ found = [p \in Pages |-> 0]
  /\ call = [c \in Calls |-> IdleCall]
  /\ socket = [s \in Sockets |-> Closed]
  /\ since = Bound + 1

-----------------------------------------------------------------------------
\* The row locks of the transactions under way.
RequestLocked == \E c \in Calls : call[c].stage = "updated"
MemberLocked == \E c \in Calls : call[c].stage = "deleted" /\ call[c].held

\* The role row becomes r; from now on the person can or cannot edit.
SetMember(r) ==
  /\ member' = r
  /\ since' = IF member = "EDITOR" \/ r = "EDITOR" THEN 0 ELSE since

\* The page is opened: resolve (getRoomByOwnerAndSlug) answers 403 to a
\* stranger, and then the page asks for access.
Open(p) ==
  /\ page[p] = "closed"
  /\ member = "none"
  /\ page' = [page EXCEPT ![p] = "asking"]
  /\ UNCHANGED <<rows, found, call, socket, since>>

\* requestRoomAccess reads the membership: a member is answered "approved".
AskMember(p) ==
  /\ page[p] = "asking"
  /\ page' = [page EXCEPT ![p] = IF member = "none" THEN "stranger" ELSE "sent"]
  /\ UNCHANGED <<rows, found, call, socket, since>>

\* It reads the request: one that is PENDING is the answer.
AskRequest(p) ==
  /\ page[p] = "stranger"
  /\ IF request.id # 0 /\ request.status = "PENDING"
     THEN page' = [page EXCEPT ![p] = "sent"] /\ UNCHANGED found
     ELSE /\ page' = [page EXCEPT ![p] = "writing"]
          /\ found' = [found EXCEPT ![p] = request.id]
  /\ UNCHANGED <<rows, call, socket, since>>

\* It makes the request it found PENDING again, or creates one.  The row may
\* be gone, or another page may have created one: the answer is 500 then.
AskWrite(p) ==
  /\ page[p] = "writing"
  /\ ~RequestLocked
  /\ found' = [found EXCEPT ![p] = 0]
  /\ IF request.id # found[p]
     THEN page' = [page EXCEPT ![p] = "closed"] /\ UNCHANGED rows
     ELSE /\ page' = [page EXCEPT ![p] = "sent"]
          /\ IF found[p] = 0
             THEN /\ nextId <= MaxIds
                  /\ request' = [id |-> nextId, status |-> "PENDING"]
                  /\ nextId' = nextId + 1
             ELSE /\ request' = [request EXCEPT !.status = "PENDING"]
                  /\ UNCHANGED nextId
          /\ UNCHANGED member
  /\ UNCHANGED <<call, socket, since>>

\* pollForApproval: resolve answers 403 until the person is a member; then the
\* page is replaced by the canvas.
Poll(p) ==
  /\ page[p] = "sent"
  /\ member # "none"
  /\ page' = [page EXCEPT ![p] = "closed"]
  /\ UNCHANGED <<rows, found, call, socket, since>>

\* A page that waits is closed.
Leave(p) ==
  /\ page[p] = "sent"
  /\ page' = [page EXCEPT ![p] = "closed"]
  /\ UNCHANGED <<rows, found, call, socket, since>>

-----------------------------------------------------------------------------
\* decideRoomAccessRequest reads the request whose id the owner's page showed:
\* 404 when it is gone, 409 when it is not PENDING.
Examine(c, i, action, role) ==
  /\ call[c].stage = "idle"
  /\ request = [id |-> i, status |-> "PENDING"]
  /\ call' = [call EXCEPT ![c] = [stage |-> "examined", id |-> i, action |-> action,
                                  role |-> role, fresh |-> TRUE, held |-> FALSE]]
  /\ UNCHANGED <<rows, page, found, socket, since>>

\* (Changed form: the update names the room and the requester.)
UpdateRequestOfRequester(c) ==
  /\ call[c].stage = "examined"
  /\ ~RequestLocked
  /\ call' = [call EXCEPT ![c] = IF request.id # 0
                                 THEN [@ EXCEPT !.stage = "updated", !.id = request.id]
                                 ELSE IdleCall]
  /\ UNCHANGED <<rows, page, found, socket, since>>

\* Its transaction updates the row by id: 500 when the row is gone.
UpdateRequest(c) ==
  /\ call[c].stage = "examined"
  /\ ~RequestLocked
  /\ call' = [call EXCEPT ![c] = IF request.id = call[c].id
                                 THEN [@ EXCEPT !.stage = "updated"]
                                 ELSE IdleCall]
  /\ UNCHANGED <<rows, page, found, socket, since>>

\* On approval it upserts the member, and it commits.
CommitDecision(c) ==
  /\ call[c].stage = "updated"
  /\ call' = [call EXCEPT ![c] = IdleCall]
  /\ IF call[c].action = "approve"
     THEN /\ ~MemberLocked
          /\ request' = [request EXCEPT !.status = "APPROVED"]
          /\ SetMember(IF call[c].role # "none" THEN call[c].role
                       ELSE IF member # "none" THEN member ELSE "EDITOR")
     ELSE /\ request' = [request EXCEPT !.status = "REJECTED"]
          /\ UNCHANGED <<member, since>>
  /\ UNCHANGED <<nextId, page, found, socket>>

\* removeRoomMember: its transaction deletes the member row it finds.
DeleteMember(c) ==
  /\ call[c].stage = "idle"
  /\ ~MemberLocked
  /\ call' = [call EXCEPT ![c] = [stage |-> "deleted", id |-> 0, action |-> "reject",
                                  role |-> "none", fresh |-> FALSE,
                                  held |-> member # "none"]]
  /\ UNCHANGED <<rows, page, found, socket, since>>

RemoveThen(c, newRequest) ==
  /\ call[c].stage = "deleted"
  /\ ~RequestLocked
  /\ request' = newRequest
  /\ IF call[c].held THEN SetMember("none") ELSE UNCHANGED <<member, since>>
  /\ call' = [d \in Calls |-> IF d = c THEN IdleCall
                              ELSE [call[d] EXCEPT !.fresh = FALSE]]
  /\ UNCHANGED <<nextId, page, found, socket>>

\* (Changed form: the request stays.)
CommitRemovalKeepsRequest(c) == RemoveThen(c, request)

\* It deletes the request, so that the person may ask again, and commits.
CommitRemoval(c) == RemoveThen(c, NoRequest)

\* A transaction is rolled back: the victim of a deadlock (a decision waits for
\* the member row of a removal that waits for the request row), a timeout, a
\* lost connection.
Rollback(c) ==
  /\ call[c].stage \in {"examined", "updated", "deleted"}
  /\ call' = [call EXCEPT ![c] = IdleCall]
  /\ UNCHANGED <<rows, page, found, socket, since>>

\* updateRoomMemberRole: 404 when nobody has the row.
UpdateRole(r) ==
  /\ member # "none"
  /\ ~MemberLocked
  /\ SetMember(r)
  /\ UNCHANGED <<request, nextId, http, socket>>

-----------------------------------------------------------------------------
\* join_room asks for the role.
JoinQuery(s) ==
  /\ socket[s].stage = "closed"
  /\ socket' = [socket EXCEPT ![s].stage = "joining"]
  /\ UNCHANGED <<rows, http, since>>

\* getRoomRole: Postgres evaluates the query of a handler.
ReadRole(s) ==
  /\ socket[s].stage \in {"joining", "checking"}
  /\ socket[s].answer = "unread"
  /\ socket' = [socket EXCEPT ![s].answer = member]
  /\ UNCHANGED <<rows, http, since>>

\* join_room has its answer: it rejects a stranger, or keeps the role and joins
\* (when initializeRoomSync throws, the socket may only join again).
Joined(s) ==
  LET role == socket[s].answer IN
  /\ socket[s].stage = "joining"
  /\ role # "unread"
  /\ \/ socket' = [socket EXCEPT ![s] = Closed]
     \/ /\ role # "none"
        /\ socket' = [socket EXCEPT ![s] = Holding("joined", role, 0)]
  /\ UNCHANGED <<rows, http, since>>

\* canEditRoom for a canvas_snapshot or a timer event: a role that is recent
\* enough decides at once.
Recent(s) == socket[s].role # "none" /\ socket[s].age <= Recheck
Accepts(s) ==
  \/ socket[s].stage = "joined" /\ Recent(s) /\ socket[s].role = "EDITOR"
  \/ socket[s].stage = "checking" /\ socket[s].answer = "EDITOR"

\* Another is read again; now was taken before.
EditQuery(s) ==
  /\ socket[s].stage = "joined"
  /\ ~Recent(s)
  /\ socket' = [socket EXCEPT ![s].stage = "checking"]
  /\ UNCHANGED <<rows, http, since>>

EditAnsweredWith(s, role) ==
  /\ socket[s].stage = "checking"
  /\ socket[s].answer # "unread"
  /\ socket' = [socket EXCEPT ![s] = Holding("joined", role, socket[s].wait)]
  /\ UNCHANGED <<rows, http, since>>

\* (Changed form: the role is stamped without being replaced.)
EditAnsweredOld(s) == EditAnsweredWith(s, socket[s].role)

EditAnswered(s) == EditAnsweredWith(s, socket[s].answer)

\* The socket closes.
Close(s) ==
  /\ socket[s].stage # "closed"
  /\ socket' = [socket EXCEPT ![s] = Closed]
  /\ UNCHANGED <<rows, http, since>>

Capped(n, max) == IF n < max THEN n + 1 ELSE max

\* Time passes, but no role query takes longer than MaxLatency.
Tick ==
  /\ \A s \in Sockets : socket[s].stage \in {"joining", "checking"}
                          => socket[s].wait < MaxLatency
  /\ since' = IF member = "EDITOR" THEN 0 ELSE Capped(since, Bound + 1)
  /\ socket' = [s \in Sockets |->
       CASE socket[s].stage = "joined" ->
              [socket[s] EXCEPT !.age = Capped(@, Bound + 1)]
         [] socket[s].stage \in {"joining", "checking"} ->
              [socket[s] EXCEPT !.wait = @ + 1]
         [] OTHER -> socket[s]]
  /\ UNCHANGED <<rows, http>>

-----------------------------------------------------------------------------
PageStep(p) ==
  \/ Open(p) \/ AskMember(p) \/ AskRequest(p) \/ AskWrite(p) \/ Poll(p) \/ Leave(p)

CallStep(c) ==
  \/ \E i \in 1..MaxIds, r \in Grants : Examine(c, i, "approve", r)
  \/ \E i \in 1..MaxIds : Examine(c, i, "reject", "none")
  \/ UpdateRequest(c) \/ CommitDecision(c)
  \/ DeleteMember(c) \/ CommitRemoval(c) \/ Rollback(c)

SocketStep(s) ==
  \/ JoinQuery(s) \/ ReadRole(s) \/ Joined(s)
  \/ EditQuery(s) \/ EditAnswered(s) \/ Close(s)

Next ==
  \/ \E p \in Pages : PageStep(p)
  \/ \E c \in Calls : CallStep(c)
  \/ \E r \in Roles : UpdateRole(r)
  \/ \E s \in Sockets : SocketStep(s)
  \/ Tick

Spec == Init /\ [][Next]_vars

-----------------------------------------------------------------------------
CallRecord ==
  [stage : {"idle", "examined", "updated", "deleted"}, id : 0..MaxIds,
   action : {"approve", "reject"}, role : Roles \cup {"none"},
   fresh : BOOLEAN, held : BOOLEAN]

SocketRecord ==
  [stage : {"closed", "joining", "joined", "checking"},
   role : Roles \cup {"none"}, age : 0..(Bound + 1),
   answer : Roles \cup {"none", "unread"}, wait : 0..MaxLatency]

\* Every variable has its type: in particular no id of a request is above the
\* bound, and a call and a socket are one of the listed things.
TypeOK ==
  /\ member \in Roles \cup {"none"}
  /\ request \in [id : 0..MaxIds, status : {"PENDING", "APPROVED", "REJECTED"}]
  /\ nextId \in 1..(MaxIds + 1)
  /\ page \in [Pages -> {"closed", "asking", "stranger", "writing", "sent"}]
  /\ found \in [Pages -> 0..MaxIds]
  /\ call \in [Calls -> CallRecord]
  /\ socket \in [Sockets -> SocketRecord]
  /\ since \in 0..(Bound + 1)

\* A request that says APPROVED belongs to a member, however decisions and
\* removals overlap: otherwise a person would be stuck outside, told
\* "approved" by nobody and asked of nobody (the comment in removeRoomMember).
ApprovedIsMember == request.status = "APPROVED" => member # "none"

\* A removal wins over a decision that was examined before it: who becomes a
\* member does so by a decision on a request that was PENDING after the last
\* removal committed, never by one that was still on its way then.
RemovalWins ==
  [][member = "none" /\ member' # "none"
       => \E c \in Calls : /\ call[c].stage = "updated"
                           /\ call'[c].stage = "idle"
                           /\ call[c].fresh]_vars

\* "Changes apply within seconds, even to people already in the room"
\* (MembersModal): an edit over a WebSocket is accepted at most ROLE_RECHECK_MS
\* and the time of one role query after its author last could edit, although
\* the role is cached, re-read concurrently and stamped at other moments than
\* it was read at.
RevokedWithinBound == \A s \in Sockets : Accepts(s) => since <= Bound

=============================================================================
