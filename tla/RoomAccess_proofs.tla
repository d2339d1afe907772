--------------------------- MODULE RoomAccess_proofs ---------------------------
(***************************************************************************)
(* Theorems about who comes to a room and what is said there: about the    *)
(* access of RoomAccess, for any pages, sockets, calls, grants and delays, *)
(* about the public link of PublicLink, for any dialogs and viewers, about *)
(* the chat of RoomChat, for any pages, nodes and contents, and about the  *)
(* pages that open a slug of RoomOpen, for any pages, slugs and bounds.    *)
(***************************************************************************)
EXTENDS RoomAccess, PublicLink, RoomChat, RoomOpen, FiniteSetTheorems,
        SequenceTheorems, WellFoundedInduction, TLAPS

-----------------------------------------------------------------------------
(* The access requests and the memberships.                                *)

LEMMA BoundNat == Bound \in Nat /\ Recheck <= Bound /\ MaxLatency <= Bound
  BY RoomAccessAssumption DEF Bound

LEMMA CappedType ==
  ASSUME NEW max \in Nat, NEW n \in 0..max
  PROVE  Capped(n, max) \in 0..max
  BY DEF Capped

LEMMA CallRecords ==
  ASSUME NEW i \in 0..MaxIds, NEW a \in {"approve", "reject"},
         NEW r \in Roles \cup {"none"}, NEW h \in BOOLEAN
  PROVE  /\ IdleCall \in CallRecord
         /\ [stage |-> "examined", id |-> i, action |-> a,
             role |-> r, fresh |-> TRUE, held |-> FALSE] \in CallRecord
         /\ [stage |-> "deleted", id |-> 0, action |-> "reject",
             role |-> "none", fresh |-> FALSE, held |-> h] \in CallRecord
  BY RoomAccessAssumption DEF IdleCall, CallRecord

LEMMA SocketRecords ==
  ASSUME NEW r \in Roles \cup {"none"}, NEW a \in 0..(Bound + 1)
  PROVE  Closed \in SocketRecord /\ Holding("joined", r, a) \in SocketRecord
  BY RoomAccessAssumption, BoundNat DEF Closed, Holding, SocketRecord

LEMMA NotFresh ==
  ASSUME NEW x \in CallRecord
  PROVE  [x EXCEPT !.fresh = FALSE] \in CallRecord
  BY DEF CallRecord

\* Every row, page, call and socket has its type after each step.
THEOREM AccessTypeCorrect == Spec => []TypeOK
<1> USE DEF TypeOK
<1>1. Init => TypeOK
  <2>1. /\ 0 \in 0..MaxIds /\ 1 \in 1..(MaxIds + 1) /\ Bound + 1 \in 0..(Bound + 1)
        /\ 0 \in 0..(Bound + 1)
    BY RoomAccessAssumption, BoundNat
  <2>2. IdleCall \in CallRecord /\ Closed \in SocketRecord
    BY <2>1, CallRecords, SocketRecords
  <2> QED BY <2>1, <2>2 DEF Init, NoRequest
<1>2. TypeOK /\ [Next]_vars => TypeOK'
  <2> SUFFICES ASSUME TypeOK, [Next]_vars PROVE TypeOK'
    OBVIOUS
  <2> USE DEF rows, http
  <2>1. ASSUME NEW p \in Pages, PageStep(p) PROVE TypeOK'
    BY <2>1, RoomAccessAssumption
       DEF PageStep, Open, AskMember, AskRequest, AskWrite, Poll, Leave, Roles
  <2>2. ASSUME NEW c \in Calls, CallStep(c) PROVE TypeOK'
    <3>1. IdleCall \in CallRecord
      BY RoomAccessAssumption DEF IdleCall, CallRecord
    <3>2. ASSUME NEW i \in 1..MaxIds, NEW a \in {"approve", "reject"},
                 NEW r \in Roles \cup {"none"}, Examine(c, i, a, r)
          PROVE  TypeOK'
      BY <3>2, CallRecords, RoomAccessAssumption DEF Examine
    <3>3. CASE UpdateRequest(c)
      BY <3>1, <3>3 DEF UpdateRequest, CallRecord
    <3>4. CASE CommitDecision(c)
      <4>1. call' \in [Calls -> CallRecord]
        BY <3>1, <3>4 DEF CommitDecision
      <4>2. member' \in Roles \cup {"none"} /\ since' \in 0..(Bound + 1)
        BY <3>4, BoundNat DEF CommitDecision, SetMember, CallRecord, Roles
      <4>3. request' \in [id : 0..MaxIds, status : {"PENDING", "APPROVED", "REJECTED"}]
        BY <3>4 DEF CommitDecision
      <4> QED BY <3>4, <4>1, <4>2, <4>3 DEF CommitDecision
    <3>5. CASE DeleteMember(c)
      BY <3>5, CallRecords, RoomAccessAssumption DEF DeleteMember
    <3>6. CASE CommitRemoval(c)
      <4>1. call' \in [Calls -> CallRecord]
        BY <3>1, <3>6, NotFresh DEF CommitRemoval, RemoveThen
      <4>2. since' \in 0..(Bound + 1) /\ member' \in Roles \cup {"none"}
        BY <3>6, BoundNat DEF CommitRemoval, RemoveThen, SetMember
      <4>3. request' \in [id : 0..MaxIds, status : {"PENDING", "APPROVED", "REJECTED"}]
        BY <3>6, RoomAccessAssumption DEF CommitRemoval, RemoveThen, NoRequest
      <4> QED BY <3>6, <4>1, <4>2, <4>3 DEF CommitRemoval, RemoveThen
    <3>7. CASE Rollback(c)
      BY <3>1, <3>7 DEF Rollback
    <3> QED BY <2>2, <3>2, <3>3, <3>4, <3>5, <3>6, <3>7, RoomAccessAssumption
            DEF CallStep, Roles
  <2>3. ASSUME NEW r \in Roles, UpdateRole(r) PROVE TypeOK'
    BY <2>3, BoundNat DEF UpdateRole, SetMember
  <2>4. ASSUME NEW s \in Sockets, SocketStep(s) PROVE TypeOK'
    <3>1. Closed \in SocketRecord
      BY SocketRecords, BoundNat
    <3>2. CASE Joined(s)
      <4>1. socket[s].answer \in Roles \cup {"none", "unread"}
        BY DEF SocketRecord
      <4>2. socket[s].answer # "unread"
              => Holding("joined", socket[s].answer, 0) \in SocketRecord
        BY <4>1, SocketRecords, BoundNat
      <4>3. socket' \in [Sockets -> SocketRecord]
        BY <3>1, <3>2, <4>2 DEF Joined
      <4> QED BY <3>2, <4>3 DEF Joined
    <3>3. CASE EditAnswered(s)
      <4>1. socket[s].answer \in Roles \cup {"none", "unread"} /\ socket[s].wait \in 0..MaxLatency
        BY DEF SocketRecord
      <4>2. socket[s].wait \in 0..(Bound + 1)
        BY <4>1, BoundNat, RoomAccessAssumption
      <4>3. socket[s].answer # "unread"
              => Holding("joined", socket[s].answer, socket[s].wait) \in SocketRecord
        BY <4>1, <4>2, SocketRecords
      <4> QED BY <3>3, <4>3 DEF EditAnswered, EditAnsweredWith
    <3>4. CASE JoinQuery(s) \/ ReadRole(s) \/ EditQuery(s) \/ Close(s)
      BY <3>1, <3>4 DEF JoinQuery, ReadRole, EditQuery, Close, SocketRecord
    <3> QED BY <2>4, <3>2, <3>3, <3>4 DEF SocketStep
  <2>5. CASE Tick
    <3>1. since' \in 0..(Bound + 1)
      BY <2>5, BoundNat DEF Tick, Capped
    <3>2. ASSUME NEW s \in Sockets PROVE socket'[s] \in SocketRecord
      <4>1. /\ socket[s].age \in 0..(Bound + 1) /\ socket[s].wait \in 0..MaxLatency
            /\ socket[s] \in SocketRecord
        BY DEF SocketRecord
      <4>2. CASE socket[s].stage = "joined"
        BY <2>5, <4>1, <4>2, BoundNat DEF Tick, Capped, SocketRecord
      <4>3. CASE socket[s].stage \in {"joining", "checking"}
        BY <2>5, <4>1, <4>3, RoomAccessAssumption DEF Tick, SocketRecord
      <4> QED BY <2>5, <4>1, <4>2, <4>3 DEF Tick
    <3> QED BY <2>5, <3>1, <3>2 DEF Tick
  <2>6. CASE UNCHANGED vars
    BY <2>6 DEF vars
  <2> QED BY <2>1, <2>2, <2>3, <2>4, <2>5, <2>6 DEF Next
<1> QED BY <1>1, <1>2, PTL DEF Spec

\* A request that says APPROVED belongs to a member: only the commit of an
\* approval writes APPROVED, together with a role, and the commit of a removal
\* takes the member row and the request away at once.
THEOREM ApprovedIsAlwaysMember == Spec => []ApprovedIsMember
<1>1. Init => ApprovedIsMember
  BY DEF Init, ApprovedIsMember, NoRequest
<1>2. TypeOK /\ ApprovedIsMember /\ [Next]_vars => ApprovedIsMember'
  <2> SUFFICES ASSUME TypeOK, ApprovedIsMember, [Next]_vars PROVE ApprovedIsMember'
    OBVIOUS
  <2> USE DEF ApprovedIsMember, rows, http
  <2>1. ASSUME NEW p \in Pages, PageStep(p) PROVE ApprovedIsMember'
    BY <2>1 DEF TypeOK, PageStep, Open, AskMember, AskRequest, AskWrite, Poll, Leave
  <2>2. ASSUME NEW c \in Calls, CallStep(c) PROVE ApprovedIsMember'
    <3>1. CASE CommitDecision(c)
      BY <3>1 DEF TypeOK, CommitDecision, SetMember
    <3>2. CASE CommitRemoval(c)
      BY <3>2 DEF CommitRemoval, RemoveThen, NoRequest
    <3> QED BY <2>2, <3>1, <3>2
            DEF CallStep, Examine, UpdateRequest, DeleteMember, Rollback
  <2>3. ASSUME NEW r \in Roles, UpdateRole(r) PROVE ApprovedIsMember'
    BY <2>3 DEF UpdateRole, SetMember, Roles
  <2>4. ASSUME NEW s \in Sockets, SocketStep(s) PROVE ApprovedIsMember'
    BY <2>4 DEF SocketStep, JoinQuery, ReadRole, Joined, EditQuery, EditAnswered,
       EditAnsweredWith, Close
  <2>5. CASE Tick \/ UNCHANGED vars
    BY <2>5 DEF Tick, vars
  <2> QED BY <2>1, <2>2, <2>3, <2>4, <2>5 DEF Next
<1> QED BY <1>1, <1>2, AccessTypeCorrect, PTL DEF Spec

\* What a removal leaves to the decisions on their way.  Ids are never drawn
\* again, so a call that examined its request before the last removal
\* (~fresh) names a row that is gone for good, and one that has updated its
\* row holds the lock, under which neither a removal nor a new row commits.
RequestsNumbered ==
  /\ request.id < nextId
  /\ \A c \in Calls :
       /\ call[c].stage \in {"examined", "updated"}
            => call[c].id # 0 /\ call[c].id < nextId
       /\ call[c].stage = "examined" /\ ~call[c].fresh => request.id # call[c].id
       /\ call[c].stage = "updated" => call[c].fresh /\ request.id = call[c].id

LEMMA RequestsAreNumbered == Spec => []RequestsNumbered
<1> USE DEF RequestsNumbered
<1>1. Init => RequestsNumbered
  BY DEF Init, NoRequest, IdleCall
<1>2. TypeOK /\ RequestsNumbered /\ [Next]_vars => RequestsNumbered'
  <2> SUFFICES ASSUME TypeOK, RequestsNumbered, [Next]_vars PROVE RequestsNumbered'
    OBVIOUS
  <2> USE DEF rows, http
  <2>0. /\ \A c \in Calls : call[c].id \in Nat /\ call[c] \in CallRecord
        /\ request.id \in Nat /\ nextId \in Nat /\ nextId # 0
    BY RoomAccessAssumption DEF TypeOK, CallRecord
  <2>1. ASSUME NEW p \in Pages, PageStep(p) PROVE RequestsNumbered'
    <3>1. CASE AskWrite(p) /\ request.id = found[p] /\ found[p] = 0
      <4>1. /\ request' = [id |-> nextId, status |-> "PENDING"]
            /\ nextId' = nextId + 1 /\ call' = call
            /\ \A c \in Calls : call[c].stage # "updated"
        BY <3>1 DEF AskWrite, RequestLocked
      <4> QED BY <4>1, <2>0
    <3>2. CASE AskWrite(p) /\ ~(request.id = found[p] /\ found[p] = 0)
      <4>1. request'.id = request.id /\ nextId' = nextId /\ call' = call
        BY <3>2 DEF AskWrite, TypeOK
      <4> QED BY <4>1
    <3>3. CASE Open(p) \/ AskMember(p) \/ AskRequest(p) \/ Poll(p) \/ Leave(p)
      BY <3>3 DEF Open, AskMember, AskRequest, Poll, Leave
    <3> QED BY <2>1, <3>1, <3>2, <3>3 DEF PageStep
  <2>2. ASSUME NEW c \in Calls, CallStep(c) PROVE RequestsNumbered'
    <3>0. call \in [Calls -> CallRecord]
      BY DEF TypeOK
    <3>1. ASSUME NEW i \in 1..MaxIds, NEW a, NEW r, Examine(c, i, a, r)
          PROVE  RequestsNumbered'
      BY <3>1, <3>0, <2>0 DEF Examine
    <3>2. CASE UpdateRequest(c)
      BY <3>2, <3>0, <2>0 DEF UpdateRequest, IdleCall, CallRecord
    <3>3. CASE CommitDecision(c)
      <4>1. request'.id = request.id /\ nextId' = nextId
        BY <3>3 DEF CommitDecision, TypeOK
      <4>2. call' = [call EXCEPT ![c] = IdleCall]
        BY <3>3 DEF CommitDecision
      <4> QED BY <4>1, <4>2, <3>0, <2>0 DEF IdleCall
    <3>4. CASE DeleteMember(c)
      BY <3>4, <3>0, <2>0 DEF DeleteMember
    <3>5. CASE CommitRemoval(c)
      <4>1. /\ request'.id = 0 /\ nextId' = nextId
            /\ \A d \in Calls : call[d].stage # "updated"
        BY <3>5 DEF CommitRemoval, RemoveThen, NoRequest, RequestLocked
      <4>2. ASSUME NEW d \in Calls
            PROVE  \/ call'[d] = IdleCall
                   \/ /\ call'[d].stage = call[d].stage /\ call'[d].id = call[d].id
                      /\ ~call'[d].fresh
        BY <3>5, <2>0 DEF CommitRemoval, RemoveThen, CallRecord
      <4> QED BY <4>1, <4>2, <2>0 DEF IdleCall
    <3>6. CASE Rollback(c)
      BY <3>6, <3>0, <2>0 DEF Rollback, IdleCall
    <3> QED BY <2>2, <3>1, <3>2, <3>3, <3>4, <3>5, <3>6 DEF CallStep
  <2>3. ASSUME NEW r \in Roles, UpdateRole(r) PROVE RequestsNumbered'
    BY <2>3 DEF UpdateRole
  <2>4. ASSUME NEW s \in Sockets, SocketStep(s) PROVE RequestsNumbered'
    BY <2>4 DEF SocketStep, JoinQuery, ReadRole, Joined, EditQuery, EditAnswered,
       EditAnsweredWith, Close
  <2>5. CASE Tick \/ UNCHANGED vars
    BY <2>5 DEF Tick, vars
  <2> QED BY <2>1, <2>2, <2>3, <2>4, <2>5 DEF Next
<1> QED BY <1>1, <1>2, AccessTypeCorrect, PTL DEF Spec

\* Whoever becomes a member does so by the commit of a decision that examined
\* its request after the last removal.
THEOREM RemovalAlwaysWins == Spec => RemovalWins
<1>1. TypeOK /\ RequestsNumbered /\ [Next]_vars
        => [member = "none" /\ member' # "none"
              => \E c \in Calls : /\ call[c].stage = "updated"
                                  /\ call'[c].stage = "idle"
                                  /\ call[c].fresh]_vars
  <2> SUFFICES ASSUME TypeOK, RequestsNumbered, Next, member = "none", member' # "none"
               PROVE  \E c \in Calls : /\ call[c].stage = "updated"
                                       /\ call'[c].stage = "idle"
                                       /\ call[c].fresh
    BY DEF vars, rows
  <2> USE DEF rows, http
  <2>1. ASSUME NEW p \in Pages, PageStep(p) PROVE FALSE
    BY <2>1 DEF PageStep, Open, AskMember, AskRequest, AskWrite, Poll, Leave
  <2>2. ASSUME NEW c \in Calls, CallStep(c) PROVE CommitDecision(c)
    BY <2>2 DEF CallStep, Examine, UpdateRequest, DeleteMember, CommitRemoval,
       RemoveThen, SetMember, Rollback
  <2>3. ASSUME NEW r \in Roles, UpdateRole(r) PROVE FALSE
    BY <2>3 DEF UpdateRole
  <2>4. ASSUME NEW s \in Sockets, SocketStep(s) PROVE FALSE
    BY <2>4 DEF SocketStep, JoinQuery, ReadRole, Joined, EditQuery, EditAnswered,
       EditAnsweredWith, Close
  <2>5. ~Tick
    BY DEF Tick
  <2>6. PICK c \in Calls : CommitDecision(c)
    BY <2>1, <2>2, <2>3, <2>4, <2>5 DEF Next
  <2>7. call[c].stage = "updated" /\ call[c].fresh
    BY <2>6 DEF CommitDecision, RequestsNumbered
  <2>8. call'[c].stage = "idle"
    BY <2>6 DEF CommitDecision, TypeOK, IdleCall
  <2> QED BY <2>7, <2>8
<1> QED BY <1>1, AccessTypeCorrect, RequestsAreNumbered, PTL DEF Spec, RemovalWins

\* How old a role can be.  The answer of a role query is at most as old as the
\* query, and a role that a socket keeps is at most as old as its stamp and
\* the query it came from, whichever moment the handler stamps it with.
RolesRecent ==
  /\ member = "EDITOR" => since = 0
  /\ \A s \in Sockets :
       /\ socket[s].stage \in {"closed", "joined"}
            => socket[s].answer = "unread" /\ socket[s].wait = 0
       /\ socket[s].stage \in {"joining", "checking"} /\ socket[s].answer = "EDITOR"
            => since <= socket[s].wait
       /\ socket[s].stage = "joined" /\ socket[s].role = "EDITOR"
            => since <= socket[s].age + MaxLatency

LEMMA RolesAreRecent == Spec => []RolesRecent
<1> USE DEF RolesRecent
<1>1. Init => RolesRecent
  BY DEF Init, Closed, Holding
<1>2. TypeOK /\ RolesRecent /\ [Next]_vars => RolesRecent'
  <2> SUFFICES ASSUME TypeOK, RolesRecent, [Next]_vars PROVE RolesRecent'
    OBVIOUS
  <2> USE DEF rows, http
  <2>0. /\ \A s \in Sockets : /\ socket[s] \in SocketRecord
                               /\ socket[s].age \in 0..(Bound + 1)
                               /\ socket[s].wait \in 0..MaxLatency
        /\ since \in 0..(Bound + 1) /\ Bound \in Nat /\ MaxLatency \in Nat
    BY RoomAccessAssumption, BoundNat DEF TypeOK, SocketRecord
  <2>1. ASSUME socket' = socket, \/ member' = member /\ since' = since
                                 \/ \E r : SetMember(r)
        PROVE  RolesRecent'
    <3>1. since' \in 0..since /\ (member' = "EDITOR" => since' = 0)
      BY <2>0, <2>1 DEF SetMember
    <3> QED BY <2>0, <2>1, <3>1
  <2>2. ASSUME NEW p \in Pages, PageStep(p) PROVE RolesRecent'
    BY <2>1, <2>2 DEF PageStep, Open, AskMember, AskRequest, AskWrite, Poll, Leave
  <2>3. ASSUME NEW c \in Calls, CallStep(c) PROVE RolesRecent'
    <3>1. socket' = socket /\ (\/ member' = member /\ since' = since
                               \/ \E r : SetMember(r))
      <4>1. CASE CommitDecision(c)
        BY <4>1 DEF CommitDecision
      <4>2. CASE CommitRemoval(c)
        BY <4>2 DEF CommitRemoval, RemoveThen
      <4> QED BY <2>3, <4>1, <4>2 DEF CallStep, Examine, UpdateRequest, DeleteMember, Rollback
    <3> QED BY <2>1, <3>1
  <2>4. ASSUME NEW r \in Roles, UpdateRole(r) PROVE RolesRecent'
    BY <2>1, <2>4 DEF UpdateRole
  <2>5. ASSUME NEW s \in Sockets, SocketStep(s) PROVE RolesRecent'
    <3>0. member' = member /\ since' = since /\ socket \in [Sockets -> SocketRecord]
      BY <2>5 DEF TypeOK, SocketStep, JoinQuery, ReadRole, Joined, EditQuery,
         EditAnswered, EditAnsweredWith, Close
    <3>1. CASE JoinQuery(s) \/ EditQuery(s)
      BY <3>1, <3>0, <2>0 DEF JoinQuery, EditQuery, SocketRecord
    <3>2. CASE ReadRole(s)
      BY <3>2, <3>0, <2>0 DEF ReadRole, SocketRecord
    <3>3. CASE Joined(s)
      BY <3>3, <3>0, <2>0 DEF Joined, Closed, Holding
    <3>4. CASE EditAnswered(s)
      BY <3>4, <3>0, <2>0 DEF EditAnswered, EditAnsweredWith, Holding
    <3>5. CASE Close(s)
      BY <3>5, <3>0, <2>0 DEF Close, Closed, Holding
    <3> QED BY <2>5, <3>1, <3>2, <3>3, <3>4, <3>5 DEF SocketStep
  <2>6. CASE Tick
    <3>1. /\ since' \in 0..(since + 1) /\ since' <= Bound + 1 /\ member' = member
          /\ member = "EDITOR" => since' = 0
      BY <2>6, <2>0 DEF Tick, Capped
    <3>2. ASSUME NEW s \in Sockets
          PROVE  /\ socket'[s].stage = socket[s].stage
                 /\ socket'[s].role = socket[s].role
                 /\ socket'[s].answer = socket[s].answer
                 /\ socket[s].stage \in {"closed", "joined"} => socket'[s].wait = socket[s].wait
                 /\ socket[s].stage \in {"joining", "checking"}
                      => socket'[s].wait = socket[s].wait + 1
                 /\ socket[s].stage = "joined"
                      => \/ socket'[s].age = socket[s].age + 1
                         \/ socket'[s].age = Bound + 1
      <4>1. socket'[s] = CASE socket[s].stage = "joined" ->
                                [socket[s] EXCEPT !.age = Capped(@, Bound + 1)]
                           [] socket[s].stage \in {"joining", "checking"} ->
                                [socket[s] EXCEPT !.wait = @ + 1]
                           [] OTHER -> socket[s]
        BY <2>6 DEF Tick
      <4> QED BY <4>1, <2>0 DEF SocketRecord, Capped
    <3> QED BY <3>1, <3>2, <2>0
  <2>7. CASE UNCHANGED vars
    BY <2>7 DEF vars
  <2> QED BY <2>2, <2>3, <2>4, <2>5, <2>6, <2>7 DEF Next
<1> QED BY <1>1, <1>2, AccessTypeCorrect, PTL DEF Spec

\* An edit is accepted at most ROLE_RECHECK_MS and the time of one role query
\* after its author last could edit.
THEOREM RevocationIsBounded == Spec => []RevokedWithinBound
<1>1. TypeOK /\ RolesRecent => RevokedWithinBound
  <2> SUFFICES ASSUME TypeOK, RolesRecent, NEW s \in Sockets, Accepts(s)
               PROVE  since <= Bound
    BY DEF RevokedWithinBound
  <2>1. /\ since \in Nat /\ socket[s].wait \in 0..MaxLatency
        /\ socket[s].age \in Nat /\ MaxLatency \in Nat /\ Recheck \in Nat
        /\ Bound = Recheck + MaxLatency
    BY RoomAccessAssumption, BoundNat DEF TypeOK, SocketRecord, Bound
  <2>2. CASE socket[s].stage = "joined" /\ Recent(s) /\ socket[s].role = "EDITOR"
    BY <2>1, <2>2 DEF Recent, RolesRecent
  <2>3. CASE socket[s].stage = "checking" /\ socket[s].answer = "EDITOR"
    BY <2>1, <2>3 DEF RolesRecent
  <2> QED BY <2>2, <2>3 DEF Accepts
<1> QED BY <1>1, AccessTypeCorrect, RolesAreRecent, PTL

-----------------------------------------------------------------------------
(* The public link.                                                        *)

CallKinds == {"none", "status", "enable", "rotate", "disable"}
DialogRecord ==
  [phase : {"shut", "loading", "ready", "forbidden"}, token : 0..MaxTokens,
   call : [kind : CallKinds, stage : {"none", "sent", "read", "answer"}],
   seen : 0..MaxTokens]
ViewerRecord ==
  [token : 0..MaxTokens, status : {"closed", "loading", "ready", "missing", "error"},
   last : -1..MaxEdits, shown : -1..MaxEdits]
PollRecord ==
  [viewer : Viewers, id : Nat, stage : {"sent", "found", "missing", "shapes"},
   shapes : -1..MaxEdits]

LinkTypeOK ==
  /\ link \in 0..MaxTokens
  /\ issued \in 0..MaxTokens
  /\ board \in 0..MaxEdits
  /\ dialog \in [Dialogs -> DialogRecord]
  /\ viewer \in [Viewers -> ViewerRecord]
  /\ polls \subseteq PollRecord
  /\ asked \in Nat
  /\ outages \in Nat
  /\ ended \in [Tokens -> 0..Lasting]

LEMMA LinkRecords ==
  ASSUME NEW t \in 0..MaxTokens
  PROVE  /\ NoCall \in [kind : CallKinds, stage : {"none", "sent", "read", "answer"}]
         /\ ShutDialog \in DialogRecord
         /\ [phase |-> "ready", token |-> t, call |-> NoCall, seen |-> NoToken] \in DialogRecord
         /\ NoViewer \in ViewerRecord
  BY PublicLinkAssumption
     DEF NoCall, CallKinds, ShutDialog, DialogRecord, NoToken, NoViewer, ViewerRecord

LEMMA DialogChanges ==
  ASSUME NEW D \in [Dialogs -> DialogRecord], NEW d \in Dialogs, NEW t \in 0..MaxTokens,
         NEW stage \in {"none", "sent", "read", "answer"},
         NEW phase \in {"shut", "loading", "ready", "forbidden"}
  PROVE  /\ [D EXCEPT ![d].seen = t] \in [Dialogs -> DialogRecord]
         /\ [D EXCEPT ![d].phase = phase] \in [Dialogs -> DialogRecord]
         /\ [D EXCEPT ![d].call = NoCall] \in [Dialogs -> DialogRecord]
         /\ [D EXCEPT ![d].call.stage = stage] \in [Dialogs -> DialogRecord]
<1>1. ASSUME NEW x \in DialogRecord
      PROVE  /\ [x EXCEPT !.seen = t] \in DialogRecord
             /\ [x EXCEPT !.phase = phase] \in DialogRecord
             /\ [x EXCEPT !.call = NoCall] \in DialogRecord
             /\ [x EXCEPT !.call.stage = stage] \in DialogRecord
  <2>1. NoCall \in [kind : CallKinds, stage : {"none", "sent", "read", "answer"}]
    BY DEF NoCall, CallKinds
  <2>2. [x.call EXCEPT !.stage = stage]
          \in [kind : CallKinds, stage : {"none", "sent", "read", "answer"}]
    BY DEF DialogRecord
  <2> QED BY <2>1, <2>2 DEF DialogRecord
<1> QED BY <1>1

\* Every part of the link, its dialogs and its viewers has its type.
THEOREM LinkTypeCorrect == LinkSpec => []LinkTypeOK
<1> USE DEF LinkTypeOK
<1>1. LinkInit => LinkTypeOK
  <2>1. /\ 0 \in 0..MaxTokens /\ 0 \in 0..MaxEdits /\ Lasting \in 0..Lasting
    BY PublicLinkAssumption DEF Lasting
  <2>2. ShutDialog \in DialogRecord /\ NoViewer \in ViewerRecord
    BY <2>1, LinkRecords
  <2> QED BY <2>1, <2>2 DEF LinkInit, NoToken
<1>2. LinkTypeOK /\ [LinkNext]_linkVars => LinkTypeOK'
  <2> SUFFICES ASSUME LinkTypeOK, [LinkNext]_linkVars PROVE LinkTypeOK'
    OBVIOUS
  <2> USE DEF OthersStand, OwnerStands
  <2>1. CASE EditBoard
    BY <2>1, PublicLinkAssumption DEF EditBoard
  <2>2. ASSUME NEW d \in Dialogs, OpenDialog(d) PROVE LinkTypeOK'
    <3> DEFINE loading == [dialog EXCEPT ![d].phase = "loading"]
    <3>1. dialog' = [loading EXCEPT ![d].call = [kind |-> "status", stage |-> "sent"]]
      BY <2>2 DEF OpenDialog
    <3>2. loading \in [Dialogs -> DialogRecord]
      BY DEF DialogRecord
    <3> HIDE DEF loading
    <3>3. [kind |-> "status", stage |-> "sent"]
            \in [kind : CallKinds, stage : {"none", "sent", "read", "answer"}]
      BY DEF CallKinds
    <3>4. dialog' \in [Dialogs -> DialogRecord]
      <4> DEFINE asks == [kind |-> "status", stage |-> "sent"]
                 opened == [loading[d] EXCEPT !.call = asks]
      <4>1. loading[d] \in DialogRecord
        BY <3>2
      <4>2. opened \in DialogRecord
        <5> HIDE DEF asks
        <5>1. asks \in [kind : CallKinds, stage : {"none", "sent", "read", "answer"}]
          BY <3>3 DEF asks
        <5> QED BY <4>1, <5>1 DEF DialogRecord
      <4>3. dialog' = [loading EXCEPT ![d] = opened]
        BY <3>1
      <4> HIDE DEF opened
      <4> QED BY <3>2, <4>2, <4>3
    <3> QED BY <2>2, <3>4 DEF OpenDialog
  <2>3. ASSUME NEW d \in Dialogs, ReadRoom(d) PROVE LinkTypeOK'
    <3> DEFINE stage == IF dialog[d].call.kind = "status" THEN "answer" ELSE "read"
    <3>1. dialog' = [[dialog EXCEPT ![d].seen = link] EXCEPT ![d].call.stage = stage]
      BY <2>3 DEF ReadRoom
    <3>2. stage \in {"none", "sent", "read", "answer"}
      OBVIOUS
    <3> HIDE DEF stage
    <3>3. [dialog EXCEPT ![d].seen = link] \in [Dialogs -> DialogRecord]
      BY DialogChanges
    <3>4. dialog' \in [Dialogs -> DialogRecord]
      BY <3>1, <3>2, <3>3, DialogChanges
    <3> QED BY <2>3, <3>4 DEF ReadRoom
  <2>4. ASSUME NEW d \in Dialogs, WriteToken(d) PROVE LinkTypeOK'
    <3> DEFINE keeps == dialog[d].call.kind = "enable" /\ dialog[d].seen # NoToken
               token == CASE dialog[d].call.kind = "disable" -> NoToken
                          [] keeps -> dialog[d].seen
                          [] OTHER -> issued + 1
    <3>1. /\ token = issued + 1 => issued < MaxTokens
          /\ issued' = IF token = issued + 1 THEN issued + 1 ELSE issued
          /\ dialog' = [dialog EXCEPT ![d].seen = token, ![d].call.stage = "answer"]
          /\ IF keeps THEN UNCHANGED <<link, ended>> ELSE Becomes(token)
          /\ UNCHANGED <<board, viewer, polls, asked, outages>>
      BY <2>4 DEF WriteToken
    <3>2. dialog[d].seen \in 0..MaxTokens
      BY DEF DialogRecord
    <3>3. token \in 0..MaxTokens /\ issued' \in 0..MaxTokens
      BY <3>1, <3>2, PublicLinkAssumption DEF NoToken
    <3> HIDE DEF token
    <3>4. dialog' \in [Dialogs -> DialogRecord]
      <4>1. [dialog EXCEPT ![d].seen = token] \in [Dialogs -> DialogRecord]
        BY <3>3, DialogChanges
      <4>2. dialog' = [[dialog EXCEPT ![d].seen = token] EXCEPT ![d].call.stage = "answer"]
        BY <3>1
      <4> QED BY <4>1, <4>2, DialogChanges
    <3>5. link' \in 0..MaxTokens
      BY <3>1, <3>3 DEF Becomes
    <3>6. board \in 0..Lasting
      BY PublicLinkAssumption DEF Lasting
    <3>7. ended' \in [Tokens -> 0..Lasting]
      BY <3>1, <3>6 DEF Becomes
    <3> QED BY <3>1, <3>3, <3>4, <3>5, <3>7
  <2>5. ASSUME NEW d \in Dialogs, Answered(d) PROVE LinkTypeOK'
    <3>1. dialog[d].seen \in 0..MaxTokens
      BY DEF DialogRecord
    <3>2. [phase |-> "ready", token |-> dialog[d].seen, call |-> NoCall, seen |-> NoToken]
            \in DialogRecord
      BY <3>1, LinkRecords
    <3> QED BY <2>5, <3>2 DEF Answered
  <2>6. ASSUME NEW d \in Dialogs, CallFails(d) PROVE LinkTypeOK'
    <3> DEFINE phase == IF dialog[d].phase = "loading" THEN "forbidden" ELSE dialog[d].phase
               noCall == [dialog EXCEPT ![d].call = NoCall]
               noSeen == [noCall EXCEPT ![d].seen = NoToken]
    <3>1. dialog' = [noSeen EXCEPT ![d].phase = phase]
      BY <2>6 DEF CallFails
    <3>2. /\ phase \in {"shut", "loading", "ready", "forbidden"}
          /\ NoToken \in 0..MaxTokens
      BY PublicLinkAssumption DEF NoToken, DialogRecord
    <3> HIDE DEF phase
    <3>3. noCall \in [Dialogs -> DialogRecord]
      BY <3>2, DialogChanges
    <3> HIDE DEF noCall
    <3>4. noSeen \in [Dialogs -> DialogRecord]
      BY <3>2, <3>3, DialogChanges
    <3> HIDE DEF noSeen
    <3>5. dialog' \in [Dialogs -> DialogRecord]
      BY <3>1, <3>2, <3>4, DialogChanges
    <3> QED BY <2>6, <3>5 DEF CallFails
  <2>7. ASSUME NEW d \in Dialogs, CloseDialog(d) PROVE LinkTypeOK'
    <3>1. ShutDialog \in DialogRecord
      BY LinkRecords, PublicLinkAssumption
    <3> QED BY <2>7, <3>1 DEF CloseDialog
  <2>8. ASSUME NEW d \in Dialogs, NEW kind \in {"enable", "rotate", "disable"}, Press(d, kind)
        PROVE  LinkTypeOK'
    BY <2>8 DEF Press, DialogRecord, CallKinds
  <2>9. ASSUME NEW v \in Viewers PROVE Request(v) \in PollRecord
    BY PublicLinkAssumption DEF Request, PollRecord
  <2>10. ASSUME NEW v \in Viewers, OpenLink(v) PROVE LinkTypeOK'
    <3>1. PICK d \in Dialogs :
            viewer' = [viewer EXCEPT ![v].token = dialog[d].token, ![v].status = "loading"]
      BY <2>10 DEF OpenLink
    <3>2. dialog[d].token \in 0..MaxTokens
      BY DEF DialogRecord
    <3>3. viewer' \in [Viewers -> ViewerRecord]
      BY <3>1, <3>2 DEF ViewerRecord
    <3> QED BY <2>9, <2>10, <3>3 DEF OpenLink
  <2>11. ASSUME NEW v \in Viewers, PollBoard(v) PROVE LinkTypeOK'
    BY <2>9, <2>11 DEF PollBoard
  <2>12. ASSUME NEW r \in polls, NEW stage \in {"found", "missing", "shapes"},
                NEW shapes \in -1..MaxEdits
         PROVE  Progress(r, stage, shapes) \subseteq PollRecord
    <3>1. [r EXCEPT !.stage = stage, !.shapes = shapes] \in PollRecord
      BY DEF PollRecord
    <3> QED BY <3>1 DEF Progress
  <2>13. ASSUME NEW r \in polls, FindRoom(r) PROVE LinkTypeOK'
    <3>1. -1 \in -1..MaxEdits
      BY PublicLinkAssumption
    <3> QED BY <2>12, <2>13, <3>1 DEF FindRoom
  <2>14. ASSUME NEW r \in polls, ReadBoard(r) PROVE LinkTypeOK'
    <3>1. board \in -1..MaxEdits
      BY PublicLinkAssumption
    <3> QED BY <2>12, <2>14, <3>1 DEF ReadBoard
  <2>15. ASSUME NEW r \in polls, Receive(r) PROVE LinkTypeOK'
    <3>1. r.viewer \in Viewers /\ r.shapes \in -1..MaxEdits
      BY DEF PollRecord
    <3>2. Shown(r.viewer, r.shapes) \in ViewerRecord
      BY <3>1 DEF Shown, ViewerRecord
    <3>3. viewer' \in [Viewers -> ViewerRecord]
      BY <2>15, <3>1, <3>2 DEF Receive, ViewerRecord
    <3> QED BY <2>15, <3>3 DEF Receive
  <2>16. ASSUME NEW r \in polls, PollFails(r) PROVE LinkTypeOK'
    BY <2>16 DEF PollFails, PollRecord, ViewerRecord
  <2>17. CASE UNCHANGED linkVars
    BY <2>17 DEF linkVars
  <2> QED BY <2>1, <2>2, <2>3, <2>4, <2>5, <2>6, <2>7, <2>8, <2>10, <2>11, <2>13, <2>14,
             <2>15, <2>16, <2>17 DEF LinkNext
<1> QED BY <1>1, <1>2, PTL DEF LinkSpec

\* A token is drawn once and is the link once.  Dead(t): the token t was
\* drawn and is the link no more; it stays so, since what becomes the link is
\* null or a token nobody has drawn.
Dead(t) == t \in 1..issued /\ ended[t] # Lasting

TokensEnd ==
  /\ link <= issued
  /\ \A t \in Tokens : t > issued => ended[t] = Lasting
  /\ \A t \in 1..issued : ended[t] = Lasting <=> link = t
  /\ \A d \in Dialogs : dialog[d].token <= issued /\ dialog[d].seen <= issued

\* A page that shows a link shows one that was drawn; an answer "missing",
\* under way or shown, is about a link that has ended; a page that has shown
\* the board of a link that lasts is ready.
ViewersKnow ==
  /\ \A v \in Viewers :
       /\ IF viewer[v].status = "closed"
          THEN viewer[v].token = NoToken /\ viewer[v].shown = -1
          ELSE viewer[v].token \in 1..issued
       /\ viewer[v].status = "missing" => Dead(viewer[v].token)
       /\ viewer[v].shown # -1 /\ ~Dead(viewer[v].token) => viewer[v].status = "ready"
  /\ \A r \in polls :
       /\ viewer[r.viewer].status # "closed"
       /\ r.stage = "missing" => Dead(viewer[r.viewer].token)

LEMMA LinkIsKnown == LinkSpec => [](TokensEnd /\ ViewersKnow)
<1>1. LinkTypeOK /\ LinkInit => TokensEnd /\ ViewersKnow
  BY DEF LinkInit, TokensEnd, ViewersKnow, ShutDialog, NoViewer, NoToken
<1>2. LinkTypeOK /\ TokensEnd /\ ViewersKnow /\ [LinkNext]_linkVars
        => TokensEnd' /\ ViewersKnow'
  <2> SUFFICES ASSUME LinkTypeOK, TokensEnd, ViewersKnow, [LinkNext]_linkVars
               PROVE  TokensEnd' /\ ViewersKnow'
    OBVIOUS
  <2> USE DEF OthersStand, OwnerStands
  <2>0. /\ MaxTokens \in Nat /\ MaxEdits \in Nat /\ Lasting = MaxEdits + 1
        /\ link \in Nat /\ issued \in Nat /\ issued <= MaxTokens
        /\ board \in Nat /\ board <= MaxEdits
        /\ dialog \in [Dialogs -> DialogRecord] /\ viewer \in [Viewers -> ViewerRecord]
        /\ polls \subseteq PollRecord /\ ended \in [Tokens -> 0..Lasting]
        /\ \A d \in Dialogs : dialog[d].token \in Nat /\ dialog[d].seen \in Nat
        /\ \A v \in Viewers : viewer[v].token \in Nat
        /\ \A r \in polls : r.viewer \in Viewers
    BY PublicLinkAssumption
       DEF LinkTypeOK, Lasting, DialogRecord, ViewerRecord, PollRecord
  \* what the owner's dialogs do without writing the link
  <2>1. ASSUME UNCHANGED <<link, issued, ended, viewer, polls>>,
               \A d \in Dialogs : dialog'[d].token <= issued /\ dialog'[d].seen <= issued
        PROVE  TokensEnd' /\ ViewersKnow'
    BY <2>1 DEF TokensEnd, ViewersKnow, Dead
  <2>2. CASE EditBoard \/ UNCHANGED linkVars
    BY <2>1, <2>2 DEF EditBoard, linkVars, TokensEnd
  <2>3. ASSUME NEW d \in Dialogs,
               \/ OpenDialog(d) \/ ReadRoom(d) \/ Answered(d) \/ CallFails(d) \/ CloseDialog(d)
               \/ \E kind \in {"enable", "rotate", "disable"} : Press(d, kind)
        PROVE  TokensEnd' /\ ViewersKnow'
    <3>1. ASSUME NEW e \in Dialogs
          PROVE  /\ dialog'[e].token \in {dialog[e].token, dialog[e].seen, NoToken}
                 /\ dialog'[e].seen \in {dialog[e].seen, link, NoToken}
      <4>1. CASE OpenDialog(d)
        BY <2>0, <4>1 DEF OpenDialog, DialogRecord
      <4>2. CASE ReadRoom(d)
        BY <2>0, <4>2 DEF ReadRoom, DialogRecord
      <4>3. CASE Answered(d)
        BY <2>0, <4>3 DEF Answered
      <4>4. CASE CallFails(d)
        BY <2>0, <4>4 DEF CallFails, DialogRecord
      <4>5. CASE CloseDialog(d)
        BY <2>0, <4>5 DEF CloseDialog, ShutDialog
      <4>6. CASE \E kind \in {"enable", "rotate", "disable"} : Press(d, kind)
        BY <2>0, <4>6 DEF Press, DialogRecord
      <4> QED BY <2>3, <4>1, <4>2, <4>3, <4>4, <4>5, <4>6
    <3>2. \A e \in Dialogs : dialog'[e].token <= issued /\ dialog'[e].seen <= issued
      BY <2>0, <3>1 DEF TokensEnd, NoToken
    <3>3. UNCHANGED <<link, issued, ended, viewer, polls>>
      BY <2>3 DEF OpenDialog, ReadRoom, Answered, CallFails, CloseDialog, Press
    <3> QED BY <2>1, <3>2, <3>3
  <2>4. ASSUME NEW d \in Dialogs, WriteToken(d) PROVE TokensEnd' /\ ViewersKnow'
    <3> DEFINE keeps == dialog[d].call.kind = "enable" /\ dialog[d].seen # NoToken
               token == CASE dialog[d].call.kind = "disable" -> NoToken
                          [] keeps -> dialog[d].seen
                          [] OTHER -> issued + 1
    <3>1. /\ token = issued + 1 => issued < MaxTokens
          /\ issued' = IF token = issued + 1 THEN issued + 1 ELSE issued
          /\ dialog' = [dialog EXCEPT ![d].seen = token, ![d].call.stage = "answer"]
          /\ IF keeps THEN UNCHANGED <<link, ended>> ELSE Becomes(token)
          /\ UNCHANGED <<viewer, polls>>
      BY <2>4 DEF WriteToken
    <3>2. \/ keeps /\ token = dialog[d].seen
          \/ ~keeps /\ token \in {NoToken, issued + 1}
      OBVIOUS
    <3> HIDE DEF keeps, token
    <3>3. token \in Nat /\ token <= issued' /\ issued' \in Nat /\ issued <= issued'
          /\ issued' <= MaxTokens /\ issued' <= issued + 1
      BY <2>0, <3>1, <3>2 DEF TokensEnd, NoToken
    <3>4. TokensEnd'
      <4>1. \A e \in Dialogs : dialog'[e].token <= issued' /\ dialog'[e].seen <= issued'
        <5>1. ASSUME NEW e \in Dialogs
              PROVE  /\ dialog'[e].token = dialog[e].token
                     /\ dialog'[e].seen \in {dialog[e].seen, token}
          BY <2>0, <3>1 DEF DialogRecord
        <5> QED BY <5>1, <2>0, <3>3 DEF TokensEnd
      <4>2. CASE keeps
        <5>1. issued' = issued /\ link' = link /\ ended' = ended
          BY <4>2, <3>1, <3>2, <2>0 DEF TokensEnd
        <5> QED BY <4>1, <5>1 DEF TokensEnd
      <4>3. CASE ~keeps
        <5>1. /\ link' = token
              /\ ended' = IF link \in Tokens /\ token # link
                          THEN [ended EXCEPT ![link] = board] ELSE ended
          BY <4>3, <3>1 DEF Becomes
        <5>2. CASE token = NoToken
          BY <4>1, <5>1, <5>2, <3>1, <2>0 DEF TokensEnd, NoToken, Tokens
        <5>3. CASE token = issued + 1
          BY <4>1, <5>1, <5>3, <3>1, <2>0 DEF TokensEnd, Tokens
        <5> QED BY <5>2, <5>3, <4>3, <3>2
      <4> QED BY <4>2, <4>3
    <3>5. ASSUME NEW t \in Nat
          PROVE  /\ Dead(t) => Dead(t)'
                 /\ t \in 1..issued => t \in 1..issued'
      <4>1. Dead(t) => t # link
        BY <2>0 DEF Dead, TokensEnd
      <4>2. Dead(t) => ended'[t] = ended[t]
        BY <4>1, <3>1, <2>0 DEF Becomes, Dead, Tokens
      <4> QED BY <4>2, <3>3, <2>0 DEF Dead
    <3>6. ASSUME NEW v \in Viewers, Dead(viewer[v].token)'
          PROVE  viewer[v].status # "closed"
      BY <3>6, <3>1, <2>0 DEF Dead, ViewersKnow, NoToken
    <3>7. ViewersKnow'
      BY <3>1, <3>5, <2>0 DEF ViewersKnow
    <3> QED BY <3>4, <3>7
  \* what the viewers do
  <2>5. ASSUME UNCHANGED <<link, issued, ended, dialog>>
        PROVE  TokensEnd' /\ (\A t : Dead(t)' <=> Dead(t))
    BY <2>5 DEF TokensEnd, Dead
  <2>6. ASSUME NEW v \in Viewers, OpenLink(v) PROVE TokensEnd' /\ ViewersKnow'
    <3>1. PICK d \in Dialogs :
            /\ dialog[d].token # NoToken
            /\ viewer' = [viewer EXCEPT ![v].token = dialog[d].token, ![v].status = "loading"]
      BY <2>6 DEF OpenLink
    <3>2. /\ UNCHANGED <<link, issued, ended, dialog>>
          /\ viewer[v].status = "closed"
          /\ polls' = polls \cup {Request(v)}
      BY <2>6 DEF OpenLink
    <3>3. dialog[d].token \in 1..issued
      BY <3>1, <2>0 DEF TokensEnd, NoToken
    <3>4. /\ viewer'[v].token = dialog[d].token /\ viewer'[v].status = "loading"
          /\ viewer'[v].shown = -1
          /\ \A w \in Viewers : w # v => viewer'[w] = viewer[w]
      BY <3>1, <3>2, <2>0 DEF ViewerRecord, ViewersKnow
    <3>5. Request(v).viewer = v /\ Request(v).stage = "sent"
      BY DEF Request
    <3>6. ViewersKnow'
      BY <3>2, <3>3, <3>4, <3>5, <2>0, <2>5 DEF ViewersKnow
    <3> QED BY <3>2, <3>6, <2>5
  <2>7. ASSUME NEW v \in Viewers, PollBoard(v) PROVE TokensEnd' /\ ViewersKnow'
    <3>1. Request(v).viewer = v /\ Request(v).stage = "sent"
      BY DEF Request
    <3> QED BY <2>5, <2>7, <3>1 DEF PollBoard, ViewersKnow
  <2>8. ASSUME NEW r \in polls, NEW stage, NEW shapes,
               polls' = Progress(r, stage, shapes),
               UNCHANGED <<link, issued, ended, dialog, viewer>>,
               stage = "missing" => Dead(viewer[r.viewer].token)
        PROVE  TokensEnd' /\ ViewersKnow'
    <3>1. /\ [r EXCEPT !.stage = stage, !.shapes = shapes].viewer = r.viewer
          /\ [r EXCEPT !.stage = stage, !.shapes = shapes].stage = stage
      BY <2>0 DEF PollRecord
    <3> QED BY <2>5, <2>8, <3>1 DEF Progress, ViewersKnow
  <2>9. ASSUME NEW r \in polls, FindRoom(r) PROVE TokensEnd' /\ ViewersKnow'
    <3>1. viewer[r.viewer].token # link => Dead(viewer[r.viewer].token)
      BY <2>0 DEF ViewersKnow, TokensEnd, Dead
    <3> QED BY <2>8, <2>9, <3>1 DEF FindRoom
  <2>10. ASSUME NEW r \in polls, ReadBoard(r) PROVE TokensEnd' /\ ViewersKnow'
    BY <2>8, <2>10 DEF ReadBoard
  <2>11. ASSUME NEW r \in polls, UNCHANGED <<link, issued, ended, dialog>>,
                polls' = polls \ {r}, NEW x,
                viewer' = [viewer EXCEPT ![r.viewer] = x],
                x.token = viewer[r.viewer].token,
                x.status # "closed",
                x.status = "missing" => Dead(x.token),
                x.shown # -1 /\ ~Dead(x.token) => x.status = "ready"
         PROVE  TokensEnd' /\ ViewersKnow'
    BY <2>0, <2>5, <2>11 DEF ViewersKnow
  <2>12. ASSUME NEW r \in polls, Receive(r) PROVE TokensEnd' /\ ViewersKnow'
    <3> DEFINE v == r.viewer
               x == IF r.stage = "missing" THEN [viewer[v] EXCEPT !.status = "missing"]
                    ELSE Shown(v, r.shapes)
    <3>1. /\ UNCHANGED <<link, issued, ended, dialog>> /\ polls' = polls \ {r}
          /\ viewer' = [viewer EXCEPT ![v] = x]
      BY <2>12 DEF Receive
    <3>2. viewer[v] \in ViewerRecord /\ viewer[v].status # "closed"
      BY <2>0 DEF ViewersKnow
    <3>3. CASE r.stage = "missing"
      <4>1. x.token = viewer[v].token /\ x.status = "missing" /\ Dead(viewer[v].token)
        BY <3>2, <3>3 DEF ViewerRecord, ViewersKnow
      <4> QED BY <2>11, <3>1, <4>1
    <3>4. CASE r.stage # "missing"
      <4>1. x.token = viewer[v].token /\ (x = viewer[v] \/ x.status = "ready")
        BY <3>2, <3>4 DEF ViewerRecord, Shown
      <4>2. /\ viewer[v].status = "missing" => Dead(viewer[v].token)
            /\ viewer[v].shown # -1 /\ ~Dead(viewer[v].token) => viewer[v].status = "ready"
        BY <2>0 DEF ViewersKnow
      <4> HIDE DEF x
      <4> QED BY <2>11, <3>1, <3>2, <4>1, <4>2
    <3> QED BY <3>3, <3>4
  <2>13. ASSUME NEW r \in polls, PollFails(r) PROVE TokensEnd' /\ ViewersKnow'
    <3> DEFINE v == r.viewer
               x == [viewer[v] EXCEPT !.status = IF @ = "ready" THEN @ ELSE "error"]
    <3>1. /\ UNCHANGED <<link, issued, ended, dialog>> /\ polls' = polls \ {r}
          /\ viewer' = [viewer EXCEPT ![v] = x]
      BY <2>0, <2>13 DEF PollFails, ViewerRecord
    <3>2. viewer[v] \in ViewerRecord
      BY <2>0
    <3>3. /\ x.token = viewer[v].token /\ x.shown = viewer[v].shown
          /\ x.status = IF viewer[v].status = "ready" THEN "ready" ELSE "error"
      BY <3>2 DEF ViewerRecord
    <3>4. viewer[v].shown # -1 /\ ~Dead(viewer[v].token) => viewer[v].status = "ready"
      BY <2>0 DEF ViewersKnow
    <3> HIDE DEF x
    <3> QED BY <2>11, <3>1, <3>3, <3>4
  <2> QED BY <2>2, <2>3, <2>4, <2>6, <2>7, <2>9, <2>10, <2>12, <2>13 DEF LinkNext
<1> QED BY <1>1, <1>2, LinkTypeCorrect, PTL DEF LinkSpec

\* A link that was turned off or replaced never works again; a page says
\* "missing" only of a link that has ended, and goes on showing the board of
\* one that lasts.
THEOREM LinkAlwaysHolds == LinkSpec => []LinkHolds
<1>1. LinkTypeOK /\ TokensEnd /\ ViewersKnow => LinkHolds
  <2> SUFFICES ASSUME LinkTypeOK, TokensEnd, ViewersKnow PROVE LinkHolds
    OBVIOUS
  <2>1. link # NoToken => ended[link] = Lasting
    BY DEF LinkTypeOK, TokensEnd, NoToken
  <2>2. ASSUME NEW v \in Viewers,
               viewer[v].token # NoToken, ended[viewer[v].token] = Lasting
        PROVE  /\ viewer[v].status # "missing"
               /\ viewer[v].shown # -1 => viewer[v].status = "ready"
    BY <2>2 DEF ViewersKnow, Dead
  <2> QED BY <2>1, <2>2 DEF LinkHolds
<1> QED BY <1>1, LinkTypeCorrect, LinkIsKnown, PTL

-----------------------------------------------------------------------------
(***************************************************************************)
(* The chat, for any pages, nodes, users, contents and bounds.  Its        *)
(* invariant ChatInv has the types; that whatever a page holds or will     *)
(* hear is a message it may read (SecretsKept); that what a page which was *)
(* there all the time does not hold yet is still on its way (NothingMissed)*)
(* and that the marks are the highest messages that were read (MarksTrue). *)
(***************************************************************************)

Post == [by : Users, what : Contents]
ToldOf == {"chat_message_created"} \X Nat
Told == ToldOf \cup ({"room_joined"} \X {0}) \cup ({"sync_error"} \X {"recipient", "shape", "other"})

\* The messages under way in a connection, and those Redis has for a node.
Coming(told) == {told[k][2] : k \in {j \in DOMAIN told : told[j][1] = "chat_message_created"}}
Events(waiting) == {waiting[k] : k \in DOMAIN waiting}

ChatTypes ==
  /\ posts \in Seq(Post)
  /\ room \subseteq Messengers /\ whole \subseteq room
  /\ inbox \in [Messengers -> Seq(Contents \cup {JoinRoom})]
  /\ checked \in [Messengers -> Contents \cup {Nothing}]
  /\ created \in [Messengers -> Nat]
  /\ channel \in [Nodes -> Seq(Nat)]
  /\ wire \in [Messengers -> Seq(Told)]
  /\ ws \in [Messengers -> {"new", "open", "joined", "closed", "dead"}]
  /\ boot \in [Messengers -> {"asked", "read", "refused", "done", "failed"}]
  /\ answer \in [Messengers -> SUBSET Nat]
  /\ realtime \in [Messengers -> SUBSET Nat]
  /\ shown \in [Messengers -> SUBSET Nat]
  /\ panel \in [Messengers -> Tabs \cup {"closed"}]
  /\ seen \in [Messengers -> [Tabs -> Nat]]
  /\ stored \in [Users -> [Tabs -> Nat]]
  /\ onScreen \in [Users -> SUBSET Nat]

\* Whatever is on its way to a page, or there, is a message it may read.
SecretsKept ==
  /\ \A p \in Messengers : /\ answer[p] \cup realtime[p] \cup shown[p] \subseteq Readable(p)
                           /\ Coming(wire[p]) \subseteq Readable(p)
  /\ \A n \in Nodes : Events(channel[n]) \subseteq Ids

\* What a handler has created and not sent yet is a message of its user, and
\* it takes nothing else meanwhile.
CreatedOwn ==
  \A p \in Messengers :
    /\ created[p] # 0 => created[p] \in Ids /\ posts[created[p]].by = UserOf[p]
    /\ checked[p] # Nothing => created[p] = 0

\* What the page has of the history and of the events: its lists, or what its
\* lists will be made of.
Has(p) == IF boot[p] = "done" THEN shown[p] ELSE answer[p] \cup realtime[p]

Missed(p, i) ==
  i \in lost /\ \E q \in Messengers : UserOf[q] = posts[i].by /\ NodeOf[q] # NodeOf[p]

\* A page that was there all the time has every message it may read, or will
\* get it, or it was lost between the nodes.
Reaches(p, i) ==
  \/ i \in Has(p) \/ i \in Coming(wire[p]) \/ i \in Events(channel[NodeOf[p]])
  \/ \E q \in Messengers : created[q] = i
  \/ Missed(p, i)

NothingMissed ==
  /\ \A p \in Messengers : boot[p] = "done" => realtime[p] \subseteq shown[p]
  /\ \A p \in whole : /\ boot[p] \in {"read", "done"}
                      /\ \A i \in Readable(p) : Reaches(p, i)

\* A mark is the highest of the messages that were read, zero before the first.
MarkOf(n, read) == n \in read \cup {0} /\ \A i \in read : i <= n
ReadIn(u, t) ==
  {i \in onScreen[u] : TabOf(i) = t /\ (t = "direct" => posts[i].by # u)}

MarksTrue ==
  /\ \A p \in Messengers : seen[p] = stored[UserOf[p]]
  /\ \A u \in Users : /\ onScreen[u] \subseteq Ids
                      /\ \A t \in Tabs : MarkOf(stored[u][t], ReadIn(u, t))

ChatInv == ChatTypes /\ SecretsKept /\ CreatedOwn /\ NothingMissed /\ MarksTrue

AboveIn(S, x) == {y \in S : y > x}

\* A finite set of integers has a greatest element, which Max chooses: strict
\* inclusion of the finite sets of greater elements is well-founded.
LEMMA MaxFacts ==
  ASSUME NEW S \in SUBSET Int, S # {}, IsFiniteSet(S)
  PROVE  Max(S) \in S /\ \A y \in S : y <= Max(S)
<1> DEFINE T == {AboveIn(S, x) : x \in S}
<1>1. IsWellFoundedOn(StrictSubsetOrdering(S), SUBSET S)
  <2>1. IsWellFoundedOn(StrictSubsetOrdering(S), FiniteSubsetsOf(S))
    BY FS_StrictSubsetOrderingWellFounded
  <2>2. FiniteSubsetsOf(S) = SUBSET S
    BY FS_FiniteSubsetsOfFinite
  <2> QED BY <2>1, <2>2
<1>2. T \subseteq SUBSET S /\ T # {}
  BY DEF AboveIn
<1>3. \E u \in T : \A v \in T : ~(<<v, u>> \in StrictSubsetOrdering(S))
  <2> HIDE DEF T
  <2> QED BY <1>1, <1>2, WFMin
<1>4. PICK u \in T : \A v \in T : ~(<<v, u>> \in StrictSubsetOrdering(S))
  BY <1>3
<1>5. PICK x \in S : u = AboveIn(S, x)
  OBVIOUS
<1>6. ASSUME NEW y \in S PROVE y <= x
  <2> SUFFICES ASSUME y > x PROVE FALSE
    OBVIOUS
  <2>1. y \in Int /\ x \in Int
    OBVIOUS
  <2>2. y \in AboveIn(S, x) /\ y \notin AboveIn(S, y)
    BY <2>1 DEF AboveIn
  <2>3. \A z \in AboveIn(S, y) : z \in AboveIn(S, x)
    <3> SUFFICES ASSUME NEW z \in S, z > y PROVE z > x
      BY DEF AboveIn
    <3>1. z \in Int
      OBVIOUS
    <3> QED BY <2>1, <3>1
  <2>4. <<AboveIn(S, y), u>> \in StrictSubsetOrdering(S)
    <3>1. AboveIn(S, y) \subseteq S /\ u \subseteq S
      BY <1>5 DEF AboveIn
    <3>2. AboveIn(S, y) \subseteq u /\ AboveIn(S, y) # u
      BY <1>5, <2>2, <2>3
    <3> QED BY <3>1, <3>2 DEF StrictSubsetOrdering
  <2>5. AboveIn(S, y) \in T
    OBVIOUS
  <2> QED BY <1>4, <2>4, <2>5
<1>7. \E m \in S : \A y \in S : m >= y
  BY <1>6
<1>8. Max(S) \in S /\ \A y \in S : Max(S) >= y
  BY <1>7 DEF Max
<1> QED BY <1>8

LEMMA TellFacts ==
  ASSUME NEW told \in Seq(Told), NEW m \in Told
  PROVE  /\ Append(told, m) \in Seq(Told)
         /\ Coming(Append(told, m)) =
              Coming(told) \cup (IF m[1] = "chat_message_created" THEN {m[2]} ELSE {})
<1>1. /\ Append(told, m) \in Seq(Told) /\ DOMAIN told = 1..Len(told)
      /\ DOMAIN Append(told, m) = 1..Len(told) + 1 /\ Len(told) \in Nat
      /\ \A k \in 1..Len(told) : Append(told, m)[k] = told[k]
      /\ Append(told, m)[Len(told) + 1] = m
  OBVIOUS
<1> DEFINE new == Append(told, m)
<1> HIDE DEF new
<1>2. /\ DOMAIN new = DOMAIN told \cup {Len(told) + 1}
      /\ \A k \in DOMAIN told : new[k] = told[k]
      /\ new[Len(told) + 1] = m
  BY <1>1 DEF new
<1>3. Coming(new) = Coming(told) \cup (IF m[1] = "chat_message_created" THEN {m[2]} ELSE {})
  BY <1>2 DEF Coming
<1> QED BY <1>1, <1>3 DEF new

LEMMA HearFacts ==
  ASSUME NEW told \in Seq(Told), told # <<>>
  PROVE  /\ Tail(told) \in Seq(Told)
         /\ Head(told) \in Told
         /\ Coming(Tail(told)) \subseteq Coming(told)
         /\ Head(told)[1] = "chat_message_created" =>
              Head(told)[2] \in Coming(told) /\ Coming(told) \subseteq Coming(Tail(told)) \cup {Head(told)[2]}
         /\ Head(told)[1] # "chat_message_created" => Coming(told) \subseteq Coming(Tail(told))
<1> DEFINE rest == Tail(told)
<1>1. /\ rest \in Seq(Told) /\ Head(told) \in Told /\ Head(told) = told[1]
      /\ DOMAIN told = 1..Len(told) /\ Len(told) \in Nat \ {0}
      /\ DOMAIN rest = 1..Len(told) - 1
      /\ \A k \in 1..Len(told) - 1 : rest[k] = told[k + 1]
  OBVIOUS
<1> HIDE DEF rest
<1>2. /\ 1 \in DOMAIN told
      /\ \A k \in DOMAIN rest : k + 1 \in DOMAIN told /\ rest[k] = told[k + 1]
      /\ \A k \in DOMAIN told : k # 1 => k - 1 \in DOMAIN rest /\ rest[k - 1] = told[k]
  BY <1>1
<1>3. Coming(rest) \subseteq Coming(told)
  BY <1>2 DEF Coming
<1>4. \A k \in DOMAIN told : k = 1 \/ \E j \in DOMAIN rest : rest[j] = told[k]
  BY <1>2
<1>5. ASSUME NEW i \in Coming(told)
      PROVE  \/ i \in Coming(rest)
             \/ told[1][1] = "chat_message_created" /\ i = told[1][2]
  <2>1. PICK k \in DOMAIN told : told[k][1] = "chat_message_created" /\ i = told[k][2]
    BY DEF Coming
  <2>2. CASE k = 1
    BY <2>1, <2>2
  <2>3. CASE k # 1
    <3>1. PICK j \in DOMAIN rest : rest[j] = told[k]
      BY <1>4, <2>3
    <3>2. rest[j][1] = "chat_message_created" /\ i = rest[j][2]
      BY <2>1, <3>1
    <3> QED BY <3>2 DEF Coming
  <2> QED BY <2>2, <2>3
<1>6. told[1][1] = "chat_message_created" => told[1][2] \in Coming(told)
  BY <1>2 DEF Coming
<1> QED BY <1>1, <1>3, <1>5, <1>6 DEF rest

LEMMA ComingEmpty == Coming(<<>>) = {} /\ Events(<<>>) = {}
  BY DEF Coming, Events

LEMMA EventFacts ==
  ASSUME NEW waiting \in Seq(Nat)
  PROVE  /\ \A i \in Nat : /\ Append(waiting, i) \in Seq(Nat)
                           /\ Events(Append(waiting, i)) = Events(waiting) \cup {i}
         /\ waiting # <<>> => /\ Tail(waiting) \in Seq(Nat)
                              /\ Head(waiting) \in Events(waiting)
                              /\ Events(Tail(waiting)) \subseteq Events(waiting)
                              /\ Events(waiting) \subseteq Events(Tail(waiting)) \cup {Head(waiting)}
<1>1. ASSUME NEW i \in Nat
      PROVE  /\ Append(waiting, i) \in Seq(Nat)
             /\ Events(Append(waiting, i)) = Events(waiting) \cup {i}
  <2> DEFINE new == Append(waiting, i)
  <2>1. /\ new \in Seq(Nat) /\ DOMAIN waiting = 1..Len(waiting) /\ Len(waiting) \in Nat
        /\ DOMAIN new = 1..Len(waiting) + 1 /\ new[Len(waiting) + 1] = i
        /\ \A k \in 1..Len(waiting) : new[k] = waiting[k]
    OBVIOUS
  <2> HIDE DEF new
  <2>2. /\ DOMAIN new = DOMAIN waiting \cup {Len(waiting) + 1}
        /\ \A k \in DOMAIN waiting : new[k] = waiting[k]
    BY <2>1
  <2>3. Events(new) = Events(waiting) \cup {i}
    BY <2>1, <2>2 DEF Events
  <2> QED BY <2>1, <2>3 DEF new
<1>2. ASSUME waiting # <<>>
      PROVE  /\ Tail(waiting) \in Seq(Nat) /\ Head(waiting) \in Events(waiting)
             /\ Events(Tail(waiting)) \subseteq Events(waiting)
             /\ Events(waiting) \subseteq Events(Tail(waiting)) \cup {Head(waiting)}
  <2> DEFINE rest == Tail(waiting)
  <2>1. /\ rest \in Seq(Nat) /\ Head(waiting) = waiting[1]
        /\ DOMAIN waiting = 1..Len(waiting) /\ Len(waiting) \in Nat \ {0}
        /\ DOMAIN rest = 1..Len(waiting) - 1
        /\ \A k \in 1..Len(waiting) - 1 : rest[k] = waiting[k + 1]
    BY <1>2
  <2> HIDE DEF rest
  <2>2. /\ 1 \in DOMAIN waiting
        /\ \A k \in DOMAIN rest : k + 1 \in DOMAIN waiting /\ rest[k] = waiting[k + 1]
        /\ \A k \in DOMAIN waiting : k # 1 => k - 1 \in DOMAIN rest /\ rest[k - 1] = waiting[k]
    BY <2>1
  <2>3. Events(rest) \subseteq Events(waiting)
    BY <2>2 DEF Events
  <2>4. Events(waiting) \subseteq Events(rest) \cup {waiting[1]}
    BY <2>2 DEF Events
  <2> QED BY <2>1, <2>2, <2>3, <2>4 DEF rest, Events
<1> QED BY <1>1, <1>2

\* A new row leaves the others as they are.
LEMMA PostsGrow ==
  ASSUME posts \in Seq(Post), NEW r \in Post, posts' = Append(posts, r)
  PROVE  /\ posts' \in Seq(Post) /\ Len(posts') = Len(posts) + 1 /\ Len(posts) \in Nat
         /\ Ids \subseteq Ids' /\ Ids' = Ids \cup {Len(posts')} /\ Len(posts') \notin Ids
         /\ \A i \in Ids : posts'[i] = posts[i]
         /\ posts'[Len(posts')] = r
  BY DEF Ids

LEMMA UsersOwn ==
  ASSUME NEW p \in Messengers, NEW q \in Messengers, UserOf[q] = UserOf[p]
  PROVE  q = p /\ UserOf[p] \in Users
  BY RoomChatAssumption

\* What a tab marks when it is looked at.
Markable(p, t, list) ==
  {i \in list : TabOf(i) = t /\ (t = "direct" => posts[i].by # UserOf[p])}

LEMMA NewestFacts ==
  ASSUME NEW p, NEW t, posts \in Seq(Post), NEW list \in SUBSET Ids
  PROVE  /\ Newest(p, t, list) \in Nat
         /\ Newest(p, t, list) \in {0} \cup Markable(p, t, list)
         /\ \A i \in Markable(p, t, list) : i <= Newest(p, t, list)
<1> DEFINE S == {0} \cup Markable(p, t, list)
<1>1. Newest(p, t, list) = Max(S)
  BY DEF Newest, Markable
<1>2. S \subseteq 0..Len(posts) /\ Len(posts) \in Nat
  <2>1. Len(posts) \in Nat /\ list \subseteq 1..Len(posts)
    BY DEF Ids
  <2>2. 0 \in 0..Len(posts) /\ 1..Len(posts) \subseteq 0..Len(posts)
    BY <2>1
  <2> QED BY <2>1, <2>2 DEF Markable
<1> HIDE DEF S
<1>3. IsFiniteSet(S)
  <2>1. IsFiniteSet(0..Len(posts))
    BY <1>2, FS_Interval
  <2> QED BY <1>2, <2>1, FS_Subset
<1>4. S \in SUBSET Int /\ S # {}
  BY <1>2 DEF S
<1>5. Max(S) \in S /\ \A y \in S : y <= Max(S)
  BY <1>3, <1>4, MaxFacts
<1>6. Max(S) \in Nat
  <2>1. \A y \in S : y \in Nat
    BY <1>2
  <2> QED BY <1>5, <2>1
<1>7. Newest(p, t, list) \in S /\ \A y \in S : y <= Newest(p, t, list)
  BY <1>1, <1>5
<1>8. Newest(p, t, list) \in Nat
  BY <1>1, <1>6
<1> QED BY <1>7, <1>8 DEF S

LEMMA MaxOfTwo ==
  ASSUME NEW a \in Nat, NEW b \in Nat, b > a
  PROVE  Max({a, b}) = b
<1>1. IsFiniteSet({a, b})
  <2>1. {a, b} \subseteq 0..b
    OBVIOUS
  <2>2. IsFiniteSet(0..b)
    BY FS_Interval
  <2> QED BY <2>1, <2>2, FS_Subset
<1>2. {a, b} \in SUBSET Int /\ {a, b} # {}
  OBVIOUS
<1>3. Max({a, b}) \in {a, b} /\ \A y \in {a, b} : y <= Max({a, b})
  BY <1>1, <1>2, MaxFacts
<1> QED BY <1>3

LEMMA MarksStay ==
  ASSUME MarksTrue, UNCHANGED <<seen, stored, onScreen, posts>>
  PROVE  MarksTrue'
  BY DEF MarksTrue, MarkOf, ReadIn, TabOf, Kind, Ids

\* Looking at a tab moves its mark to the highest message that is now read.
LEMMA LookMarks ==
  ASSUME ChatTypes, MarksTrue, NEW p \in Messengers, NEW tab \in Tabs \cup {"closed"},
         NEW list \in SUBSET Ids, NEW state, Look(p, tab, list, state), posts' = posts
  PROVE  /\ seen' \in [Messengers -> [Tabs -> Nat]]
         /\ stored' \in [Users -> [Tabs -> Nat]]
         /\ onScreen' \in [Users -> SUBSET Nat]
         /\ MarksTrue'
<1> DEFINE u == UserOf[p]
           new == Newest(p, tab, list)
           reads == tab # "closed" /\ Loaded(state)
           moves == reads /\ new > seen[p][tab]
<1>0. /\ u \in Users /\ seen[p] = stored[u] /\ seen[p] \in [Tabs -> Nat]
      /\ \A q \in Messengers : UserOf[q] = u => q = p
      /\ \A q \in Messengers : seen[q] = stored[UserOf[q]] /\ UserOf[q] \in Users
      /\ seen \in [Messengers -> [Tabs -> Nat]] /\ stored \in [Users -> [Tabs -> Nat]]
      /\ onScreen \in [Users -> SUBSET Nat]
      /\ \A v \in Users : onScreen[v] \subseteq Ids
      /\ \A v \in Users, t \in Tabs : MarkOf(stored[v][t], ReadIn(v, t))
  BY RoomChatAssumption DEF ChatTypes, MarksTrue
<1>1. /\ new \in Nat /\ new \in {0} \cup Markable(p, tab, list)
      /\ \A i \in Markable(p, tab, list) : i <= new
  BY NewestFacts DEF ChatTypes
<1>2. /\ seen' = IF moves
                 THEN [seen EXCEPT ![p] = [seen[p] EXCEPT ![tab] = Max({seen[p][tab], new})]]
                 ELSE seen
      /\ stored' = IF moves THEN [stored EXCEPT ![u] = [stored[u] EXCEPT ![tab] = new]]
                   ELSE stored
      /\ onScreen' = IF reads
                     THEN [onScreen EXCEPT ![u] = onScreen[u] \cup {i \in list : TabOf(i) = tab}]
                     ELSE onScreen
  <2>1. seen' = IF moves
                THEN [seen EXCEPT ![p] = [seen[p] EXCEPT ![tab] = Max({seen[p][tab], new})]]
                ELSE seen
    BY Zenon DEF Look
  <2>2. stored' = IF moves THEN [stored EXCEPT ![u] = [stored[u] EXCEPT ![tab] = new]]
                  ELSE stored
    BY Zenon DEF Look
  <2>3. onScreen' = IF reads
                    THEN [onScreen EXCEPT ![u] = onScreen[u] \cup {i \in list : TabOf(i) = tab}]
                    ELSE onScreen
    BY Zenon DEF Look
  <2> QED BY <2>1, <2>2, <2>3
<1> HIDE DEF new
<1>3. ASSUME reads PROVE tab \in Tabs
  BY <1>3 DEF Tabs
<1>4. ASSUME moves
      PROVE  /\ seen' = [seen EXCEPT ![p] = [seen[p] EXCEPT ![tab] = new]]
             /\ stored' = [stored EXCEPT ![u] = [stored[u] EXCEPT ![tab] = new]]
  <2>1. seen[p][tab] \in Nat /\ new > seen[p][tab]
    BY <1>0, <1>3, <1>4
  <2>2. Max({seen[p][tab], new}) = new
    BY <1>1, <2>1, MaxOfTwo
  <2> QED BY <1>2, <1>4, <2>2
<1>5. /\ seen' \in [Messengers -> [Tabs -> Nat]]
      /\ stored' \in [Users -> [Tabs -> Nat]]
      /\ \A q \in Messengers : seen'[q] = stored'[UserOf[q]]
      /\ \A v \in Users, t \in Tabs :
           stored'[v][t] = IF moves /\ v = u /\ t = tab THEN new ELSE stored[v][t]
  <2>1. CASE moves
    <3>1. /\ seen' \in [Messengers -> [Tabs -> Nat]]
          /\ stored' \in [Users -> [Tabs -> Nat]]
      <4>1. tab \in Tabs /\ new \in Nat
        BY <1>1, <1>3, <2>1
      <4>2. /\ [seen[p] EXCEPT ![tab] = new] \in [Tabs -> Nat]
            /\ [stored[u] EXCEPT ![tab] = new] \in [Tabs -> Nat]
        BY <1>0, <4>1
      <4> DEFINE row == [seen[p] EXCEPT ![tab] = new]
                 line == [stored[u] EXCEPT ![tab] = new]
      <4>3. seen' = [seen EXCEPT ![p] = row] /\ stored' = [stored EXCEPT ![u] = line]
        BY <1>4, <2>1
      <4>4. row \in [Tabs -> Nat] /\ line \in [Tabs -> Nat]
        BY <4>2
      <4> HIDE DEF row, line
      <4>5. seen' \in [Messengers -> [Tabs -> Nat]]
        BY <1>0, <4>3, <4>4
      <4>6. stored' \in [Users -> [Tabs -> Nat]]
        BY <1>0, <4>3, <4>4
      <4> QED BY <4>5, <4>6
    <3>2. /\ seen'[p] = [seen[p] EXCEPT ![tab] = new]
          /\ \A q \in Messengers : q # p => seen'[q] = seen[q]
          /\ stored'[u] = [stored[u] EXCEPT ![tab] = new]
          /\ \A v \in Users : v # u => stored'[v] = stored[v]
      BY <1>0, <1>4, <2>1
    <3>3. \A q \in Messengers : seen'[q] = stored'[UserOf[q]]
      BY <1>0, <3>2
    <3>4. \A v \in Users, t \in Tabs :
            stored'[v][t] = IF moves /\ v = u /\ t = tab THEN new ELSE stored[v][t]
      BY <1>0, <1>3, <2>1, <3>2
    <3> QED BY <3>1, <3>3, <3>4
  <2>2. CASE ~moves
    <3>1. seen' = seen /\ stored' = stored
      BY <1>2, <2>2
    <3> QED BY <1>0, <2>2, <3>1
  <2> QED BY <2>1, <2>2
<1>6. list \subseteq Nat
  BY DEF Ids
<1>7. onScreen' \in [Users -> SUBSET Nat]
  BY <1>0, <1>2, <1>6
<1>8. \A v \in Users : onScreen'[v] = IF reads /\ v = u
                                      THEN onScreen[v] \cup {i \in list : TabOf(i) = tab}
                                      ELSE onScreen[v]
  BY <1>0, <1>2
<1>9. ASSUME NEW v \in Users, NEW t \in Tabs
      PROVE  onScreen'[v] \subseteq Ids' /\ MarkOf(stored'[v][t], ReadIn(v, t)')
  <2>1. Ids' = Ids /\ \A i : TabOf(i)' = TabOf(i)
    BY DEF Ids, TabOf, Kind
  <2>2. onScreen'[v] \subseteq Ids'
    BY <1>0, <1>8, <2>1
  <2>3. ReadIn(v, t)' = {i \in onScreen'[v] : TabOf(i) = t
                                              /\ (t = "direct" => posts[i].by # v)}
    BY <2>1 DEF ReadIn
  <2>4. MarkOf(stored[v][t], ReadIn(v, t))
    BY <1>0
  <2>5. CASE reads /\ v = u /\ t = tab
    <3>1. ReadIn(v, t)' = ReadIn(v, t) \cup Markable(p, tab, list)
      BY <1>8, <2>3, <2>5 DEF ReadIn, Markable
    <3>2. stored[v][t] \in Nat /\ ReadIn(v, t) \subseteq Nat /\ Markable(p, tab, list) \subseteq Nat
      <4>1. stored[v] \in [Tabs -> Nat] /\ onScreen[v] \subseteq Nat
        BY <1>0
      <4> QED BY <1>6, <4>1 DEF ReadIn, Markable
    <3>3. stored[v][t] = seen[p][tab]
      BY <1>0, <2>5
    <3>4. CASE moves
      <4>1. stored'[v][t] = new /\ new > stored[v][t]
        BY <1>5, <2>5, <3>3, <3>4
      <4>2. new # 0
        BY <1>1, <3>2, <4>1
      <4>3. new \in ReadIn(v, t)'
        BY <1>1, <3>1, <4>2
      <4>4. \A i \in ReadIn(v, t)' : i <= new
        <5> TAKE i \in ReadIn(v, t)'
        <5>1. CASE i \in ReadIn(v, t)
          <6>1. i <= stored[v][t] /\ i \in Nat
            BY <2>4, <3>2, <5>1 DEF MarkOf
          <6> QED BY <1>1, <3>2, <4>1, <6>1
        <5>2. CASE i \in Markable(p, tab, list)
          BY <1>1, <5>2
        <5> QED BY <3>1, <5>1, <5>2
      <4> QED BY <2>2, <4>1, <4>3, <4>4 DEF MarkOf
    <3>5. CASE ~moves
      <4>1. stored'[v][t] = stored[v][t] /\ ~(new > stored[v][t])
        BY <1>5, <2>5, <3>3, <3>5
      <4>2. \A i \in Markable(p, tab, list) : i <= stored[v][t]
        <5> TAKE i \in Markable(p, tab, list)
        <5>1. i <= new /\ i \in Nat
          BY <1>1, <3>2
        <5> QED BY <1>1, <3>2, <4>1, <5>1
      <4> QED BY <2>2, <2>4, <3>1, <4>1, <4>2 DEF MarkOf
    <3> QED BY <3>4, <3>5
  <2>6. CASE ~(reads /\ v = u /\ t = tab)
    <3>1. stored'[v][t] = stored[v][t]
      BY <1>5, <2>6
    <3>2. ReadIn(v, t)' = ReadIn(v, t)
      <4>1. CASE ~(reads /\ v = u)
        BY <1>8, <2>3, <4>1 DEF ReadIn
      <4>2. CASE reads /\ v = u /\ t # tab
        BY <1>8, <2>3, <4>2 DEF ReadIn
      <4> QED BY <2>6, <4>1, <4>2
    <3> QED BY <2>2, <2>4, <3>1, <3>2
  <2> QED BY <2>5, <2>6
<1>10. MarksTrue'
  <2>1. Tabs # {}
    BY DEF Tabs
  <2> QED BY <1>5, <1>9, <2>1 DEF MarksTrue
<1> QED BY <1>5, <1>7, <1>10

LEMMA SamePosts ==
  ASSUME UNCHANGED posts
  PROVE  Ids' = Ids /\ \A p : Readable(p)' = Readable(p)
  BY DEF Ids, Readable, Kind

\* What is under way may be lost for a page that is not connected any more.
LEMMA SameMessages ==
  ASSUME ChatInv,
         UNCHANGED <<posts, created, channel, boot, answer, realtime, shown, lost>>,
         whole' \subseteq whole,
         \A p \in Messengers : Coming(wire'[p]) \subseteq Coming(wire[p]),
         \A p \in whole' : Coming(wire'[p]) = Coming(wire[p])
  PROVE  SecretsKept' /\ NothingMissed'
<1>1. Ids' = Ids /\ \A p \in Messengers : Readable(p)' = Readable(p)
  BY SamePosts
<1>2. SecretsKept'
  BY <1>1 DEF ChatInv, SecretsKept
<1>3. \A p \in whole' : boot'[p] \in {"read", "done"}
  BY DEF ChatInv, NothingMissed
<1>4. ASSUME NEW p \in whole', NEW i \in Readable(p)
      PROVE  Reaches(p, i)'
  <2>1. Reaches(p, i)
    BY <1>4 DEF ChatInv, NothingMissed
  <2>2. Coming(wire'[p]) = Coming(wire[p])
    BY <1>4
  <2> QED BY <2>1, <2>2 DEF Reaches, Has, Missed
<1>5. whole' \subseteq Messengers
  BY DEF ChatInv, ChatTypes
<1>6. \A p \in Messengers : boot'[p] = "done" => realtime'[p] \subseteq shown'[p]
  BY DEF ChatInv, NothingMissed
<1> QED BY <1>1, <1>2, <1>3, <1>4, <1>5, <1>6 DEF NothingMissed

LEMMA CreatedStays ==
  ASSUME CreatedOwn, UNCHANGED <<posts, created>>,
         \A p \in Messengers : checked'[p] # Nothing => created[p] = 0
  PROVE  CreatedOwn'
  BY SamePosts DEF CreatedOwn

\* Nothing is told but what is refused or joined.
LEMMA Silent ==
  ASSUME ChatTypes, NEW p \in Messengers, NEW m \in Told, m[1] # "chat_message_created",
         Send(p, m)
  PROVE  /\ wire' \in [Messengers -> Seq(Told)]
         /\ \A q \in Messengers : Coming(wire'[q]) = Coming(wire[q])
<1>1. wire' = [wire EXCEPT ![p] = Append(wire[p], m)]
  BY DEF Send
<1>2. wire[p] \in Seq(Told) /\ wire \in [Messengers -> Seq(Told)]
  BY DEF ChatTypes
<1> DEFINE new == Append(wire[p], m)
<1>3. new \in Seq(Told) /\ Coming(new) = Coming(wire[p])
  BY <1>2, TellFacts
<1> HIDE DEF new
<1>4. wire' = [wire EXCEPT ![p] = new]
  BY <1>1 DEF new
<1> QED BY <1>2, <1>3, <1>4

LEMMA ConnectKeeps ==
  ASSUME ChatInv, NEW p \in Messengers, Connect(p)
  PROVE  ChatInv'
<1>1. ChatTypes'
  <2>1. inbox[p] \in Seq(Contents \cup {JoinRoom}) /\ inbox \in [Messengers -> Seq(Contents \cup {JoinRoom})]
    BY DEF ChatInv, ChatTypes
  <2>2. inbox' = [inbox EXCEPT ![p] = Append(inbox[p], JoinRoom)]
    BY DEF Connect
  <2>3. inbox' \in [Messengers -> Seq(Contents \cup {JoinRoom})]
    <3> HIDE DEF JoinRoom
    <3>1. Append(inbox[p], JoinRoom) \in Seq(Contents \cup {JoinRoom})
      BY <2>1
    <3> QED BY <2>1, <2>2, <3>1
  <2>4. ws' \in [Messengers -> {"new", "open", "joined", "closed", "dead"}]
    BY DEF ChatInv, ChatTypes, Connect
  <2> QED BY <2>3, <2>4 DEF ChatInv, ChatTypes, Connect, marks, history
<1>2. SecretsKept' /\ NothingMissed'
  BY SameMessages DEF Connect, history
<1>3. CreatedOwn'
  BY CreatedStays DEF ChatInv, CreatedOwn, Connect
<1>4. MarksTrue'
  BY MarksStay DEF ChatInv, Connect, marks
<1> QED BY <1>1, <1>2, <1>3, <1>4 DEF ChatInv

LEMMA WriteKeeps ==
  ASSUME ChatInv, NEW p \in Messengers, NEW what \in Contents, Write(p, what)
  PROVE  ChatInv'
<1>1. ChatTypes'
  <2>1. inbox[p] \in Seq(Contents \cup {JoinRoom}) /\ inbox \in [Messengers -> Seq(Contents \cup {JoinRoom})]
    BY DEF ChatInv, ChatTypes
  <2>2. inbox' = IF CanSend(p) THEN [inbox EXCEPT ![p] = Append(inbox[p], what)] ELSE inbox
    BY DEF Write
  <2>3. inbox' \in [Messengers -> Seq(Contents \cup {JoinRoom})]
    <3>1. Append(inbox[p], what) \in Seq(Contents \cup {JoinRoom})
      BY <2>1
    <3> QED BY <2>1, <2>2, <3>1
  <2> QED BY <2>3 DEF ChatInv, ChatTypes, Write, marks
<1>2. SecretsKept' /\ NothingMissed'
  BY SameMessages DEF Write
<1>3. CreatedOwn'
  BY CreatedStays DEF ChatInv, CreatedOwn, Write
<1>4. MarksTrue'
  BY MarksStay DEF ChatInv, Write, marks
<1> QED BY <1>1, <1>2, <1>3, <1>4 DEF ChatInv

\* Steps that change neither the messages nor the marks.
LEMMA ClearErrorKeeps ==
  ASSUME ChatInv, NEW p \in Messengers, ClearError(p)
  PROVE  ChatInv'
<1>1. ChatTypes'
  BY DEF ChatInv, ChatTypes, ClearError, server, marks, history
<1>2. SecretsKept' /\ NothingMissed'
  BY SameMessages DEF ClearError, server, history
<1>3. CreatedOwn'
  BY CreatedStays DEF ChatInv, CreatedOwn, ClearError, server
<1>4. MarksTrue'
  BY MarksStay DEF ChatInv, ClearError, server, marks
<1> QED BY <1>1, <1>2, <1>3, <1>4 DEF ChatInv

LEMMA AccessKeeps ==
  ASSUME ChatInv, DeleteShape \/ \E u \in Users : Revoke(u)
  PROVE  ChatInv'
<1>1. ChatTypes'
  BY DEF ChatInv, ChatTypes, Revoke, DeleteShape, talk, marks, history
<1>2. SecretsKept' /\ NothingMissed'
  BY SameMessages DEF Revoke, DeleteShape, talk, history
<1>3. CreatedOwn'
  BY CreatedStays DEF ChatInv, CreatedOwn, Revoke, DeleteShape
<1>4. MarksTrue'
  BY MarksStay DEF ChatInv, Revoke, DeleteShape, marks
<1> QED BY <1>1, <1>2, <1>3, <1>4 DEF ChatInv

LEMMA SilentKeeps ==
  ASSUME ChatInv,
         UNCHANGED <<posts, created, channel, boot, answer, realtime, shown, lost, whole>>,
         \A q \in Messengers : Coming(wire'[q]) = Coming(wire[q])
  PROVE  SecretsKept' /\ NothingMissed'
<1>1. /\ \A p \in Messengers : Coming(wire'[p]) \subseteq Coming(wire[p])
      /\ \A p \in whole' : Coming(wire'[p]) = Coming(wire[p])
      /\ whole' \subseteq whole
  BY DEF ChatInv, ChatTypes
<1> QED BY <1>1, SameMessages

LEMMA JoinKeeps ==
  ASSUME ChatInv, NEW p \in Messengers, Join(p)
  PROVE  ChatInv'
<1>1. /\ inbox' \in [Messengers -> Seq(Contents \cup {JoinRoom})]
  BY DEF ChatInv, ChatTypes, Join, Taken
<1>2. /\ wire' \in [Messengers -> Seq(Told)]
      /\ \A q \in Messengers : Coming(wire'[q]) = Coming(wire[q])
  <2>1. CASE UNCHANGED wire
    BY <2>1 DEF ChatInv, ChatTypes
  <2>2. CASE Send(p, <<"room_joined", 0>>)
    <3>1. <<"room_joined", 0>> \in Told
      BY DEF Told
    <3> QED BY <2>2, <3>1, Silent DEF ChatInv
  <2> QED BY <2>1, <2>2 DEF Join
<1>3. room' \subseteq Messengers /\ room \subseteq room'
  BY DEF ChatInv, ChatTypes, Join
<1>4. ChatTypes'
  BY <1>1, <1>2, <1>3 DEF ChatInv, ChatTypes, Join, talk, marks, history
<1>5. SecretsKept' /\ NothingMissed'
  BY <1>2, SilentKeeps DEF Join, talk, history
<1>6. CreatedOwn'
  BY CreatedStays DEF ChatInv, CreatedOwn, Join
<1>7. MarksTrue'
  BY MarksStay DEF ChatInv, Join, marks
<1> QED BY <1>4, <1>5, <1>6, <1>7 DEF ChatInv

LEMMA RefuseFacts ==
  ASSUME ChatTypes, NEW p \in Messengers, NEW reason \in {"recipient", "shape", "other"},
         Refuse(p, reason)
  PROVE  /\ wire' \in [Messengers -> Seq(Told)]
         /\ \A q \in Messengers : Coming(wire'[q]) = Coming(wire[q])
<1>1. CASE UNCHANGED wire
  BY <1>1 DEF ChatTypes
<1>2. CASE Send(p, <<"sync_error", reason>>)
  <2>1. <<"sync_error", reason>> \in Told
    BY DEF Told
  <2> QED BY <1>2, <2>1, Silent
<1> QED BY <1>1, <1>2 DEF Refuse

LEMMA CheckKeeps ==
  ASSUME ChatInv, NEW p \in Messengers, Check(p)
  PROVE  ChatInv'
<1> DEFINE what == Head(inbox[p])
<1>1. /\ inbox' \in [Messengers -> Seq(Contents \cup {JoinRoom})]
      /\ what \in Contents
  BY DEF ChatInv, ChatTypes, Check, Taken
<1>2. \/ /\ Refuse(p, IF what.kind = "direct" THEN "recipient" ELSE "shape")
         /\ UNCHANGED checked
      \/ /\ checked' = [checked EXCEPT ![p] = what]
         /\ UNCHANGED wire
  BY DEF Check
<1> HIDE DEF what
<1>3. /\ wire' \in [Messengers -> Seq(Told)]
      /\ \A q \in Messengers : Coming(wire'[q]) = Coming(wire[q])
  <2>1. CASE UNCHANGED wire
    BY <2>1 DEF ChatInv, ChatTypes
  <2>2. CASE Refuse(p, IF what.kind = "direct" THEN "recipient" ELSE "shape")
    <3>1. (IF what.kind = "direct" THEN "recipient" ELSE "shape") \in {"recipient", "shape", "other"}
      OBVIOUS
    <3> QED BY <2>2, <3>1, RefuseFacts DEF ChatInv
  <2> QED BY <1>2, <2>1, <2>2
<1>4. /\ checked' \in [Messengers -> Contents \cup {Nothing}]
      /\ \A q \in Messengers : checked'[q] # checked[q] => q = p
  <2>1. checked \in [Messengers -> Contents \cup {Nothing}]
    BY DEF ChatInv, ChatTypes
  <2> QED BY <1>1, <1>2, <2>1
<1>5. ChatTypes'
  BY <1>1, <1>3, <1>4 DEF ChatInv, ChatTypes, Check, talk, marks, history
<1>6. SecretsKept' /\ NothingMissed'
  BY <1>3, SilentKeeps DEF Check, talk, history
<1>7. CreatedOwn'
  BY <1>4, CreatedStays DEF ChatInv, CreatedOwn, Check, Idle
<1>8. MarksTrue'
  BY MarksStay DEF ChatInv, Check, marks
<1> QED BY <1>5, <1>6, <1>7, <1>8 DEF ChatInv

LEMMA CreateFailsKeeps ==
  ASSUME ChatInv, NEW p \in Messengers, CreateFails(p)
  PROVE  ChatInv'
<1>1. /\ wire' \in [Messengers -> Seq(Told)]
      /\ \A q \in Messengers : Coming(wire'[q]) = Coming(wire[q])
  BY RefuseFacts DEF ChatInv, CreateFails
<1>2. /\ checked' \in [Messengers -> Contents \cup {Nothing}]
      /\ \A q \in Messengers : checked'[q] # checked[q] => checked'[q] = Nothing
  BY DEF ChatInv, ChatTypes, CreateFails
<1>3. ChatTypes'
  BY <1>1, <1>2 DEF ChatInv, ChatTypes, CreateFails, talk, marks
<1>4. SecretsKept' /\ NothingMissed'
  BY <1>1, SilentKeeps DEF CreateFails, talk
<1>5. CreatedOwn'
  BY <1>2, CreatedStays DEF ChatInv, CreatedOwn, CreateFails
<1>6. MarksTrue'
  BY MarksStay DEF ChatInv, CreateFails, marks
<1> QED BY <1>3, <1>4, <1>5, <1>6 DEF ChatInv

LEMMA LoseConnectionKeeps ==
  ASSUME ChatInv, NEW p \in Messengers, LoseConnection(p)
  PROVE  ChatInv'
<1>1. inbox' \in [Messengers -> Seq(Contents \cup {JoinRoom})]
  <2>1. PICK k \in 0..Len(inbox[p]) : inbox' = [inbox EXCEPT ![p] = SubSeq(inbox[p], 1, k)]
    BY DEF LoseConnection
  <2>2. inbox[p] \in Seq(Contents \cup {JoinRoom}) /\ inbox \in [Messengers -> Seq(Contents \cup {JoinRoom})]
    BY DEF ChatInv, ChatTypes
  <2> DEFINE S == Contents \cup {JoinRoom}
             rest == SubSeq(inbox[p], 1, k)
  <2>3. inbox[p] \in Seq(S)
    BY <2>2
  <2> HIDE DEF S
  <2>4. rest \in Seq(S)
    BY <2>3
  <2> HIDE DEF rest
  <2>5. inbox' = [inbox EXCEPT ![p] = rest]
    BY <2>1 DEF rest
  <2>6. inbox \in [Messengers -> Seq(S)]
    BY <2>2 DEF S
  <2>7. inbox' \in [Messengers -> Seq(S)]
    BY <2>4, <2>5, <2>6
  <2> QED BY <2>7 DEF S
<1>2. /\ wire' \in [Messengers -> Seq(Told)]
      /\ \A q \in Messengers : wire'[q] = IF q = p THEN <<>> ELSE wire[q]
  BY DEF ChatInv, ChatTypes, LoseConnection
<1>3. /\ \A q \in Messengers : Coming(wire'[q]) \subseteq Coming(wire[q])
      /\ \A q \in whole' : Coming(wire'[q]) = Coming(wire[q])
      /\ whole' \subseteq whole
  BY <1>2, ComingEmpty DEF ChatInv, ChatTypes, LoseConnection
<1>4. ws' \in [Messengers -> {"new", "open", "joined", "closed", "dead"}]
  BY DEF ChatInv, ChatTypes, LoseConnection
<1>5. room' \subseteq Messengers /\ whole' \subseteq room'
  BY DEF ChatInv, ChatTypes, LoseConnection
<1>6. ChatTypes'
  BY <1>1, <1>2, <1>4, <1>5 DEF ChatInv, ChatTypes, LoseConnection, talk, marks
<1>7. SecretsKept' /\ NothingMissed'
  BY <1>3, SameMessages DEF LoseConnection, talk
<1>8. CreatedOwn'
  BY CreatedStays DEF ChatInv, CreatedOwn, LoseConnection
<1>9. MarksTrue'
  BY MarksStay DEF ChatInv, LoseConnection, marks
<1> QED BY <1>6, <1>7, <1>8, <1>9 DEF ChatInv

LEMMA TurnKeeps ==
  ASSUME ChatInv, NEW p \in Messengers, NEW tab \in Tabs \cup {"closed"}, Turn(p, tab)
  PROVE  ChatInv'
<1>1. shown[p] \in SUBSET Ids /\ posts' = posts
  BY DEF ChatInv, SecretsKept, Readable, Turn, server
<1>2. /\ seen' \in [Messengers -> [Tabs -> Nat]]
      /\ stored' \in [Users -> [Tabs -> Nat]]
      /\ onScreen' \in [Users -> SUBSET Nat]
      /\ MarksTrue'
  BY <1>1, LookMarks DEF ChatInv, Turn
<1>3. panel' \in [Messengers -> Tabs \cup {"closed"}]
  BY DEF ChatInv, ChatTypes, Turn
<1>4. ChatTypes'
  BY <1>2, <1>3 DEF ChatInv, ChatTypes, Turn, server, talk, history
<1>5. SecretsKept' /\ NothingMissed'
  BY SameMessages DEF Turn, server, talk, history
<1>6. CreatedOwn'
  BY CreatedStays DEF ChatInv, CreatedOwn, Turn, server
<1> QED BY <1>2, <1>4, <1>5, <1>6 DEF ChatInv

LEMMA ReloadKeeps ==
  ASSUME ChatInv, NEW p \in Messengers, Reload(p)
  PROVE  ChatInv'
<1>1. Ids' = Ids /\ \A q \in Messengers : Readable(q)' = Readable(q)
  BY SamePosts DEF Reload, server
<1>2. p \notin whole
  BY DEF ChatInv, ChatTypes, Reload
<1>3. seen' \in [Messengers -> [Tabs -> Nat]] /\ MarksTrue'
  <2>1. stored[UserOf[p]] \in [Tabs -> Nat]
    BY RoomChatAssumption DEF ChatInv, ChatTypes
  <2>2. seen' = [seen EXCEPT ![p] = stored[UserOf[p]]]
    BY DEF Reload, Baseline
  <2>3. seen' \in [Messengers -> [Tabs -> Nat]]
    BY <2>1, <2>2 DEF ChatInv, ChatTypes
  <2>4. \A q \in Messengers : seen'[q] = stored[UserOf[q]]
    BY <2>2 DEF ChatInv, ChatTypes, MarksTrue
  <2>5. UNCHANGED <<stored, onScreen, posts>>
    BY DEF Reload, server
  <2> QED BY <2>3, <2>4, <2>5 DEF ChatInv, MarksTrue, MarkOf, ReadIn, TabOf, Kind, Ids
<1>4. /\ answer' = [answer EXCEPT ![p] = {}] /\ realtime' = [realtime EXCEPT ![p] = {}]
      /\ shown' = [shown EXCEPT ![p] = {}] /\ boot' = [boot EXCEPT ![p] = "asked"]
  BY DEF Reload
<1>5. UNCHANGED <<posts, created, checked, channel, wire, lost, whole>>
  BY DEF Reload, server
<1>6. ChatTypes'
  BY <1>3 DEF ChatInv, ChatTypes, Reload, server
<1>7. SecretsKept'
  BY <1>1, <1>4, <1>5 DEF ChatInv, ChatTypes, SecretsKept
<1>8. NothingMissed'
  <2>1. ASSUME NEW q \in Messengers, boot'[q] = "done" PROVE realtime'[q] \subseteq shown'[q]
    BY <1>4, <2>1 DEF ChatInv, ChatTypes, NothingMissed
  <2>2. ASSUME NEW q \in whole'
        PROVE  boot'[q] \in {"read", "done"} /\ \A i \in Readable(q)' : Reaches(q, i)'
    <3>1. q # p /\ q \in whole /\ q \in Messengers
      BY <1>2, <1>5, <2>2 DEF ChatInv, ChatTypes
    <3>2. /\ boot'[q] = boot[q] /\ shown'[q] = shown[q]
          /\ answer'[q] = answer[q] /\ realtime'[q] = realtime[q]
      BY <1>4, <3>1 DEF ChatInv, ChatTypes
    <3>3. \A i \in Readable(q) : Reaches(q, i)
      BY <3>1 DEF ChatInv, NothingMissed
    <3> QED BY <1>1, <1>5, <3>1, <3>2, <3>3 DEF ChatInv, NothingMissed, Reaches, Has, Missed
  <2> QED BY <2>1, <2>2 DEF NothingMissed
<1>9. CreatedOwn'
  BY <1>5, CreatedStays DEF ChatInv, CreatedOwn
<1> QED BY <1>3, <1>6, <1>7, <1>8, <1>9 DEF ChatInv

\* The lists a page shows may become any messages it may read.
LEMMA ShowFacts ==
  ASSUME ChatInv, NEW p \in Messengers, NEW list \in SUBSET Readable(p), NEW state,
         Show(p, list, state), posts' = posts
  PROVE  /\ seen' \in [Messengers -> [Tabs -> Nat]]
         /\ stored' \in [Users -> [Tabs -> Nat]]
         /\ onScreen' \in [Users -> SUBSET Nat]
         /\ shown' \in [Messengers -> SUBSET Nat]
         /\ \A q \in Messengers : shown'[q] = IF q = p THEN list ELSE shown[q]
         /\ MarksTrue'
<1>1. list \in SUBSET Ids /\ list \in SUBSET Nat
  BY DEF Readable, Ids
<1>2. panel[p] \in Tabs \cup {"closed"} /\ Look(p, panel[p], list, state)
  BY DEF ChatInv, ChatTypes, Show
<1>3. /\ seen' \in [Messengers -> [Tabs -> Nat]]
      /\ stored' \in [Users -> [Tabs -> Nat]]
      /\ onScreen' \in [Users -> SUBSET Nat]
      /\ MarksTrue'
  BY <1>1, <1>2, LookMarks DEF ChatInv
<1>4. /\ shown' \in [Messengers -> SUBSET Nat]
      /\ \A q \in Messengers : shown'[q] = IF q = p THEN list ELSE shown[q]
  BY <1>1 DEF ChatInv, ChatTypes, Show
<1> QED BY <1>3, <1>4

\* A page that was there keeps what it has, or what comes to it, unless
\* something was done with the page itself.
LEMMA OthersReach ==
  ASSUME ChatInv, NEW p \in Messengers, NEW q \in Messengers, q # p, q \in whole,
         UNCHANGED <<posts, created, channel, lost>>,
         wire'[q] = wire[q], boot'[q] = boot[q], shown'[q] = shown[q],
         answer'[q] = answer[q], realtime'[q] = realtime[q]
  PROVE  /\ boot'[q] \in {"read", "done"}
         /\ \A i \in Readable(q)' : Reaches(q, i)'
<1>1. Readable(q)' = Readable(q)
  BY SamePosts
<1>2. /\ boot[q] \in {"read", "done"}
      /\ \A i \in Readable(q) : Reaches(q, i)
  BY DEF ChatInv, NothingMissed
<1> QED BY <1>1, <1>2 DEF Reaches, Has, Missed

LEMMA BootstrappedKeeps ==
  ASSUME ChatInv, NEW p \in Messengers, Bootstrapped(p)
  PROVE  ChatInv'
<1> DEFINE list == answer[p] \cup realtime[p]
<1>1. UNCHANGED <<posts, created, checked, channel, wire, realtime, lost, whole>>
  BY DEF Bootstrapped, server, history
<1>2. Ids' = Ids /\ \A q \in Messengers : Readable(q)' = Readable(q)
  BY <1>1, SamePosts
<1>3. list \in SUBSET Readable(p) /\ Show(p, list, "done")
  BY DEF ChatInv, SecretsKept, Bootstrapped
<1>4. /\ seen' \in [Messengers -> [Tabs -> Nat]]
      /\ stored' \in [Users -> [Tabs -> Nat]]
      /\ onScreen' \in [Users -> SUBSET Nat]
      /\ shown' \in [Messengers -> SUBSET Nat]
      /\ \A q \in Messengers : shown'[q] = IF q = p THEN list ELSE shown[q]
      /\ MarksTrue'
  BY <1>1, <1>3, ShowFacts
<1>5. /\ boot[p] = "read"
      /\ \A q \in Messengers : boot'[q] = IF q = p THEN "done" ELSE boot[q]
      /\ \A q \in Messengers : answer'[q] = IF q = p THEN {} ELSE answer[q]
      /\ boot' \in [Messengers -> {"asked", "read", "refused", "done", "failed"}]
      /\ answer' \in [Messengers -> SUBSET Nat]
  BY DEF ChatInv, ChatTypes, Bootstrapped
<1>6. ChatTypes'
  BY <1>4, <1>5 DEF ChatInv, ChatTypes, Bootstrapped, server, history
<1>7. SecretsKept'
  BY <1>1, <1>2, <1>3, <1>4, <1>5 DEF ChatInv, SecretsKept
<1>8. NothingMissed'
  <2>1. ASSUME NEW q \in Messengers, boot'[q] = "done" PROVE realtime'[q] \subseteq shown'[q]
    BY <1>1, <1>4, <1>5, <2>1 DEF ChatInv, NothingMissed
  <2>2. ASSUME NEW q \in whole'
        PROVE  boot'[q] \in {"read", "done"} /\ \A i \in Readable(q)' : Reaches(q, i)'
    <3>1. q \in whole /\ q \in Messengers
      BY <1>1, <2>2 DEF ChatInv, ChatTypes
    <3>2. CASE q = p
      <4>1. \A i \in Readable(p) : Reaches(p, i)
        BY <3>1, <3>2 DEF ChatInv, NothingMissed
      <4>2. Has(p) = list /\ Has(p)' = list
        BY <1>4, <1>5 DEF Has
      <4> HIDE DEF list
      <4> QED BY <1>1, <1>2, <1>5, <3>2, <4>1, <4>2 DEF Reaches, Missed
    <3>3. CASE q # p
      BY <1>1, <1>4, <1>5, <3>1, <3>3, OthersReach
    <3> QED BY <3>2, <3>3
  <2> QED BY <2>1, <2>2 DEF NothingMissed
<1>9. CreatedOwn'
  BY <1>1, CreatedStays DEF ChatInv, CreatedOwn
<1> QED BY <1>4, <1>6, <1>7, <1>8, <1>9 DEF ChatInv

LEMMA BootstrapFailedKeeps ==
  ASSUME ChatInv, NEW p \in Messengers, BootstrapFailed(p)
  PROVE  ChatInv'
<1>1. UNCHANGED <<posts, created, checked, channel, wire, realtime, answer, lost, whole>>
  BY DEF BootstrapFailed, server, history
<1>2. Ids' = Ids /\ \A q \in Messengers : Readable(q)' = Readable(q)
  BY <1>1, SamePosts
<1>3. {} \in SUBSET Readable(p) /\ Show(p, {}, "failed")
  BY DEF BootstrapFailed
<1>4. /\ seen' \in [Messengers -> [Tabs -> Nat]]
      /\ stored' \in [Users -> [Tabs -> Nat]]
      /\ onScreen' \in [Users -> SUBSET Nat]
      /\ shown' \in [Messengers -> SUBSET Nat]
      /\ \A q \in Messengers : shown'[q] = IF q = p THEN {} ELSE shown[q]
      /\ MarksTrue'
  BY <1>1, <1>3, ShowFacts
<1>5. /\ boot[p] = "refused"
      /\ \A q \in Messengers : boot'[q] = IF q = p THEN "failed" ELSE boot[q]
      /\ boot' \in [Messengers -> {"asked", "read", "refused", "done", "failed"}]
  BY DEF ChatInv, ChatTypes, BootstrapFailed
<1>6. ChatTypes'
  BY <1>4, <1>5 DEF ChatInv, ChatTypes, BootstrapFailed, server, history
<1>7. SecretsKept'
  BY <1>1, <1>2, <1>4 DEF ChatInv, SecretsKept
<1>8. NothingMissed'
  <2>1. ASSUME NEW q \in Messengers, boot'[q] = "done" PROVE realtime'[q] \subseteq shown'[q]
    BY <1>1, <1>4, <1>5, <2>1 DEF ChatInv, NothingMissed
  <2>2. ASSUME NEW q \in whole'
        PROVE  boot'[q] \in {"read", "done"} /\ \A i \in Readable(q)' : Reaches(q, i)'
    <3>1. q \in whole /\ q \in Messengers
      BY <1>1, <2>2 DEF ChatInv, ChatTypes
    <3>2. q # p
      BY <1>5, <3>1 DEF ChatInv, NothingMissed
    <3> QED BY <1>1, <1>4, <1>5, <3>1, <3>2, OthersReach
  <2> QED BY <2>1, <2>2 DEF NothingMissed
<1>9. CreatedOwn'
  BY <1>1, CreatedStays DEF ChatInv, CreatedOwn
<1> QED BY <1>4, <1>6, <1>7, <1>8, <1>9 DEF ChatInv

LEMMA ReadBootstrapKeeps ==
  ASSUME ChatInv, NEW p \in Messengers, ReadBootstrap(p)
  PROVE  ChatInv'
<1>1. UNCHANGED <<posts, created, checked, channel, wire, realtime, shown, lost, room>>
  BY DEF ReadBootstrap, server
<1>2. Ids' = Ids /\ \A q \in Messengers : Readable(q)' = Readable(q)
  BY <1>1, SamePosts
<1>3. /\ boot[p] = "asked" /\ boot'[p] # "done"
      /\ \A q \in Messengers : q # p => boot'[q] = boot[q] /\ answer'[q] = answer[q]
      /\ boot' \in [Messengers -> {"asked", "read", "refused", "done", "failed"}]
  BY DEF ChatInv, ChatTypes, ReadBootstrap
<1>4. \/ answer'[p] = Readable(p) /\ boot'[p] = "read" /\ whole' \subseteq whole \cup {p}
      \/ answer'[p] = answer[p] /\ whole' = whole
  BY DEF ChatInv, ChatTypes, ReadBootstrap
<1>5. p \notin whole
  BY <1>3 DEF ChatInv, NothingMissed
<1>6. whole' \subseteq room /\ whole' \subseteq whole \cup {p}
  BY DEF ChatInv, ChatTypes, ReadBootstrap
<1>7. answer' \in [Messengers -> SUBSET Nat]
  <2>1. Readable(p) \subseteq Nat
    BY DEF Readable, Ids
  <2> QED BY <2>1 DEF ChatInv, ChatTypes, ReadBootstrap
<1>8. ChatTypes'
  BY <1>3, <1>6, <1>7 DEF ChatInv, ChatTypes, ReadBootstrap, server, marks
<1>9. SecretsKept'
  BY <1>1, <1>2, <1>3, <1>4 DEF ChatInv, SecretsKept
<1>10. NothingMissed'
  <2>1. ASSUME NEW q \in Messengers, boot'[q] = "done" PROVE realtime'[q] \subseteq shown'[q]
    BY <1>1, <1>3, <2>1 DEF ChatInv, NothingMissed
  <2>2. ASSUME NEW q \in whole'
        PROVE  boot'[q] \in {"read", "done"} /\ \A i \in Readable(q)' : Reaches(q, i)'
    <3>1. q \in Messengers
      BY <1>6, <2>2 DEF ChatInv, ChatTypes
    <3>2. CASE q = p
      <4>1. answer'[p] = Readable(p) /\ boot'[p] = "read"
        BY <1>4, <1>5, <2>2, <3>2
      <4>2. Readable(p) \subseteq Has(p)'
        BY <4>1 DEF Has
      <4> QED BY <1>2, <3>1, <3>2, <4>1, <4>2 DEF Reaches
    <3>3. CASE q # p
      <4>1. q \in whole
        BY <1>6, <2>2, <3>3
      <4> QED BY <1>1, <1>3, <3>1, <3>3, <4>1, OthersReach
    <3> QED BY <3>2, <3>3
  <2> QED BY <2>1, <2>2 DEF NothingMissed
<1>11. CreatedOwn'
  BY <1>1, CreatedStays DEF ChatInv, CreatedOwn
<1>12. MarksTrue'
  BY MarksStay DEF ChatInv, ReadBootstrap, server, marks
<1> QED BY <1>8, <1>9, <1>10, <1>11, <1>12 DEF ChatInv

LEMMA HearKeeps ==
  ASSUME ChatInv, NEW p \in Messengers, Hear(p)
  PROVE  ChatInv'
<1> DEFINE type == Head(wire[p])[1]
           said == Head(wire[p])[2]
           rest == Tail(wire[p])
<1>1. UNCHANGED <<posts, created, checked, channel, boot, answer, room, inbox, lost, whole>>
  BY DEF Hear, server, history
<1>2. Ids' = Ids /\ \A q \in Messengers : Readable(q)' = Readable(q)
  BY <1>1, SamePosts
<1>3. /\ wire \in [Messengers -> Seq(Told)] /\ wire[p] \in Seq(Told) /\ wire[p] # <<>>
      /\ wire' = [wire EXCEPT ![p] = rest]
  BY DEF ChatInv, ChatTypes, Hear
<1>4. /\ rest \in Seq(Told)
      /\ Head(wire[p]) \in Told
      /\ Coming(rest) \subseteq Coming(wire[p])
      /\ type = "chat_message_created" =>
           said \in Coming(wire[p]) /\ Coming(wire[p]) \subseteq Coming(rest) \cup {said}
      /\ type # "chat_message_created" => Coming(wire[p]) \subseteq Coming(rest)
  BY <1>3, HearFacts
<1>5. \/ /\ type = "room_joined"
         /\ ws' = [ws EXCEPT ![p] = "joined"]
         /\ UNCHANGED <<realtime, shown, outgoing, panel, seen, stored, onScreen>>
      \/ /\ type = "chat_message_created"
         /\ realtime' = [realtime EXCEPT ![p] = realtime[p] \cup {said}]
         /\ IF said \in realtime[p] THEN UNCHANGED <<shown, outgoing, panel, seen, stored, onScreen>>
            ELSE Show(p, shown[p] \cup realtime'[p], boot[p])
         /\ UNCHANGED <<ws, error, panel>>
      \/ /\ type = "sync_error"
         /\ UNCHANGED <<ws, realtime, shown, panel, seen, stored, onScreen>>
  BY DEF Hear, marks
<1> HIDE DEF type, said, rest
<1>6. wire' \in [Messengers -> Seq(Told)]
  BY <1>3, <1>4
<1>7. \A q \in Messengers : wire'[q] = IF q = p THEN rest ELSE wire[q]
  BY <1>3
<1>8. CASE type # "chat_message_created"
  <2>1. /\ ws' \in [Messengers -> {"new", "open", "joined", "closed", "dead"}]
        /\ UNCHANGED <<realtime, shown, panel, seen, stored, onScreen>>
    BY <1>5, <1>8 DEF ChatInv, ChatTypes
  <2>2. \A q \in Messengers : Coming(wire'[q]) = Coming(wire[q])
    <3>1. Coming(rest) = Coming(wire[p])
      BY <1>4, <1>8
    <3> QED BY <1>7, <3>1
  <2>3. ChatTypes'
    BY <1>1, <1>6, <2>1 DEF ChatInv, ChatTypes
  <2>4. SecretsKept' /\ NothingMissed'
    BY <1>1, <2>1, <2>2, SilentKeeps
  <2>5. CreatedOwn'
    BY <1>1, CreatedStays DEF ChatInv, CreatedOwn
  <2>6. MarksTrue'
    BY <1>1, <2>1, MarksStay DEF ChatInv
  <2> QED BY <2>3, <2>4, <2>5, <2>6 DEF ChatInv
<1>9. CASE type = "chat_message_created"
  <2>1. said \in Readable(p) /\ said \in Ids /\ said \in Nat
    <3>1. said \in Coming(wire[p])
      BY <1>4, <1>9
    <3>2. said \in Readable(p)
      BY <3>1 DEF ChatInv, SecretsKept
    <3> QED BY <3>2 DEF Readable, Ids
  <2>2. /\ realtime' = [realtime EXCEPT ![p] = realtime[p] \cup {said}]
        /\ IF said \in realtime[p] THEN UNCHANGED <<shown, outgoing, panel, seen, stored, onScreen>>
           ELSE Show(p, shown[p] \cup realtime'[p], boot[p])
        /\ UNCHANGED <<ws, panel>>
    BY <1>5, <1>9
  <2>3. /\ realtime' \in [Messengers -> SUBSET Nat]
        /\ \A q \in Messengers : realtime'[q] = IF q = p THEN realtime[p] \cup {said} ELSE realtime[q]
    BY <2>1, <2>2 DEF ChatInv, ChatTypes
  <2>4. /\ seen' \in [Messengers -> [Tabs -> Nat]]
        /\ stored' \in [Users -> [Tabs -> Nat]]
        /\ onScreen' \in [Users -> SUBSET Nat]
        /\ shown' \in [Messengers -> SUBSET Nat]
        /\ MarksTrue'
        /\ \A q \in Messengers : q # p => shown'[q] = shown[q]
        /\ shown[p] \subseteq shown'[p] /\ shown'[p] \subseteq shown[p] \cup realtime'[p]
        /\ boot[p] = "done" => realtime'[p] \subseteq shown'[p]
    <3>1. CASE said \in realtime[p]
      <4>1. UNCHANGED <<shown, seen, stored, onScreen>>
        BY <2>2, <3>1
      <4>2. MarksTrue'
        BY <1>1, <4>1, MarksStay DEF ChatInv
      <4>3. realtime'[p] = realtime[p]
        BY <2>3, <3>1
      <4> QED BY <4>1, <4>2, <4>3 DEF ChatInv, ChatTypes, NothingMissed
    <3>2. CASE said \notin realtime[p]
      <4> DEFINE list == shown[p] \cup realtime'[p]
      <4>1. list \in SUBSET Readable(p)
        BY <2>1, <2>3 DEF ChatInv, SecretsKept
      <4>2. Show(p, list, boot[p])
        BY <2>2, <3>2
      <4> HIDE DEF list
      <4>3. /\ seen' \in [Messengers -> [Tabs -> Nat]]
            /\ stored' \in [Users -> [Tabs -> Nat]]
            /\ onScreen' \in [Users -> SUBSET Nat]
            /\ shown' \in [Messengers -> SUBSET Nat]
            /\ \A q \in Messengers : shown'[q] = IF q = p THEN list ELSE shown[q]
            /\ MarksTrue'
        BY <1>1, <4>1, <4>2, ShowFacts
      <4> QED BY <4>3 DEF list
    <3> QED BY <3>1, <3>2
  <2>5. ChatTypes'
    BY <1>1, <1>6, <2>2, <2>3, <2>4 DEF ChatInv, ChatTypes
  <2>6. SecretsKept'
    BY <1>1, <1>2, <1>4, <1>7, <2>1, <2>3, <2>4 DEF ChatInv, SecretsKept
  <2>7. CreatedOwn'
    BY <1>1, CreatedStays DEF ChatInv, CreatedOwn
  <2>8. ASSUME NEW q \in Messengers, boot'[q] = "done" PROVE realtime'[q] \subseteq shown'[q]
    BY <1>1, <2>3, <2>4, <2>8 DEF ChatInv, NothingMissed
  <2>9. ASSUME NEW q \in whole'
        PROVE  boot'[q] \in {"read", "done"} /\ \A i \in Readable(q)' : Reaches(q, i)'
    <3>1. q \in whole /\ q \in Messengers
      BY <1>1, <2>9 DEF ChatInv, ChatTypes
    <3>2. CASE q = p
      <4>1. boot[p] \in {"read", "done"} /\ \A i \in Readable(p) : Reaches(p, i)
        BY <3>1, <3>2 DEF ChatInv, NothingMissed
      <4>2. Has(p) \cup {said} \subseteq Has(p)'
        BY <1>1, <2>3, <2>4 DEF Has
      <4>3. Coming(wire[p]) \subseteq Coming(wire'[p]) \cup {said}
        BY <1>4, <1>7, <1>9
      <4> QED BY <1>1, <1>2, <3>2, <4>1, <4>2, <4>3 DEF Reaches, Missed
    <3>3. CASE q # p
      BY <1>1, <1>7, <2>3, <2>4, <3>1, <3>3, OthersReach
    <3> QED BY <3>2, <3>3
  <2>10. NothingMissed'
    BY <2>8, <2>9 DEF NothingMissed
  <2> QED BY <2>4, <2>5, <2>6, <2>7, <2>10 DEF ChatInv
<1> QED BY <1>8, <1>9

LEMMA CreateKeeps ==
  ASSUME ChatInv, NEW p \in Messengers, Create(p)
  PROVE  ChatInv'
<1> DEFINE new == Len(posts')
<1>1. UNCHANGED <<channel, wire, boot, answer, realtime, shown, room, inbox, ws,
                  panel, seen, stored, onScreen, lost, whole>>
  BY DEF Create, talk, marks, history
<1>2. Row(p) \in Post /\ Row(p).by = UserOf[p]
  BY RoomChatAssumption DEF ChatInv, ChatTypes, Create, Row, Post
<1>3. /\ posts' \in Seq(Post) /\ new = Len(posts) + 1 /\ Len(posts) \in Nat
      /\ Ids \subseteq Ids' /\ Ids' = Ids \cup {new} /\ new \notin Ids
      /\ \A i \in Ids : posts'[i] = posts[i]
      /\ posts'[new] = Row(p)
  BY <1>2, PostsGrow DEF ChatInv, ChatTypes, Create
<1>4. /\ created' = [created EXCEPT ![p] = new] /\ checked' = [checked EXCEPT ![p] = Nothing]
      /\ checked[p] # Nothing
  BY DEF Create
<1> HIDE DEF new
<1>5. \A i \in Ids : Kind(i)' = Kind(i) /\ TabOf(i)' = TabOf(i)
  BY <1>3 DEF Kind, TabOf
<1>6. \A q \in Messengers : Readable(q) \subseteq Readable(q)' /\ Readable(q)' \subseteq Readable(q) \cup {new}
  BY <1>3, <1>5 DEF Readable
<1>7. new \in Nat /\ new # 0
  BY <1>3
<1>8. /\ created' \in [Messengers -> Nat] /\ checked' \in [Messengers -> Contents \cup {Nothing}]
      /\ \A q \in Messengers : created'[q] = IF q = p THEN new ELSE created[q]
      /\ \A q \in Messengers : checked'[q] = IF q = p THEN Nothing ELSE checked[q]
  BY <1>4, <1>7 DEF ChatInv, ChatTypes
<1>9. ChatTypes'
  BY <1>1, <1>3, <1>8 DEF ChatInv, ChatTypes
<1>10. SecretsKept'
  BY <1>1, <1>3, <1>6 DEF ChatInv, SecretsKept
<1>11. CreatedOwn'
  BY <1>2, <1>3, <1>8 DEF ChatInv, CreatedOwn
<1>12. created[p] = 0
  BY <1>4 DEF ChatInv, CreatedOwn
<1>13. NothingMissed'
  <2>1. ASSUME NEW q \in Messengers, boot'[q] = "done" PROVE realtime'[q] \subseteq shown'[q]
    BY <1>1, <2>1 DEF ChatInv, NothingMissed
  <2>2. ASSUME NEW q \in whole', NEW i \in Readable(q)'
        PROVE  boot'[q] \in {"read", "done"} /\ Reaches(q, i)'
    <3>1. q \in whole /\ q \in Messengers
      BY <1>1, <2>2 DEF ChatInv, ChatTypes
    <3>2. boot[q] \in {"read", "done"} /\ boot' = boot
      BY <1>1, <3>1 DEF ChatInv, NothingMissed
    <3>3. CASE i = new
      BY <1>8, <3>2, <3>3 DEF Reaches
    <3>4. CASE i # new
      <4>1. i \in Readable(q) /\ i \in Ids
        BY <1>6, <2>2, <3>1, <3>4 DEF Readable
      <4>2. Reaches(q, i)
        BY <3>1, <4>1 DEF ChatInv, NothingMissed
      <4>3. i # 0
        BY <4>1 DEF Ids
      <4>4. (\E r \in Messengers : created[r] = i) => \E r \in Messengers : created'[r] = i
        BY <1>8, <1>12, <4>3
      <4>5. Missed(q, i) => Missed(q, i)'
        BY <1>1, <1>3, <4>1 DEF Missed
      <4>6. Has(q)' = Has(q)
        BY <1>1 DEF Has
      <4> QED BY <1>1, <3>2, <4>2, <4>4, <4>5, <4>6 DEF Reaches
    <3> QED BY <3>3, <3>4
  <2>3. \A q \in whole' : boot'[q] \in {"read", "done"}
    BY <1>1 DEF ChatInv, NothingMissed
  <2> QED BY <2>1, <2>2, <2>3 DEF NothingMissed
<1>14. MarksTrue'
  <2>1. \A u \in Users, t \in Tabs : ReadIn(u, t)' = ReadIn(u, t)
    <3>1. ASSUME NEW u \in Users, NEW t \in Tabs PROVE ReadIn(u, t)' = ReadIn(u, t)
      <4>1. onScreen'[u] = onScreen[u] /\ onScreen[u] \subseteq Ids
        BY <1>1 DEF ChatInv, MarksTrue
      <4> QED BY <1>3, <1>5, <4>1 DEF ReadIn
    <3> QED BY <3>1
  <2> QED BY <1>1, <1>3, <2>1 DEF ChatInv, MarksTrue, MarkOf
<1> QED BY <1>9, <1>10, <1>11, <1>13, <1>14 DEF ChatInv

\* What is sent to the pages of a node that may read it.
LEMMA ToAllFacts ==
  ASSUME ChatInv, NEW n \in Nodes, NEW i \in Ids, ToAll(Audience(n, i), i)
  PROVE  /\ wire' \in [Messengers -> Seq(Told)]
         /\ \A q \in Messengers :
              Coming(wire'[q]) = IF q \in Audience(n, i) THEN Coming(wire[q]) \cup {i}
                                 ELSE Coming(wire[q])
         /\ \A q \in Audience(n, i) : i \in Readable(q)
         /\ \A q \in whole : NodeOf[q] = n /\ i \in Readable(q) => q \in Audience(n, i)
<1> DEFINE S == Audience(n, i)
           m == <<"chat_message_created", i>>
<1>1. m \in Told /\ m[1] = "chat_message_created" /\ m[2] = i
  BY DEF Told, ToldOf, Ids
<1>2. wire' = [q \in Messengers |-> IF q \in S THEN Append(wire[q], m) ELSE wire[q]]
  BY DEF ToAll
<1>3. \A q \in S : i \in Readable(q)
  BY DEF Audience, Readable
<1>4. \A q \in whole : NodeOf[q] = n /\ i \in Readable(q) => q \in S
  BY DEF ChatInv, ChatTypes, Audience, Readable
<1>5. wire \in [Messengers -> Seq(Told)]
  BY DEF ChatInv, ChatTypes
<1> HIDE DEF S, m
<1>6. ASSUME NEW q \in Messengers
      PROVE  /\ Append(wire[q], m) \in Seq(Told)
             /\ Coming(Append(wire[q], m)) = Coming(wire[q]) \cup {i}
  <2>1. wire[q] \in Seq(Told)
    BY <1>5
  <2>2. Coming(Append(wire[q], m)) =
          Coming(wire[q]) \cup (IF m[1] = "chat_message_created" THEN {m[2]} ELSE {})
    BY <1>1, <2>1, TellFacts
  <2>3. Append(wire[q], m) \in Seq(Told)
    BY <1>1, <2>1, TellFacts
  <2> QED BY <1>1, <2>2, <2>3
<1>7. wire' \in [Messengers -> Seq(Told)]
  <2>1. \A q \in Messengers : (IF q \in S THEN Append(wire[q], m) ELSE wire[q]) \in Seq(Told)
    BY <1>5, <1>6
  <2> QED BY <1>2, <2>1
<1>8. \A q \in Messengers : Coming(wire'[q]) = IF q \in S THEN Coming(wire[q]) \cup {i}
                                               ELSE Coming(wire[q])
  BY <1>2, <1>6
<1> QED BY <1>3, <1>4, <1>7, <1>8 DEF S

LEMMA BroadcastKeeps ==
  ASSUME ChatInv, NEW p \in Messengers, Broadcast(p)
  PROVE  ChatInv'
<1> DEFINE i == created[p]
           here == NodeOf[p]
<1>1. UNCHANGED <<posts, checked, boot, answer, realtime, shown, room, inbox, ws,
                  panel, seen, stored, onScreen, whole>>
  BY DEF Broadcast, talk, marks
<1>2. Ids' = Ids /\ \A q \in Messengers : Readable(q)' = Readable(q)
  BY <1>1, SamePosts
<1>3. i \in Ids /\ posts[i].by = UserOf[p] /\ here \in Nodes /\ i \in Nat
  BY RoomChatAssumption DEF ChatInv, CreatedOwn, Broadcast, Ids
<1>4. /\ ToAll(Audience(here, i), i)
      /\ created' = [created EXCEPT ![p] = 0]
      /\ \/ /\ channel' = [n \in Nodes |-> IF n = here THEN channel[n] ELSE Append(channel[n], i)]
            /\ lost' = lost
         \/ lost' = lost \cup {i} /\ channel' = channel
  BY DEF Broadcast
<1> HIDE DEF i, here
<1>5. /\ wire' \in [Messengers -> Seq(Told)]
      /\ \A q \in Messengers :
           Coming(wire'[q]) = IF q \in Audience(here, i) THEN Coming(wire[q]) \cup {i}
                              ELSE Coming(wire[q])
      /\ \A q \in Audience(here, i) : i \in Readable(q)
      /\ \A q \in whole : NodeOf[q] = here /\ i \in Readable(q) => q \in Audience(here, i)
  BY <1>3, <1>4, ToAllFacts
<1>6. /\ channel' \in [Nodes -> Seq(Nat)]
      /\ \A n \in Nodes : /\ Events(channel[n]) \subseteq Events(channel'[n])
                          /\ Events(channel'[n]) \subseteq Events(channel[n]) \cup {i}
      /\ (\A n \in Nodes : n # here => i \in Events(channel'[n])) \/ i \in lost'
      /\ lost \subseteq lost'
  <2>1. channel \in [Nodes -> Seq(Nat)]
    BY DEF ChatInv, ChatTypes
  <2>2. \A n \in Nodes : /\ Append(channel[n], i) \in Seq(Nat)
                         /\ Events(Append(channel[n], i)) = Events(channel[n]) \cup {i}
    BY <1>3, <2>1, EventFacts
  <2>3. CASE lost' = lost \cup {i} /\ channel' = channel
    BY <2>1, <2>3
  <2>4. CASE /\ channel' = [n \in Nodes |-> IF n = here THEN channel[n] ELSE Append(channel[n], i)]
             /\ lost' = lost
    <3>1. channel' \in [Nodes -> Seq(Nat)]
      BY <2>1, <2>2, <2>4
    <3>2. \A n \in Nodes : channel'[n] = IF n = here THEN channel[n] ELSE Append(channel[n], i)
      BY <2>4
    <3> QED BY <2>2, <2>4, <3>1, <3>2
  <2> QED BY <1>4, <2>3, <2>4
<1>7. /\ created' \in [Messengers -> Nat]
      /\ \A q \in Messengers : created'[q] = IF q = p THEN 0 ELSE created[q]
  BY <1>4 DEF ChatInv, ChatTypes
<1>8. ChatTypes'
  <2>1. wire' \in [Messengers -> Seq(Told)]
    BY <1>5
  <2>2. channel' \in [Nodes -> Seq(Nat)]
    BY <1>6
  <2>3. created' \in [Messengers -> Nat]
    BY <1>7
  <2> QED BY <1>1, <2>1, <2>2, <2>3 DEF ChatInv, ChatTypes
<1>9. SecretsKept'
  <2>1. ASSUME NEW q \in Messengers PROVE Coming(wire'[q]) \subseteq Readable(q)
    <3>1. Coming(wire[q]) \subseteq Readable(q)
      BY DEF ChatInv, SecretsKept
    <3> QED BY <1>5, <3>1
  <2>2. ASSUME NEW k \in Nodes PROVE Events(channel'[k]) \subseteq Ids
    <3>1. Events(channel[k]) \subseteq Ids
      BY DEF ChatInv, SecretsKept
    <3> QED BY <1>3, <1>6, <3>1
  <2>3. \A q \in Messengers : answer'[q] \cup realtime'[q] \cup shown'[q] \subseteq Readable(q)
    BY <1>1 DEF ChatInv, SecretsKept
  <2> QED BY <1>2, <2>1, <2>2, <2>3 DEF SecretsKept
<1>10. CreatedOwn'
  BY <1>1, <1>2, <1>7 DEF ChatInv, CreatedOwn
<1>11. MarksTrue'
  BY <1>1, MarksStay DEF ChatInv
<1>12. ASSUME NEW q \in whole', NEW j \in Readable(q)'
       PROVE  boot'[q] \in {"read", "done"} /\ Reaches(q, j)'
  <2>1. q \in whole /\ q \in Messengers /\ j \in Readable(q) /\ NodeOf[q] \in Nodes
    BY <1>1, <1>2, <1>12, RoomChatAssumption DEF ChatInv, ChatTypes
  <2>2. boot[q] \in {"read", "done"} /\ Reaches(q, j)
    BY <2>1 DEF ChatInv, NothingMissed
  <2>3. CASE j = i
    <3>1. CASE NodeOf[q] = here
      BY <1>1, <1>5, <2>1, <2>2, <2>3, <3>1 DEF Reaches
    <3>2. CASE NodeOf[q] # here
      <4>1. CASE i \in lost'
        <5>1. Missed(q, j)'
          BY <1>1, <1>3, <2>3, <3>2, <4>1 DEF Missed, here
        <5> QED BY <1>1, <2>2, <5>1 DEF Reaches
      <4>2. CASE i \in Events(channel'[NodeOf[q]])
        BY <1>1, <2>2, <2>3, <4>2 DEF Reaches
      <4> QED BY <1>6, <2>1, <3>2, <4>1, <4>2
    <3> QED BY <3>1, <3>2
  <2>4. CASE j # i
    <3>1. (\E r \in Messengers : created[r] = j) => \E r \in Messengers : created'[r] = j
      BY <1>7, <2>4 DEF i
    <3>2. Coming(wire[q]) \subseteq Coming(wire'[q]) /\ Events(channel[NodeOf[q]]) \subseteq Events(channel'[NodeOf[q]])
      BY <1>5, <1>6, <2>1
    <3>3. Missed(q, j) => Missed(q, j)'
      BY <1>1, <1>6 DEF Missed
    <3>4. Has(q)' = Has(q)
      BY <1>1 DEF Has
    <3> QED BY <1>1, <2>2, <3>1, <3>2, <3>3, <3>4 DEF Reaches
  <2> QED BY <2>3, <2>4
<1>13. NothingMissed'
  <2>1. \A q \in Messengers : boot'[q] = "done" => realtime'[q] \subseteq shown'[q]
    BY <1>1 DEF ChatInv, NothingMissed
  <2>2. \A q \in whole' : boot'[q] \in {"read", "done"}
    BY <1>1 DEF ChatInv, NothingMissed
  <2> QED BY <1>12, <2>1, <2>2 DEF NothingMissed
<1> QED BY <1>8, <1>9, <1>10, <1>11, <1>13 DEF ChatInv

LEMMA RelayKeeps ==
  ASSUME ChatInv, NEW n \in Nodes, Relay(n)
  PROVE  ChatInv'
<1> DEFINE i == Head(channel[n])
           rest == Tail(channel[n])
<1>1. UNCHANGED <<posts, checked, created, boot, answer, realtime, shown, room, inbox, ws,
                  panel, seen, stored, onScreen, lost, whole>>
  BY DEF Relay, talk, marks, history
<1>2. Ids' = Ids /\ \A q \in Messengers : Readable(q)' = Readable(q)
  BY <1>1, SamePosts
<1>3. channel \in [Nodes -> Seq(Nat)] /\ channel[n] \in Seq(Nat) /\ channel[n] # <<>>
  BY DEF ChatInv, ChatTypes, Relay
<1>4. /\ rest \in Seq(Nat) /\ i \in Events(channel[n])
      /\ Events(rest) \subseteq Events(channel[n])
      /\ Events(channel[n]) \subseteq Events(rest) \cup {i}
  BY <1>3, EventFacts
<1>5. channel' = [channel EXCEPT ![n] = rest] /\ ToAll(Audience(n, i), i)
  BY DEF Relay
<1> HIDE DEF i, rest
<1>6. i \in Ids
  BY <1>4 DEF ChatInv, SecretsKept
<1>7. /\ wire' \in [Messengers -> Seq(Told)]
      /\ \A q \in Messengers :
           Coming(wire'[q]) = IF q \in Audience(n, i) THEN Coming(wire[q]) \cup {i}
                              ELSE Coming(wire[q])
      /\ \A q \in Audience(n, i) : i \in Readable(q)
      /\ \A q \in whole : NodeOf[q] = n /\ i \in Readable(q) => q \in Audience(n, i)
  BY <1>5, <1>6, ToAllFacts
<1>8. /\ channel' \in [Nodes -> Seq(Nat)]
      /\ \A k \in Nodes : channel'[k] = IF k = n THEN rest ELSE channel[k]
  BY <1>3, <1>4, <1>5
<1>9. ChatTypes'
  <2>1. wire' \in [Messengers -> Seq(Told)]
    BY <1>7
  <2>2. channel' \in [Nodes -> Seq(Nat)]
    BY <1>8
  <2> QED BY <1>1, <2>1, <2>2 DEF ChatInv, ChatTypes
<1>10. SecretsKept'
  <2>1. ASSUME NEW q \in Messengers PROVE Coming(wire'[q]) \subseteq Readable(q)
    <3>1. Coming(wire[q]) \subseteq Readable(q)
      BY DEF ChatInv, SecretsKept
    <3> QED BY <1>7, <3>1
  <2>2. ASSUME NEW k \in Nodes PROVE Events(channel'[k]) \subseteq Ids
    <3>1. Events(channel[k]) \subseteq Ids
      BY DEF ChatInv, SecretsKept
    <3> QED BY <1>4, <1>8, <3>1
  <2>3. \A q \in Messengers : answer'[q] \cup realtime'[q] \cup shown'[q] \subseteq Readable(q)
    BY <1>1 DEF ChatInv, SecretsKept
  <2> QED BY <1>2, <2>1, <2>2, <2>3 DEF SecretsKept
<1>11. CreatedOwn'
  BY <1>1, CreatedStays DEF ChatInv, CreatedOwn
<1>12. MarksTrue'
  BY <1>1, MarksStay DEF ChatInv
<1>13. ASSUME NEW q \in whole', NEW j \in Readable(q)'
       PROVE  boot'[q] \in {"read", "done"} /\ Reaches(q, j)'
  <2>1. q \in whole /\ q \in Messengers /\ j \in Readable(q) /\ NodeOf[q] \in Nodes
    BY <1>1, <1>2, <1>13, RoomChatAssumption DEF ChatInv, ChatTypes
  <2>2. boot[q] \in {"read", "done"} /\ Reaches(q, j)
    BY <2>1 DEF ChatInv, NothingMissed
  <2>3. j \in Events(channel[NodeOf[q]]) => j \in Events(channel'[NodeOf[q]]) \/ j \in Coming(wire'[q])
    <3>1. CASE NodeOf[q] # n
      BY <1>8, <2>1, <3>1
    <3>2. CASE NodeOf[q] = n /\ j # i
      BY <1>4, <1>8, <2>1, <3>2
    <3>3. CASE NodeOf[q] = n /\ j = i
      BY <1>7, <2>1, <3>3
    <3> QED BY <3>1, <3>2, <3>3
  <2>4. Coming(wire[q]) \subseteq Coming(wire'[q])
    BY <1>7, <2>1
  <2>5. Has(q)' = Has(q) /\ (Missed(q, j) => Missed(q, j)')
    BY <1>1 DEF Has, Missed
  <2> QED BY <1>1, <2>2, <2>3, <2>4, <2>5 DEF Reaches
<1>14. NothingMissed'
  <2>1. \A q \in Messengers : boot'[q] = "done" => realtime'[q] \subseteq shown'[q]
    BY <1>1 DEF ChatInv, NothingMissed
  <2>2. \A q \in whole' : boot'[q] \in {"read", "done"}
    BY <1>1 DEF ChatInv, NothingMissed
  <2> QED BY <1>13, <2>1, <2>2 DEF NothingMissed
<1> QED BY <1>9, <1>10, <1>11, <1>12, <1>14 DEF ChatInv

LEMMA ChatStarts == ChatInit => ChatInv
<1> SUFFICES ASSUME ChatInit PROVE ChatInv
  OBVIOUS
<1>1. Ids = {} /\ posts \in Seq(Post)
  BY DEF ChatInit, Ids
<1>2. ChatTypes
  <2>1. /\ wire \in [Messengers -> Seq(Told)] /\ channel \in [Nodes -> Seq(Nat)]
        /\ inbox \in [Messengers -> Seq(Contents \cup {JoinRoom})]
    BY DEF ChatInit, Fresh
  <2>2. /\ seen \in [Messengers -> [Tabs -> Nat]]
        /\ stored \in [Users -> [Tabs -> Nat]]
        /\ onScreen \in [Users -> SUBSET Nat]
    BY DEF ChatInit, Fresh
  <2>3. /\ answer \in [Messengers -> SUBSET Nat] /\ realtime \in [Messengers -> SUBSET Nat]
        /\ shown \in [Messengers -> SUBSET Nat] /\ created \in [Messengers -> Nat]
        /\ checked \in [Messengers -> Contents \cup {Nothing}]
        /\ panel \in [Messengers -> Tabs \cup {"closed"}]
    BY DEF ChatInit, Fresh
  <2>4. /\ ws \in [Messengers -> {"new", "open", "joined", "closed", "dead"}]
        /\ boot \in [Messengers -> {"asked", "read", "refused", "done", "failed"}]
        /\ room \subseteq Messengers /\ whole \subseteq room
    BY RoomChatAssumption DEF ChatInit, Settling
  <2> QED BY <1>1, <2>1, <2>2, <2>3, <2>4 DEF ChatTypes
<1>3. SecretsKept /\ CreatedOwn
  BY ComingEmpty DEF ChatInit, Fresh, SecretsKept, CreatedOwn
<1>4. NothingMissed
  <2>1. \A p : Readable(p) = {}
    BY <1>1 DEF Readable
  <2> QED BY <2>1, RoomChatAssumption DEF ChatInit, Fresh, Settling, NothingMissed
<1>5. MarksTrue
  <2>1. \A u \in Users, t \in Tabs : ReadIn(u, t) = {} /\ stored[u][t] = 0
    BY DEF ChatInit, ReadIn
  <2>2. \A p \in Messengers : seen[p] = stored[UserOf[p]]
    BY RoomChatAssumption DEF ChatInit, Fresh
  <2>3. \A u \in Users : onScreen[u] \subseteq Ids
    BY DEF ChatInit
  <2> QED BY <2>1, <2>2, <2>3 DEF MarksTrue, MarkOf
<1> QED BY <1>2, <1>3, <1>4, <1>5 DEF ChatInv

LEMMA ChatSteps == ChatInv /\ [ChatNext]_chatVars => ChatInv'
<1> SUFFICES ASSUME ChatInv, [ChatNext]_chatVars PROVE ChatInv'
  OBVIOUS
<1>1. CASE UNCHANGED chatVars
  <2>1. ChatTypes'
    BY <1>1 DEF ChatInv, ChatTypes, chatVars, server, talk, marks, history
  <2>2. SecretsKept' /\ NothingMissed'
    BY <1>1, SilentKeeps DEF chatVars, server, talk, history
  <2>3. CreatedOwn'
    BY <1>1, CreatedStays DEF ChatInv, CreatedOwn, chatVars, server
  <2>4. MarksTrue'
    BY <1>1, MarksStay DEF ChatInv, chatVars, server, marks
  <2> QED BY <2>1, <2>2, <2>3, <2>4 DEF ChatInv
<1>2. ASSUME NEW p \in Messengers,
             \/ Connect(p) \/ Hear(p) \/ ClearError(p)
             \/ Bootstrapped(p) \/ BootstrapFailed(p) \/ LoseConnection(p) \/ Reload(p)
             \/ ReadBootstrap(p) \/ Join(p) \/ Check(p)
             \/ Create(p) \/ CreateFails(p) \/ Broadcast(p)
      PROVE  ChatInv'
  BY <1>2, ConnectKeeps, HearKeeps, ClearErrorKeeps, BootstrappedKeeps, BootstrapFailedKeeps,
     LoseConnectionKeeps, ReloadKeeps, ReadBootstrapKeeps, JoinKeeps, CheckKeeps, CreateKeeps,
     CreateFailsKeeps, BroadcastKeeps
<1>3. ASSUME NEW p \in Messengers, NEW what \in Contents, Write(p, what)
      PROVE  ChatInv'
  BY <1>3, WriteKeeps
<1>4. ASSUME NEW p \in Messengers, NEW tab \in Opened \cup {"closed"}, Turn(p, tab)
      PROVE  ChatInv'
  <2>1. tab \in Tabs \cup {"closed"}
    BY RoomChatAssumption DEF Tabs
  <2> QED BY <1>4, <2>1, TurnKeeps
<1>5. ASSUME NEW n \in Nodes, Relay(n) PROVE ChatInv'
  BY <1>5, RelayKeeps
<1>6. ASSUME DeleteShape \/ \E u \in Users : Revoke(u) PROVE ChatInv'
  BY <1>6, AccessKeeps
<1>7. CASE ChatNext
  BY <1>2, <1>3, <1>4, <1>5, <1>6, <1>7 DEF ChatNext
<1> QED BY <1>1, <1>7

\* What is shown, answered or heard, and what is on its way, is readable; what
\* was missed is on its way; the marks are the highest messages read.
THEOREM ChatHolds == ChatSpec => []ChatInv
<1>1. ChatInit => ChatInv
  BY ChatStarts
<1>2. ChatInv /\ [ChatNext]_chatVars => ChatInv'
  BY ChatSteps
<1> QED BY <1>1, <1>2, PTL DEF ChatSpec

\* A direct message reaches no page but those of its author and its recipient:
\* neither the broadcast of send_chat_message, nor subscribeChatEvents, nor
\* getRoomChatBootstrap gives it to another, in whichever order they come.
THEOREM SecretsAreKept == ChatSpec => []PrivateStaysPrivate
<1>1. ChatInv => PrivateStaysPrivate
  BY DEF ChatInv, SecretsKept, PrivateStaysPrivate, Readable
<1> QED BY <1>1, ChatHolds, PTL

\* A page that was there all the time shows every message it may read once
\* nothing is under way, except one whose publish failed on another node.
THEOREM PagesCatchUp == ChatSpec => []CaughtUp
<1>1. ChatInv => CaughtUp
  <2> SUFFICES ASSUME ChatInv, NEW p \in whole, Quiet(p), boot[p] = "done", NEW i \in Ids,
                      i \notin shown[p],
                      ~(Kind(i) = "direct" /\ UserOf[p] \notin {posts[i].by, posts[i].what.to})
               PROVE  /\ i \in lost
                      /\ \E q \in Messengers : UserOf[q] = posts[i].by /\ NodeOf[q] # NodeOf[p]
    BY DEF CaughtUp
  <2>1. i \in Readable(p)
    BY DEF Readable
  <2>2. Reaches(p, i)
    BY <2>1 DEF ChatInv, NothingMissed
  <2>3. i \notin Has(p)
    BY DEF Has
  <2>4. Coming(wire[p]) = {} /\ Events(channel[NodeOf[p]]) = {}
    BY ComingEmpty DEF Quiet
  <2>5. ~ \E q \in Messengers : created[q] = i
    BY DEF Quiet, Ids
  <2> QED BY <2>2, <2>3, <2>4, <2>5 DEF Reaches, Missed
<1> QED BY <1>1, ChatHolds, PTL

\* The badges of CanvasMessenger.tsx count what was not read, over reloads and
\* tabs: all that is above the highest message the user has had on screen.
THEOREM BadgesAreExact == ChatSpec => []UnreadIsExact
<1>1. ASSUME ChatInv, NEW p \in Messengers, NEW t \in Tabs
      PROVE  Unread(p, t) =
               {i \in shown[p] : /\ TabOf(i) = t /\ posts[i].by # UserOf[p]
                                 /\ i \notin ReadIn(UserOf[p], t)
                                 /\ \A j \in ReadIn(UserOf[p], t) : j < i}
  <2> DEFINE m == seen[p][t]
             read == ReadIn(UserOf[p], t)
  <2>1. UserOf[p] \in Users /\ m = stored[UserOf[p]][t]
    BY <1>1, RoomChatAssumption DEF ChatInv, MarksTrue
  <2>2. m \in read \cup {0} /\ \A j \in read : j <= m
    BY <1>1, <2>1 DEF ChatInv, MarksTrue, MarkOf
  <2>3. read \subseteq Nat /\ m \in Nat /\ \A i \in shown[p] : i \in Nat /\ i > 0
    <3>1. onScreen[UserOf[p]] \subseteq Nat
      BY <1>1, <2>1 DEF ChatInv, ChatTypes
    <3>2. m \in Nat
      BY <1>1, <2>1 DEF ChatInv, ChatTypes
    <3>3. shown[p] \subseteq Ids
      BY <1>1 DEF ChatInv, SecretsKept, Readable
    <3> QED BY <3>1, <3>2, <3>3 DEF ReadIn, Ids
  <2> HIDE DEF m, read
  <2>4. ASSUME NEW i \in shown[p]
        PROVE  i > m <=> i \notin read /\ \A j \in read : j < i
    <3>1. ASSUME i > m PROVE i \notin read /\ \A j \in read : j < i
      <4>1. i \in Nat
        BY <2>3
      <4>2. \A j \in read : j \in Nat /\ j <= m
        BY <2>2, <2>3
      <4> QED BY <2>3, <3>1, <4>1, <4>2
    <3>2. ASSUME i \notin read, \A j \in read : j < i PROVE i > m
      BY <2>2, <2>3, <3>2
    <3> QED BY <3>1, <3>2
  <2> QED BY <2>4 DEF Unread, m, read
<1>2. ChatInv => UnreadIsExact
  BY <1>1 DEF UnreadIsExact, ReadIn
<1> QED BY <1>2, ChatHolds, PTL

-----------------------------------------------------------------------------
(***************************************************************************)
(* The pages that open a slug, for any pages and slugs.  The shapes are    *)
(* left open: the types say only that they are in some set.                *)
(***************************************************************************)

PageOver(R) ==
  [stage : {"away", "lookup", "create", "again", "resolve", "reading", "open", "failed", "denied"},
   slug : Slugs \cup {"none"}, handle : BOOLEAN, room : Nat,
   cursor : R, got : R, loaded : R, shows : R]
RoomOver(R) == [slug : Slugs \cup {"none"}, rows : R]

TypedOver(R) == rooms \in Seq(RoomOver(R)) /\ visit \in [Visits -> PageOver(R)]
OpenTypes == breaks \in Nat /\ renames \in Nat /\ \E R : TypedOver(R)

\* The owner has at most one room of a slug: (adminId, slug) is unique.
SlugsUnique ==
  \A i, j \in DOMAIN rooms : rooms[i].slug = rooms[j].slug => i = j

\* Where a page is in the opening, its room is there.
Placed(t) ==
  /\ visit[t].stage \in {"reading", "open"} =>
       visit[t].room \in DOMAIN rooms /\ rooms[visit[t].room].slug = visit[t].slug
  /\ visit[t].stage \in {"again", "resolve"} => Named(visit[t].slug) # {}
  /\ visit[t].stage \notin {"failed", "denied"}

Undisturbed == breaks = 0 /\ renames = 0
OpenInv == OpenTypes /\ (Undisturbed => SlugsUnique /\ \A t \in Visits : Placed(t))

RoomsStay ==
  /\ DOMAIN rooms \subseteq DOMAIN rooms'
  /\ \A i \in DOMAIN rooms : rooms'[i].slug = rooms[i].slug

LEMMA WiderTypes ==
  ASSUME NEW R, NEW X, R \subseteq X
  PROVE  /\ PageOver(R) \subseteq PageOver(X)
         /\ RoomOver(R) \subseteq RoomOver(X)
         /\ TypedOver(R) => TypedOver(X)
<1>1. PageOver(R) \subseteq PageOver(X)
  BY DEF PageOver
<1>2. RoomOver(R) \subseteq RoomOver(X)
  BY DEF RoomOver
<1>3. ASSUME TypedOver(R) PROVE TypedOver(X)
  <2> DEFINE A == RoomOver(R)
             B == RoomOver(X)
  <2>1. A \subseteq B /\ rooms \in Seq(A)
    BY <1>2, <1>3 DEF TypedOver
  <2> HIDE DEF A, B
  <2>2. rooms \in Seq(B)
    BY <2>1
  <2>3. visit \in [Visits -> PageOver(X)]
    BY <1>1, <1>3 DEF TypedOver
  <2> QED BY <2>2, <2>3 DEF TypedOver, B
<1> QED BY <1>1, <1>2, <1>3

LEMMA MovesFacts ==
  ASSUME NEW R, visit \in [Visits -> PageOver(R)], NEW t \in Visits,
         NEW after \in PageOver(R), Moves(t, after)
  PROVE  /\ visit' \in [Visits -> PageOver(R)]
         /\ visit'[t] = after
         /\ \A u \in Visits : u # t => visit'[u] = visit[u]
  BY DEF Moves

LEMMA StepsFacts ==
  ASSUME NEW R, visit \in [Visits -> PageOver(R)], NEW t \in Visits,
         NEW stage \in {"away", "lookup", "create", "again", "resolve", "reading", "open",
                        "failed", "denied"},
         Steps(t, stage)
  PROVE  /\ visit' \in [Visits -> PageOver(R)]
         /\ visit'[t].stage = stage /\ visit'[t].slug = visit[t].slug
         /\ \A u \in Visits : u # t => visit'[u] = visit[u]
<1> DEFINE after == [visit[t] EXCEPT !.stage = stage]
<1>1. after \in PageOver(R) /\ after.stage = stage /\ after.slug = visit[t].slug
  BY DEF PageOver
<1>2. Moves(t, after)
  BY DEF Steps
<1> HIDE DEF after
<1> QED BY <1>1, <1>2, MovesFacts

\* A page that comes to a room of its slug.
LEMMA ReadsFacts ==
  ASSUME NEW R, visit \in [Visits -> PageOver(R)], NEW t \in Visits, NEW id \in Nat,
         Reads(t, id)
  PROVE  /\ visit' \in [Visits -> PageOver(R)]
         /\ visit'[t].stage = "reading" /\ visit'[t].slug = visit[t].slug /\ visit'[t].room = id
         /\ \A u \in Visits : u # t => visit'[u] = visit[u]
<1> DEFINE after == [visit[t] EXCEPT !.stage = "reading", !.room = id]
<1>1. after \in PageOver(R) /\ after.stage = "reading" /\ after.slug = visit[t].slug /\ after.room = id
  BY DEF PageOver
<1>2. Moves(t, after)
  BY DEF Reads
<1> HIDE DEF after
<1> QED BY <1>1, <1>2, MovesFacts

LEMMA HydratesFacts ==
  ASSUME NEW R, visit \in [Visits -> PageOver(R)], NEW t \in Visits, NEW got, Hydrates(t, got)
  PROVE  \E X : /\ R \subseteq X
                /\ visit' \in [Visits -> PageOver(X)]
                /\ visit'[t].stage = "open" /\ visit'[t].slug = visit[t].slug
                /\ visit'[t].room = visit[t].room
                /\ \A u \in Visits : u # t => visit'[u] = visit[u]
<1> DEFINE new == Unrepeated(got)
           X == R \cup {0, <<>>, new}
           after == [visit[t] EXCEPT !.stage = "open", !.cursor = 0, !.got = <<>>,
                      !.loaded = new, !.shows = new]
<1>1. visit[t] \in PageOver(R)
  OBVIOUS
<1>2. Moves(t, after)
  BY DEF Hydrates
<1> HIDE DEF new
<1>3. after \in PageOver(X) /\ after.stage = "open" /\ after.slug = visit[t].slug
      /\ after.room = visit[t].room
  <2> DEFINE p == visit[t]
  <2>1. /\ p.slug \in Slugs \cup {"none"} /\ p.handle \in BOOLEAN /\ p.room \in Nat
        /\ p = [stage |-> p.stage, slug |-> p.slug, handle |-> p.handle, room |-> p.room,
                cursor |-> p.cursor, got |-> p.got, loaded |-> p.loaded, shows |-> p.shows]
    <3> HIDE DEF p
    <3>1. p \in PageOver(R)
      BY <1>1 DEF p
    <3> QED BY <3>1 DEF PageOver
  <2>2. after = [p EXCEPT !.stage = "open", !.cursor = 0, !.got = <<>>,
                  !.loaded = new, !.shows = new]
    BY DEF after, p
  <2> HIDE DEF p, after
  <2>3. after = [stage |-> "open", slug |-> p.slug, handle |-> p.handle, room |-> p.room,
                cursor |-> 0, got |-> <<>>, loaded |-> new, shows |-> new]
    BY <2>1, <2>2
  <2>4. /\ 0 \in X /\ <<>> \in X /\ new \in X
    BY DEF X
  <2> HIDE DEF X
  <2>5. after \in PageOver(X)
    BY <2>1, <2>3, <2>4 DEF PageOver
  <2>6. after.stage = "open" /\ after.slug = p.slug /\ after.room = p.room
    BY <2>3
  <2> QED BY <2>5, <2>6 DEF p
<1>4. R \subseteq X
  OBVIOUS
<1> HIDE DEF X, after
<1>5. visit \in [Visits -> PageOver(X)]
  BY <1>4, WiderTypes
<1>6. /\ visit' \in [Visits -> PageOver(X)] /\ visit'[t] = after
      /\ \A u \in Visits : u # t => visit'[u] = visit[u]
  BY <1>2, <1>3, <1>5, MovesFacts
<1> QED BY <1>3, <1>4, <1>6

LEMMA OthersStay ==
  ASSUME RoomsStay, NEW u \in Visits, visit'[u] = visit[u], Placed(u)
  PROVE  Placed(u)'
  BY DEF RoomsStay, Placed, Named

\* What is to be shown of a step of page t.
LEMMA StepOfPage ==
  ASSUME OpenInv, NEW t \in Visits, NEW X,
         rooms' \in Seq(RoomOver(X)), visit' \in [Visits -> PageOver(X)],
         breaks' \in Nat, renames' \in Nat, breaks' >= breaks, renames' >= renames,
         RoomsStay, \A u \in Visits : u # t => visit'[u] = visit[u],
         Undisturbed /\ Undisturbed' => SlugsUnique' /\ Placed(t)'
  PROVE  OpenInv'
<1>1. OpenTypes'
  BY DEF OpenTypes, TypedOver
<1>2. Undisturbed' => Undisturbed
  BY DEF OpenInv, OpenTypes, Undisturbed
<1>3. ASSUME Undisturbed' PROVE SlugsUnique' /\ \A u \in Visits : Placed(u)'
  BY <1>2, <1>3, OthersStay DEF OpenInv
<1> QED BY <1>1, <1>3 DEF OpenInv

LEMMA RoomsSame ==
  ASSUME rooms' = rooms
  PROVE  RoomsStay /\ (SlugsUnique => SlugsUnique') /\ \A s : Named(s)' = Named(s)
  BY DEF RoomsStay, SlugsUnique, Named

\* A step of page t to a page over a wider set, the rooms as they are.
LEMMA MoveStep ==
  ASSUME OpenInv, NEW R, TypedOver(R), NEW X, R \subseteq X,
         NEW t \in Visits, visit' \in [Visits -> PageOver(X)],
         \A u \in Visits : u # t => visit'[u] = visit[u],
         rooms' = rooms, renames' = renames, breaks' \in Nat, breaks' >= breaks,
         SlugsUnique /\ Placed(t) /\ Undisturbed /\ Undisturbed' => Placed(t)'
  PROVE  OpenInv'
<1>1. rooms' \in Seq(RoomOver(X))
  <2>1. rooms \in Seq(RoomOver(X))
    BY WiderTypes DEF TypedOver
  <2> QED BY <2>1
<1>2. renames' \in Nat /\ renames' >= renames
  BY DEF OpenInv, OpenTypes
<1>3. ASSUME Undisturbed, Undisturbed' PROVE SlugsUnique' /\ Placed(t)'
  <2>1. SlugsUnique /\ Placed(t)
    BY <1>3 DEF OpenInv
  <2>2. SlugsUnique'
    BY <2>1, RoomsSame
  <2> QED BY <1>3, <2>1, <2>2
<1>4. RoomsStay
  BY RoomsSame
<1> QED BY <1>1, <1>2, <1>3, <1>4, StepOfPage

LEMMA BareStep ==
  ASSUME OpenInv, NEW t \in Visits, NEW after \in PageOver({0, <<>>}),
         after.stage \in {"away", "lookup"}, Moves(t, after),
         rooms' = rooms, renames' = renames, breaks' = breaks
  PROVE  OpenInv'
<1>1. PICK R : TypedOver(R)
  BY DEF OpenInv, OpenTypes
<1> DEFINE B == {0, <<>>}
           X == R \cup B
<1>2. R \subseteq X /\ B \subseteq X
  OBVIOUS
<1>3. after \in PageOver(B)
  OBVIOUS
<1> HIDE DEF X, B
<1>4. after \in PageOver(X)
  BY <1>2, <1>3, WiderTypes
<1>5. visit \in [Visits -> PageOver(X)]
  BY <1>1, <1>2, WiderTypes DEF TypedOver
<1>6. /\ visit' \in [Visits -> PageOver(X)] /\ visit'[t] = after
      /\ \A u \in Visits : u # t => visit'[u] = visit[u]
  BY <1>4, <1>5, MovesFacts
<1>7. Placed(t)'
  BY <1>6 DEF Placed
<1>8. breaks' \in Nat /\ breaks' >= breaks
  BY DEF OpenInv, OpenTypes
<1> QED BY <1>1, <1>2, <1>6, <1>7, <1>8, MoveStep

LEMMA AwayIsAPage == Away \in PageOver({0, <<>>}) /\ Away.stage = "away"
  BY DEF Away, PageOver

LEMMA VisitHolds ==
  ASSUME OpenInv, NEW t \in Visits, NEW slug \in Slugs, NEW handle \in BOOLEAN,
         Visit(t, slug, handle)
  PROVE  OpenInv'
<1> DEFINE after == [Away EXCEPT !.stage = "lookup", !.slug = slug, !.handle = handle]
<1>1. after \in PageOver({0, <<>>}) /\ after.stage = "lookup"
  BY AwayIsAPage DEF PageOver
<1>2. Moves(t, after)
  BY DEF Visit
<1> HIDE DEF after
<1> QED BY <1>1, <1>2, BareStep DEF Visit, RoomsStand

LEMMA GoAwayHolds ==
  ASSUME OpenInv, NEW t \in Visits, GoAway(t)
  PROVE  OpenInv'
  BY AwayIsAPage, BareStep DEF GoAway, RoomsStand

LEMMA FoundHolds ==
  ASSUME OpenInv, NEW t \in Visits, NEW id \in Named(visit[t].slug),
         Reads(t, id) \/ Steps(t, "resolve"), RoomsStand, breaks' = breaks
  PROVE  OpenInv'
<1>1. PICK R : TypedOver(R)
  BY DEF OpenInv, OpenTypes
<1>2. visit \in [Visits -> PageOver(R)] /\ rooms \in Seq(RoomOver(R))
  BY <1>1 DEF TypedOver
<1>3. id \in DOMAIN rooms /\ id \in Nat /\ rooms[id].slug = visit[t].slug
  BY <1>2 DEF Named
<1>4. rooms' = rooms /\ renames' = renames /\ breaks' \in Nat /\ breaks' >= breaks
  BY DEF RoomsStand, OpenInv, OpenTypes
<1>5. CASE Reads(t, id)
  <2>1. /\ visit' \in [Visits -> PageOver(R)]
        /\ visit'[t].stage = "reading" /\ visit'[t].slug = visit[t].slug /\ visit'[t].room = id
        /\ \A u \in Visits : u # t => visit'[u] = visit[u]
    BY <1>2, <1>3, <1>5, ReadsFacts
  <2>2. Placed(t)'
    BY <2>1, <1>3, <1>4 DEF Placed
  <2> QED BY <1>1, <1>4, <2>1, <2>2, MoveStep
<1>6. CASE Steps(t, "resolve")
  <2>1. /\ visit' \in [Visits -> PageOver(R)]
        /\ visit'[t].stage = "resolve" /\ visit'[t].slug = visit[t].slug
        /\ \A u \in Visits : u # t => visit'[u] = visit[u]
    BY <1>2, <1>6, StepsFacts
  <2>2. Placed(t)'
    BY <2>1, <1>3, <1>4 DEF Placed, Named
  <2> QED BY <1>1, <1>4, <2>1, <2>2, MoveStep
<1> QED BY <1>5, <1>6

\* A page that goes on to a stage that asks nothing of the rooms, or from one
\* where the room is known.
LEMMA PlainStep ==
  ASSUME OpenInv, NEW t \in Visits, NEW stage \in {"create", "failed", "denied"},
         Steps(t, stage), RoomsStand, breaks' \in Nat, breaks' >= breaks,
         Undisturbed /\ Undisturbed' /\ Placed(t) => stage = "create"
  PROVE  OpenInv'
<1>1. PICK R : TypedOver(R)
  BY DEF OpenInv, OpenTypes
<1>2. visit \in [Visits -> PageOver(R)]
  BY <1>1 DEF TypedOver
<1>3. /\ visit' \in [Visits -> PageOver(R)]
      /\ visit'[t].stage = stage
      /\ \A u \in Visits : u # t => visit'[u] = visit[u]
  BY <1>2, StepsFacts
<1>4. rooms' = rooms /\ renames' = renames
  BY DEF RoomsStand
<1>5. stage = "create" => Placed(t)'
  BY <1>3 DEF Placed
<1> QED BY <1>1, <1>3, <1>4, <1>5, MoveStep

LEMMA LookupHolds ==
  ASSUME OpenInv, NEW t \in Visits, Lookup(t)
  PROVE  OpenInv'
<1>1. RoomsStand /\ breaks' = breaks /\ breaks' \in Nat /\ breaks' >= breaks
  BY DEF Lookup, OpenInv, OpenTypes
<1>2. CASE Named(visit[t].slug) # {}
  <2>1. PICK id \in Named(visit[t].slug) : Found(t, id)
    BY <1>2 DEF Lookup
  <2>2. Reads(t, id) \/ Steps(t, "resolve")
    BY <2>1 DEF Found
  <2> QED BY <1>1, <2>2, FoundHolds
<1>3. CASE Named(visit[t].slug) = {}
  <2>1. /\ visit[t].stage \in {"lookup", "again"}
        /\ Steps(t, IF visit[t].stage = "lookup" THEN "create" ELSE "failed")
    BY <1>3 DEF Lookup
  <2>2. CASE visit[t].stage = "lookup"
    BY <1>1, <2>1, <2>2, PlainStep
  <2>3. CASE visit[t].stage = "again"
    <3>1. ~ Placed(t)
      BY <1>3, <2>3 DEF Placed
    <3> QED BY <1>1, <2>1, <2>3, <3>1, PlainStep
  <2> QED BY <2>1, <2>2, <2>3
<1> QED BY <1>2, <1>3

LEMMA ResolveHolds ==
  ASSUME OpenInv, NEW t \in Visits, Resolve(t)
  PROVE  OpenInv'
<1>1. RoomsStand /\ breaks' = breaks /\ breaks' \in Nat /\ breaks' >= breaks
  BY DEF Resolve, OpenInv, OpenTypes
<1>2. CASE Named(visit[t].slug) # {}
  <2>1. PICK id \in Named(visit[t].slug) : Reads(t, id)
    BY <1>2 DEF Resolve
  <2> QED BY <1>1, <2>1, FoundHolds
<1>3. CASE Named(visit[t].slug) = {}
  <2>1. Steps(t, "denied") /\ ~ Placed(t)
    BY <1>3 DEF Resolve, Placed
  <2> QED BY <1>1, <2>1, PlainStep
<1> QED BY <1>2, <1>3

LEMMA OpenFailsHolds ==
  ASSUME OpenInv, NEW t \in Visits, OpenFails(t)
  PROVE  OpenInv'
<1>1. breaks \in Nat /\ breaks' = breaks + 1
  BY DEF OpenInv, OpenTypes, OpenFails
<1>2. breaks' \in Nat /\ breaks' >= breaks /\ breaks' # 0
  BY <1>1
<1>3. ~ Undisturbed'
  BY <1>2 DEF Undisturbed
<1>4. Steps(t, "failed") /\ RoomsStand
  BY DEF OpenFails
<1> QED BY <1>2, <1>3, <1>4, PlainStep

\* A page that reads the last page of the load.
LEMMA HydrateStep ==
  ASSUME OpenInv, NEW t \in Visits, NEW got, Hydrates(t, got),
         visit[t].stage \in {"reading", "open"},
         rooms' = rooms, renames' = renames, breaks' \in Nat, breaks' >= breaks
  PROVE  OpenInv'
<1>1. PICK R : TypedOver(R)
  BY DEF OpenInv, OpenTypes
<1>2. visit \in [Visits -> PageOver(R)]
  BY <1>1 DEF TypedOver
<1>3. PICK X : /\ R \subseteq X
               /\ visit' \in [Visits -> PageOver(X)]
               /\ visit'[t].stage = "open" /\ visit'[t].slug = visit[t].slug
               /\ visit'[t].room = visit[t].room
               /\ \A u \in Visits : u # t => visit'[u] = visit[u]
  BY <1>2, HydratesFacts
<1>4. Placed(t) => Placed(t)'
  BY <1>3 DEF Placed
<1> QED BY <1>1, <1>3, <1>4, MoveStep

LEMMA ReadNothingHolds ==
  ASSUME OpenInv, NEW t \in Visits, ReadNothing(t)
  PROVE  OpenInv'
<1>1. breaks' \in Nat /\ breaks' >= breaks
  BY DEF ReadNothing, OpenInv, OpenTypes
<1>2. Hydrates(t, visit[t].got) /\ visit[t].stage = "reading" /\ rooms' = rooms /\ renames' = renames
  BY DEF ReadNothing, RoomsStand
<1> QED BY <1>1, <1>2, HydrateStep

LEMMA ReloadHolds ==
  ASSUME OpenInv, NEW t \in Visits, ReloadCanvas(t)
  PROVE  OpenInv'
<1>1. breaks' \in Nat /\ breaks' >= breaks
  BY DEF ReloadCanvas, OpenInv, OpenTypes
<1>2. PICK got : Hydrates(t, got)
  BY DEF ReloadCanvas
<1>3. visit[t].stage = "open" /\ rooms' = rooms /\ renames' = renames
  BY DEF ReloadCanvas, RoomsStand
<1> QED BY <1>1, <1>2, <1>3, HydrateStep

LEMMA ReadPageHolds ==
  ASSUME OpenInv, NEW t \in Visits, ReadPage(t)
  PROVE  OpenInv'
<1>1. breaks' \in Nat /\ breaks' >= breaks
  BY DEF ReadPage, OpenInv, OpenTypes
<1>2. visit[t].stage = "reading" /\ rooms' = rooms /\ renames' = renames
  BY DEF ReadPage, RoomsStand
<1>3. \/ \E got : Hydrates(t, got)
      \/ \E next, got : Moves(t, [visit[t] EXCEPT !.cursor = next, !.got = got])
  BY DEF ReadPage
<1>4. ASSUME NEW next, NEW got, Moves(t, [visit[t] EXCEPT !.cursor = next, !.got = got])
      PROVE  OpenInv'
  <2>1. PICK R : TypedOver(R)
    BY DEF OpenInv, OpenTypes
  <2> DEFINE p == visit[t]
             after == [p EXCEPT !.cursor = next, !.got = got]
             X == R \cup {next, got}
  <2>2. p \in PageOver(R)
    BY <2>1 DEF TypedOver
  <2>3. R \subseteq X /\ next \in X /\ got \in X
    OBVIOUS
  <2>4. p \in PageOver(X) /\ visit \in [Visits -> PageOver(X)]
    <3> HIDE DEF p, X
    <3> QED BY <2>1, <2>2, <2>3, WiderTypes DEF TypedOver
  <2>5. Moves(t, after)
    BY <1>4
  <2> HIDE DEF p, X
  <2>6. after \in PageOver(X) /\ after.stage = p.stage /\ after.slug = p.slug /\ after.room = p.room
    BY <2>3, <2>4 DEF PageOver
  <2> HIDE DEF after
  <2>7. /\ visit' \in [Visits -> PageOver(X)] /\ visit'[t] = after
        /\ \A u \in Visits : u # t => visit'[u] = visit[u]
    BY <2>4, <2>5, <2>6, MovesFacts
  <2>8. Placed(t) => Placed(t)'
    BY <1>2, <2>6, <2>7 DEF Placed, p
  <2> QED BY <1>1, <1>2, <2>1, <2>3, <2>7, <2>8, MoveStep
<1> QED BY <1>1, <1>2, <1>3, <1>4, HydrateStep

\* A step that a failure or a rename excuses.
LEMMA ExcusedStep ==
  ASSUME OpenTypes', ~ Undisturbed'
  PROVE  OpenInv'
  BY DEF OpenInv

LEMMA RenameHolds ==
  ASSUME OpenInv, NEW id \in DOMAIN rooms, NEW slug \in Slugs, Rename(id, slug)
  PROVE  OpenInv'
<1>1. PICK R : TypedOver(R)
  BY DEF OpenInv, OpenTypes
<1>2. breaks' \in Nat /\ renames' \in Nat /\ renames' # 0
  BY DEF OpenInv, OpenTypes, Rename
<1>3. rooms' \in Seq(RoomOver(R))
  <2> DEFINE row == [rooms[id] EXCEPT !.slug = slug]
  <2>1. rooms \in Seq(RoomOver(R)) /\ rooms[id] \in RoomOver(R)
    BY <1>1 DEF TypedOver
  <2>2. row \in RoomOver(R)
    BY <2>1 DEF RoomOver
  <2>3. rooms' = [rooms EXCEPT ![id] = row]
    BY DEF Rename
  <2> HIDE DEF row
  <2> QED BY <2>1, <2>2, <2>3
<1>4. visit' \in [Visits -> PageOver(R)]
  <2>1. visit' = visit
    BY DEF Rename
  <2> QED BY <1>1, <2>1 DEF TypedOver
<1>5. OpenTypes'
  BY <1>2, <1>3, <1>4 DEF OpenTypes, TypedOver
<1>6. ~ Undisturbed'
  BY <1>2 DEF Undisturbed
<1> QED BY <1>5, <1>6, ExcusedStep

\* The room that is created has the only slug of its name.
LEMMA Created ==
  ASSUME NEW R, rooms \in Seq(RoomOver(R)), NEW slug \in Slugs \cup {"none"}, Named(slug) = {},
         rooms' = Append(rooms, [slug |-> slug, rows |-> <<>>])
  PROVE  /\ rooms' \in Seq(RoomOver(R \cup {<<>>}))
         /\ RoomsStay
         /\ SlugsUnique => SlugsUnique'
         /\ Len(rooms) + 1 \in DOMAIN rooms' /\ rooms'[Len(rooms) + 1].slug = slug
<1> DEFINE row == [slug |-> slug, rows |-> <<>>]
           A == RoomOver(R \cup {<<>>})
<1>1. row \in A /\ row.slug = slug
  BY DEF RoomOver
<1>2. RoomOver(R) \subseteq A
  BY WiderTypes
<1> HIDE DEF row, A
<1>3. rooms \in Seq(A)
  BY <1>2
<1>4. rooms' = Append(rooms, row)
  BY DEF row
<1>5. rooms' \in Seq(A) /\ DOMAIN rooms' = 1..(Len(rooms) + 1) /\ DOMAIN rooms = 1..Len(rooms)
      /\ Len(rooms) \in Nat
  BY <1>1, <1>3, <1>4
<1>6. /\ \A i \in DOMAIN rooms : rooms'[i] = rooms[i]
      /\ rooms'[Len(rooms) + 1] = row
  BY <1>3, <1>4
<1>7. RoomsStay
  BY <1>5, <1>6 DEF RoomsStay
<1>8. \A i \in DOMAIN rooms : rooms[i].slug # slug
  BY DEF Named
<1>9. ASSUME SlugsUnique PROVE SlugsUnique'
  <2> SUFFICES ASSUME NEW i \in DOMAIN rooms', NEW j \in DOMAIN rooms',
                      rooms'[i].slug = rooms'[j].slug
               PROVE  i = j
    BY DEF SlugsUnique
  <2>1. /\ i \in DOMAIN rooms \/ i = Len(rooms) + 1
        /\ j \in DOMAIN rooms \/ j = Len(rooms) + 1
    BY <1>5
  <2> QED BY <1>1, <1>6, <1>8, <1>9, <2>1 DEF SlugsUnique
<1>10. Len(rooms) + 1 \in DOMAIN rooms' /\ rooms'[Len(rooms) + 1].slug = slug
  BY <1>1, <1>5, <1>6
<1> QED BY <1>5, <1>7, <1>9, <1>10 DEF A

LEMMA CreateHolds ==
  ASSUME OpenInv, NEW t \in Visits, CreateRoom(t)
  PROVE  OpenInv'
<1>1. PICK R : TypedOver(R)
  BY DEF OpenInv, OpenTypes
<1> DEFINE X == R \cup {<<>>}
<1>2. /\ visit \in [Visits -> PageOver(R)] /\ rooms \in Seq(RoomOver(R))
      /\ visit[t].slug \in Slugs \cup {"none"} /\ Len(rooms) + 1 \in Nat
  <2>1. visit \in [Visits -> PageOver(R)] /\ rooms \in Seq(RoomOver(R))
    BY <1>1 DEF TypedOver
  <2>2. visit[t] \in PageOver(R)
    BY <2>1
  <2> QED BY <2>1, <2>2 DEF PageOver
<1>3. breaks' \in Nat /\ breaks' >= breaks /\ renames' \in Nat /\ renames' >= renames
  BY DEF CreateRoom, OpenInv, OpenTypes
<1>4. CASE Named(visit[t].slug) # {}
  <2>1. Steps(t, "again") /\ rooms' = rooms /\ renames' = renames
    BY <1>4 DEF CreateRoom
  <2>2. /\ visit' \in [Visits -> PageOver(R)]
        /\ visit'[t].stage = "again" /\ visit'[t].slug = visit[t].slug
        /\ \A u \in Visits : u # t => visit'[u] = visit[u]
    BY <1>2, <2>1, StepsFacts
  <2>3. Placed(t)'
    BY <1>4, <2>1, <2>2 DEF Placed, Named
  <2> QED BY <1>1, <1>3, <2>1, <2>2, <2>3, MoveStep
<1>5. CASE Named(visit[t].slug) = {}
  <2> DEFINE id == Len(rooms) + 1
             after == [visit[t] EXCEPT !.stage = "open", !.room = Len(rooms) + 1]
  <2>1. /\ rooms' = Append(rooms, [slug |-> visit[t].slug, rows |-> <<>>])
        /\ Steps(t, "resolve") \/ Moves(t, after)
    BY <1>5 DEF CreateRoom
  <2>2. /\ rooms' \in Seq(RoomOver(X)) /\ RoomsStay /\ (SlugsUnique => SlugsUnique')
        /\ id \in DOMAIN rooms' /\ rooms'[id].slug = visit[t].slug
    BY <1>2, <1>5, <2>1, Created
  <2>3. R \subseteq X
    OBVIOUS
  <2> HIDE DEF X
  <2>4. visit \in [Visits -> PageOver(X)]
    BY <1>1, <2>3, WiderTypes DEF TypedOver
  <2>5. /\ visit' \in [Visits -> PageOver(X)]
        /\ visit'[t].slug = visit[t].slug
        /\ visit'[t].stage = "resolve" \/ (visit'[t].stage = "open" /\ visit'[t].room = id)
        /\ \A u \in Visits : u # t => visit'[u] = visit[u]
    <3>1. CASE Steps(t, "resolve")
      BY <2>4, <3>1, StepsFacts
    <3>2. CASE Moves(t, after)
      <4>1. visit[t] \in PageOver(X)
        BY <2>4
      <4>2. after \in PageOver(X) /\ after.stage = "open" /\ after.slug = visit[t].slug /\ after.room = id
        <5> HIDE DEF id
        <5>1. after = [visit[t] EXCEPT !.stage = "open", !.room = id] /\ id \in Nat
          BY <1>2 DEF id
        <5> HIDE DEF after
        <5> QED BY <4>1, <5>1 DEF PageOver
      <4> HIDE DEF after, id
      <4> QED BY <2>4, <3>2, <4>2, MovesFacts
    <3> QED BY <2>1, <3>1, <3>2
  <2> HIDE DEF id, after
  <2>6. Placed(t)'
    BY <2>2, <2>5 DEF Placed, Named
  <2>7. Undisturbed /\ Undisturbed' => SlugsUnique' /\ Placed(t)'
    BY <2>2, <2>6 DEF OpenInv
  <2> QED BY <1>3, <2>2, <2>5, <2>7, StepOfPage
<1> QED BY <1>4, <1>5

LEMMA SaveHolds ==
  ASSUME OpenInv, NEW t \in Visits, SaveCanvas(t)
  PROVE  OpenInv'
<1>1. PICK R : TypedOver(R)
  BY DEF OpenInv, OpenTypes
<1> DEFINE id == visit[t].room
<1>2. PICK shapes : /\ Replaces(id, shapes)
                    /\ Moves(t, [visit[t] EXCEPT !.shows = shapes])
  BY DEF SaveCanvas
<1> DEFINE saved == [i \in DOMAIN shapes |-> [shape |-> shapes[i], at |-> stores + 1]]
           X == R \cup {shapes, saved}
           p == visit[t]
           after == [p EXCEPT !.shows = shapes]
<1>3. Moves(t, after) /\ rooms' = [rooms EXCEPT ![id].rows = saved]
  BY <1>2 DEF Replaces
<1>4. visit[t].stage = "open"
  BY DEF SaveCanvas
<1>5. breaks' \in Nat /\ breaks' >= breaks /\ renames' \in Nat /\ renames' >= renames
  BY DEF SaveCanvas, OpenInv, OpenTypes
<1> HIDE DEF saved
<1>6. R \subseteq X /\ shapes \in X /\ saved \in X
  OBVIOUS
<1> HIDE DEF X, id, p
<1>7. rooms \in Seq(RoomOver(X)) /\ visit \in [Visits -> PageOver(X)] /\ p \in PageOver(X)
  <2>1. rooms \in Seq(RoomOver(X)) /\ visit \in [Visits -> PageOver(X)]
    BY <1>1, <1>6, WiderTypes DEF TypedOver
  <2> QED BY <2>1 DEF p
<1>8. after \in PageOver(X) /\ after.stage = p.stage /\ after.slug = p.slug /\ after.room = p.room
  BY <1>6, <1>7 DEF PageOver
<1> HIDE DEF after
<1>9. /\ visit' \in [Visits -> PageOver(X)] /\ visit'[t] = after
      /\ \A u \in Visits : u # t => visit'[u] = visit[u]
  BY <1>3, <1>7, <1>8, MovesFacts
<1>10. /\ rooms' \in Seq(RoomOver(X))
       /\ DOMAIN rooms' = DOMAIN rooms
       /\ \A i \in DOMAIN rooms : rooms'[i].slug = rooms[i].slug
  <2>1. CASE id \in DOMAIN rooms
    <3> DEFINE row == [rooms[id] EXCEPT !.rows = saved]
    <3>1. rooms[id] \in RoomOver(X)
      BY <1>7, <2>1
    <3>2. row \in RoomOver(X) /\ row.slug = rooms[id].slug
      BY <1>6, <3>1 DEF RoomOver
    <3>3. rooms' = [rooms EXCEPT ![id] = row]
      BY <1>3
    <3> HIDE DEF row
    <3> QED BY <1>7, <2>1, <3>2, <3>3
  <2>2. CASE id \notin DOMAIN rooms
    <3>1. rooms' = rooms
      BY <1>3, <1>7, <2>2
    <3> QED BY <1>7, <3>1
  <2> QED BY <2>1, <2>2
<1>11. RoomsStay
  BY <1>10 DEF RoomsStay
<1>12. SlugsUnique => SlugsUnique'
  BY <1>10 DEF SlugsUnique
<1>13. Placed(t) => Placed(t)'
  BY <1>4, <1>8, <1>9, <1>10 DEF Placed, p
<1>14. Undisturbed /\ Undisturbed' => SlugsUnique' /\ Placed(t)'
  BY <1>12, <1>13 DEF OpenInv
<1> QED BY <1>5, <1>9, <1>10, <1>11, <1>14, StepOfPage

LEMMA OpenStays ==
  ASSUME OpenInv, UNCHANGED openVars
  PROVE  OpenInv'
  BY DEF openVars, OpenInv, OpenTypes, TypedOver, SlugsUnique, Placed, Named, Undisturbed

LEMMA OpenStarts ==
  ASSUME OpenInit
  PROVE  OpenInv
<1> DEFINE R == {0, <<>>}
<1>1. Away \in PageOver(R)
  BY DEF Away, PageOver
<1>2. TypedOver(R)
  <2>1. visit \in [Visits -> PageOver(R)]
    <3> DEFINE P == PageOver(R)
    <3>1. Away \in P
      BY <1>1
    <3> HIDE DEF P
    <3>2. visit \in [Visits -> P]
      BY <3>1 DEF OpenInit
    <3> QED BY <3>2 DEF P
  <2>2. rooms \in Seq(RoomOver(R))
    BY DEF OpenInit
  <2> QED BY <2>1, <2>2 DEF TypedOver
<1>3. OpenTypes
  BY <1>2 DEF OpenTypes, OpenInit
<1>4. SlugsUnique /\ \A t \in Visits : Placed(t)
  BY DEF OpenInit, SlugsUnique, Placed, Away
<1> QED BY <1>3, <1>4 DEF OpenInv

LEMMA OpenSteps ==
  ASSUME OpenInv, [OpenNext]_openVars
  PROVE  OpenInv'
<1>1. ASSUME NEW t \in Visits, \/ Lookup(t) \/ CreateRoom(t) \/ Resolve(t) \/ OpenFails(t)
                               \/ ReadPage(t) \/ ReadNothing(t) \/ SaveCanvas(t)
                               \/ ReloadCanvas(t) \/ GoAway(t)
      PROVE  OpenInv'
  BY <1>1, LookupHolds, CreateHolds, ResolveHolds, OpenFailsHolds, ReadPageHolds,
     ReadNothingHolds, SaveHolds, ReloadHolds, GoAwayHolds
<1>2. ASSUME NEW t \in Visits, NEW slug \in Slugs, NEW handle \in BOOLEAN, Visit(t, slug, handle)
      PROVE  OpenInv'
  BY <1>2, VisitHolds
<1>3. ASSUME NEW id \in DOMAIN rooms, NEW slug \in Slugs, Rename(id, slug)
      PROVE  OpenInv'
  BY <1>3, RenameHolds
<1> QED BY <1>1, <1>2, <1>3, OpenStays DEF OpenNext

LEMMA OneRoomHolds ==
  ASSUME OpenInv, breaks = 0, renames = 0
  PROVE  OneRoom
<1>1. SlugsUnique /\ \A t \in Visits : Placed(t)
  BY DEF OpenInv, Undisturbed
<1> QED BY <1>1 DEF OneRoom, SlugsUnique, Placed

(***************************************************************************)
(* While no query fails and no room is renamed, no page that opens a slug  *)
(* is refused, and all that open it come to one room, whoever creates it   *)
(* and however many find that it is not there (page.tsx:1737-1748).        *)
(***************************************************************************)
THEOREM PagesMeet == OpenSpec => [](breaks = 0 /\ renames = 0 => OneRoom)
<1>1. OpenInit => OpenInv
  BY OpenStarts
<1>2. OpenInv /\ [OpenNext]_openVars => OpenInv'
  BY OpenSteps
<1>3. OpenInv => (breaks = 0 /\ renames = 0 => OneRoom)
  BY OneRoomHolds
<1> QED BY <1>1, <1>2, <1>3, PTL DEF OpenSpec

-----------------------------------------------------------------------------
(***************************************************************************)
(* What a load keeps of the pages it read.                                 *)
(***************************************************************************)

\* What is true of 0 and goes on to n + 1 is true of every number: a set of
\* numbers without it would have a least element.
LEMMA NoLeast ==
  ASSUME NEW B, 0 \notin B, \A n \in Nat : n \notin B => n + 1 \notin B
  PROVE  \A n \in Nat : n \notin B
<1> SUFFICES ASSUME NEW m \in Nat, m \in B PROVE FALSE
  OBVIOUS
<1> DEFINE T == Nat \cap B
<1>1. T \subseteq Nat /\ T # {}
  OBVIOUS
<1>2. PICK x \in T : \A y \in T : ~(<<y, x>> \in OpToRel(<, Nat))
  <2> HIDE DEF T
  <2> QED BY <1>1, NatLessThanWellFounded, WFMin
<1>3. x \in Nat /\ x # 0 /\ x - 1 \in Nat /\ x - 1 < x
  OBVIOUS
<1>4. x - 1 \notin T
  BY <1>2, <1>3 DEF OpToRel
<1> QED BY <1>3, <1>4

Distinct(s) == \A i, j \in DOMAIN s : s[i] = s[j] => i = j

\* The first n of what was read, without repetitions.
Begins(f, got, n) ==
  f = [k \in 0..n |-> IF k = 0 THEN <<>> ELSE WithShape(f[k - 1], got[k])]

LEMMA LoadBegins ==
  ASSUME NEW got \in Seq(Nat)
  PROVE  \A n \in Nat : \E f : Begins(f, got, n)
<1> DEFINE B == {n \in Nat : ~ \E f : Begins(f, got, n)}
<1>1. 0 \notin B
  <2> DEFINE f == [k \in 0..0 |-> <<>>]
  <2>1. \A k \in 0..0 : k = 0
    OBVIOUS
  <2>2. Begins(f, got, 0)
    BY <2>1 DEF Begins
  <2> QED BY <2>2
<1>2. ASSUME NEW n \in Nat, n \notin B PROVE n + 1 \notin B
  <2>1. PICK f : Begins(f, got, n)
    BY <1>2
  <2> DEFINE g == [k \in 0..(n + 1) |-> IF k = n + 1 THEN WithShape(f[n], got[n + 1]) ELSE f[k]]
  <2>2. \A k \in 0..n : f[k] = IF k = 0 THEN <<>> ELSE WithShape(f[k - 1], got[k])
    BY <2>1 DEF Begins
  <2>3. ASSUME NEW k \in 0..(n + 1)
        PROVE  g[k] = IF k = 0 THEN <<>> ELSE WithShape(g[k - 1], got[k])
    <3>1. CASE k = n + 1
      BY <3>1
    <3>2. CASE k \in 0..n
      <4>1. k # n + 1 /\ k - 1 # n + 1 /\ (k # 0 => k - 1 \in 0..(n + 1))
        BY <3>2
      <4> QED BY <2>2, <3>2, <4>1
    <3> QED BY <3>1, <3>2
  <2>4. Begins(g, got, n + 1)
    <3>1. g = [k \in 0..(n + 1) |-> g[k]]
      OBVIOUS
    <3> HIDE DEF g
    <3>2. [k \in 0..(n + 1) |-> g[k]]
            = [k \in 0..(n + 1) |-> IF k = 0 THEN <<>> ELSE WithShape(g[k - 1], got[k])]
      BY <2>3
    <3> QED BY <3>1, <3>2 DEF Begins
  <2> QED BY <2>4
<1> HIDE DEF B
<1>3. \A n \in Nat : n \notin B
  BY <1>1, <1>2, NoLeast
<1> QED BY <1>3 DEF B

LEMMA UnrepeatedIsLast ==
  ASSUME NEW got \in Seq(Nat)
  PROVE  \E f : Begins(f, got, Len(got)) /\ Unrepeated(got) = f[Len(got)]
<1> DEFINE f == CHOOSE f : f = [k \in 0..Len(got) |->
                              IF k = 0 THEN <<>> ELSE WithShape(f[k - 1], got[k])]
<1>1. Unrepeated(got) = f[Len(got)]
  BY DEF Unrepeated
<1>2. \E h : h = [k \in 0..Len(got) |-> IF k = 0 THEN <<>> ELSE WithShape(h[k - 1], got[k])]
  BY LoadBegins DEF Begins
<1>3. Begins(f, got, Len(got))
  BY <1>2 DEF Begins
<1> QED BY <1>1, <1>3

\* A shape is taken once, at its first place.
KeptOf(u, got, n, m) ==
  /\ u \in Seq(Nat) /\ Distinct(u)
  /\ \A k \in DOMAIN u : \E j \in 1..n : u[k] = got[j]
  /\ n <= m => Len(u) = n
  /\ n >= m => Len(u) >= m
  /\ \A k \in 1..m : k <= n => u[k] = got[k]

LEMMA KeepsOne ==
  ASSUME NEW got \in Seq(Nat), NEW m \in 0..Len(got),
         \A i, j \in 1..m : got[i] = got[j] => i = j,
         NEW n \in Nat, n + 1 <= Len(got), NEW u, KeptOf(u, got, n, m)
  PROVE  KeptOf(WithShape(u, got[n + 1]), got, n + 1, m)
<1> DEFINE s == got[n + 1]
           w == WithShape(u, s)
           l == Len(u)
<1>1. m \in Nat /\ n \in Nat /\ s \in Nat
  BY LenProperties, ElementOfSeq
<1>2. u \in Seq(Nat) /\ Distinct(u) /\ l \in Nat /\ DOMAIN u = 1..l
  BY LenProperties DEF KeptOf
<1>3. (n <= m => l = n) /\ (n >= m => l >= m)
  BY DEF KeptOf
<1>4. \A k \in DOMAIN u : \E j \in 1..n : u[k] = got[j]
  BY DEF KeptOf
<1>5. \A k \in 1..m : k <= n => u[k] = got[k]
  BY DEF KeptOf
<1>6. CASE Contains(u, s)
  <2>1. w = u
    BY <1>6 DEF WithShape
  <2>2. PICK i \in 1..l : u[i] = s
    BY <1>6 DEF Contains
  <2> HIDE DEF l
  <2>3. ~(n + 1 <= m)
    <3> SUFFICES ASSUME n + 1 <= m PROVE FALSE
      OBVIOUS
    <3>1. i \in 1..m /\ i <= n /\ n + 1 \in 1..m
      BY <1>1, <1>2, <1>3
    <3>2. got[i] = got[n + 1]
      BY <1>5, <2>2, <3>1
    <3>3. i = n + 1
      BY <3>1, <3>2
    <3> QED BY <1>1, <3>1, <3>3
  <2>4. \A k \in DOMAIN u : \E j \in 1..(n + 1) : u[k] = got[j]
    <3>1. 1..n \subseteq 1..(n + 1)
      BY <1>1
    <3> QED BY <1>4, <3>1
  <2>5. \A k \in 1..m : k <= n + 1 => u[k] = got[k]
    <3>1. \A k \in 1..m : k <= n
      BY <1>1, <2>3
    <3> QED BY <1>5, <3>1
  <2>6. l >= m /\ (n + 1 <= m => l = n + 1)
    BY <1>1, <1>2, <1>3, <2>3
  <2> HIDE DEF w, s
  <2>7. KeptOf(u, got, n + 1, m)
    BY <1>2, <2>4, <2>5, <2>6 DEF KeptOf, l
  <2> QED BY <2>1, <2>7 DEF w, s
<1>7. CASE ~Contains(u, s)
  <2>1. w = Append(u, s)
    BY <1>7 DEF WithShape
  <2>2. \A i \in 1..l : u[i] # s
    BY <1>7 DEF Contains
  <2> HIDE DEF w, s
  <2>3. w \in Seq(Nat) /\ Len(w) = l + 1 /\ w[l + 1] = s /\ \A k \in 1..l : w[k] = u[k]
    BY <1>1, <1>2, <2>1, AppendProperties
  <2> HIDE DEF l
  <2>4. DOMAIN w = 1..(l + 1)
    BY <2>3, LenProperties
  <2>5. \A i \in DOMAIN w : i \in 1..l \/ i = l + 1
    BY <1>2, <2>4
  <2>6. Distinct(w)
    <3> SUFFICES ASSUME NEW i \in DOMAIN w, NEW j \in DOMAIN w, w[i] = w[j] PROVE i = j
      BY DEF Distinct
    <3>1. CASE i \in 1..l /\ j \in 1..l
      BY <1>2, <2>3, <3>1 DEF Distinct
    <3>2. CASE i = l + 1 \/ j = l + 1
      BY <2>2, <2>3, <2>5, <3>2
    <3> QED BY <2>5, <3>1, <3>2
  <2>7. \A k \in DOMAIN w : \E j \in 1..(n + 1) : w[k] = got[j]
    <3> TAKE k \in DOMAIN w
    <3>1. 1..n \subseteq 1..(n + 1) /\ n + 1 \in 1..(n + 1)
      BY <1>1
    <3>2. CASE k \in 1..l
      BY <1>2, <1>4, <2>3, <3>1, <3>2
    <3>3. CASE k = l + 1
      BY <2>3, <3>1, <3>3 DEF s
    <3> QED BY <2>5, <3>2, <3>3
  <2>8. \A k \in 1..m : k <= n + 1 => w[k] = got[k]
    <3> SUFFICES ASSUME NEW k \in 1..m, k <= n + 1 PROVE w[k] = got[k]
      OBVIOUS
    <3>1. CASE k <= n
      <4>1. k \in 1..l
        BY <1>1, <1>2, <1>3, <3>1
      <4> QED BY <1>5, <2>3, <3>1, <4>1
    <3>2. CASE k = n + 1
      <4>1. l = n
        BY <1>1, <1>3, <3>2
      <4> QED BY <2>3, <3>2, <4>1 DEF s
    <3> QED BY <1>1, <3>1, <3>2
  <2>9. (n + 1 <= m => l + 1 = n + 1) /\ (n + 1 >= m => l + 1 >= m)
    BY <1>1, <1>2, <1>3
  <2>10. KeptOf(w, got, n + 1, m)
    BY <2>3, <2>6, <2>7, <2>8, <2>9 DEF KeptOf
  <2> QED BY <2>10 DEF w, s
<1> QED BY <1>6, <1>7

\* What is read without repetitions: a shape once, at its first place; so what
\* is read first stays in front if it has no repetitions.
LEMMA UnrepeatedFacts ==
  ASSUME NEW got \in Seq(Nat), NEW m \in 0..Len(got),
         \A i, j \in 1..m : got[i] = got[j] => i = j
  PROVE  KeptOf(Unrepeated(got), got, Len(got), m)
<1>1. PICK f : Begins(f, got, Len(got)) /\ Unrepeated(got) = f[Len(got)]
  BY UnrepeatedIsLast
<1>2. \A k \in 0..Len(got) : f[k] = IF k = 0 THEN <<>> ELSE WithShape(f[k - 1], got[k])
  BY <1>1 DEF Begins
<1> DEFINE B == {n \in Nat : n <= Len(got) /\ ~KeptOf(f[n], got, n, m)}
<1>3. Len(got) \in Nat /\ m \in Nat
  OBVIOUS
<1>4. 0 \notin B
  <2>1. f[0] = <<>>
    BY <1>2, <1>3
  <2>2. KeptOf(<<>>, got, 0, m)
    BY <1>3 DEF KeptOf, Distinct
  <2> QED BY <2>1, <2>2
<1>5. ASSUME NEW n \in Nat, n \notin B PROVE n + 1 \notin B
  <2> SUFFICES ASSUME n + 1 <= Len(got) PROVE KeptOf(f[n + 1], got, n + 1, m)
    OBVIOUS
  <2>1. KeptOf(f[n], got, n, m)
    BY <1>3, <1>5
  <2>2. n + 1 \in 0..Len(got) /\ n + 1 # 0 /\ (n + 1) - 1 = n
    BY <1>3
  <2>3. f[n + 1] = WithShape(f[n], got[n + 1])
    BY <1>2, <2>2
  <2> QED BY <2>1, <2>3, KeepsOne
<1> HIDE DEF B
<1>6. \A n \in Nat : n \notin B
  BY <1>4, <1>5, NoLeast
<1>7. KeptOf(f[Len(got)], got, Len(got), m)
  BY <1>3, <1>6 DEF B
<1> QED BY <1>1, <1>7

-----------------------------------------------------------------------------
(***************************************************************************)
(* What a page loads, for any pages, slugs, sizes of a page and bounds.    *)
(***************************************************************************)

SavedRow == [shape : Nat, at : Nat \ {0}]
OpenRoom == [slug : Slugs \cup {"none"}, rows : Seq(SavedRow)]
OpenPage ==
  [stage : {"away", "lookup", "create", "again", "resolve", "reading", "open", "failed", "denied"},
   slug : Slugs \cup {"none"}, handle : BOOLEAN, room : Nat, cursor : Nat,
   got : Seq(Nat), loaded : Seq(Nat), shows : Seq(Nat)]

\* Shapes without repetitions, drawn up to now.
Known(shapes, n) ==
  shapes \in Seq(Nat) /\ Distinct(shapes) /\ \A k \in DOMAIN shapes : shapes[k] <= n

\* What was read begins with the first page of a version.
Fore(v) == IF Len(v) < PageSize THEN Len(v) ELSE PageSize
Leads(v, got) == Fore(v) <= Len(got) /\ \A k \in 1..Fore(v) : got[k] = v[k]
LedBy(got, versions) == \E v \in versions : Leads(v, got)
FromOf(got, versions) ==
  \A k \in DOMAIN got : \E v \in versions : \E j \in DOMAIN v : v[j] = got[k]

LoadTypes ==
  /\ rooms \in Seq(OpenRoom) /\ visit \in [Visits -> OpenPage]
  /\ inked \in Nat /\ stores \in Nat /\ breaks \in Nat
  /\ held \in [Visits -> SUBSET Seq(Nat)]

RowsKnown == \A i \in DOMAIN rooms : Known(Shapes(rooms[i].rows), inked)

HeldKnown(t) == \A v \in held[t] : Known(v, inked)
LoadStage(t) ==
  /\ visit[t].stage \in {"reading", "open"} => visit[t].room \in DOMAIN rooms
  /\ visit[t].stage # "open" => visit[t].loaded = <<>> /\ visit[t].shows = <<>>
  /\ visit[t].stage \notin {"reading", "failed"} => visit[t].cursor = 0 /\ visit[t].got = <<>>
LoadReads(t) ==
  visit[t].stage = "reading" =>
    /\ Shapes(rooms[visit[t].room].rows) \in held[t]
    /\ FromOf(visit[t].got, held[t])
    /\ visit[t].cursor # 0 \/ visit[t].got # <<>> => LedBy(visit[t].got, held[t])
LoadShows(t) ==
  /\ Known(visit[t].shows, inked)
  /\ breaks = 0 /\ visit[t].stage = "open" =>
       LedBy(visit[t].loaded, held[t]) /\ FromOf(visit[t].loaded, held[t])
LoadPage(t) == HeldKnown(t) /\ LoadStage(t) /\ LoadReads(t) /\ LoadShows(t)

LoadInv == LoadTypes /\ RowsKnown /\ \A t \in Visits : LoadPage(t)

----------------------------------------------------------------------------
\* Rows and their shapes.
LEMMA ShapesType ==
  ASSUME NEW table \in Seq(SavedRow)
  PROVE  /\ Shapes(table) \in Seq(Nat) /\ Len(Shapes(table)) = Len(table)
         /\ \A i \in 1..Len(table) : Shapes(table)[i] = table[i].shape
<1>1. \A i \in DOMAIN table : table[i] \in SavedRow
  BY ElementOfSeq, LenProperties
<1>2. \A i \in DOMAIN table : table[i].shape \in Nat
  BY <1>1 DEF SavedRow
<1> DEFINE w == Shapes(table)
           l == Len(table)
<1>3. DOMAIN table = 1..l /\ l \in Nat
  BY LenProperties
<1> HIDE DEF l
<1>4. w = [i \in 1..l |-> table[i].shape]
  BY <1>3 DEF Shapes
<1> HIDE DEF w
<1>5. w \in [1..l -> Nat]
  BY <1>2, <1>3, <1>4
<1>6. w \in Seq(Nat)
  BY <1>3, <1>5, SeqDef
<1>7. Len(w) = l
  <2>1. DOMAIN w = 1..l
    BY <1>4
  <2> QED BY <1>3, <1>6, <2>1, LenProperties
<1> QED BY <1>3, <1>4, <1>6, <1>7 DEF w, l

\* A page of the rows: its shapes are theirs, the first page has the first rows,
\* and its cursor is none only when there is nothing more.
LEMMA PageFacts ==
  ASSUME NEW table \in Seq(SavedRow), NEW cursor \in Nat, NEW limit \in Nat \ {0}
  PROVE  /\ PageOf(table, cursor, limit).shapes \in Seq(Nat)
         /\ PageOf(table, cursor, limit).next \in Nat
         /\ FromOf(PageOf(table, cursor, limit).shapes, {Shapes(table)})
         /\ cursor = 0 =>
              /\ Len(PageOf(table, cursor, limit).shapes)
                   = IF Len(table) < limit THEN Len(table) ELSE limit
              /\ \A k \in 1..Len(PageOf(table, cursor, limit).shapes) :
                   PageOf(table, cursor, limit).shapes[k] = Shapes(table)[k]
<1> DEFINE past == {i \in DOMAIN table : table[i].at <= cursor}
           l == Len(table)
           c == Cardinality(past)
           later == SubSeq(table, c + 1, l)
           size == IF Len(later) < limit THEN Len(later) ELSE limit
           part == SubSeq(later, 1, size)
           next == IF Len(later) > limit THEN part[limit].at ELSE 0
<1>1. PageOf(table, cursor, limit) = [shapes |-> Shapes(part), next |-> next]
  BY DEF PageOf
<1>2. l \in Nat /\ DOMAIN table = 1..l /\ \A i \in 1..l : table[i] \in SavedRow
  BY LenProperties, ElementOfSeq
<1>3. past \subseteq 1..l
  BY <1>2
<1>4. c \in 0..l
  <2> HIDE DEF past, l
  <2>1. IsFiniteSet(1..l) /\ Cardinality(1..l) = l
    BY <1>2, FS_Interval
  <2>2. IsFiniteSet(past) /\ c <= l /\ c \in Nat
    BY <1>3, <2>1, FS_Subset, FS_CardinalityType
  <2> QED BY <1>2, <2>2
<1>5. cursor = 0 => c = 0
  <2> SUFFICES ASSUME cursor = 0 PROVE c = 0
    OBVIOUS
  <2>1. \A i \in 1..l : table[i].at \in Nat \ {0}
    BY <1>2 DEF SavedRow
  <2>2. past = {}
    <3> HIDE DEF l
    <3> QED BY <1>2, <2>1
  <2> HIDE DEF past
  <2> QED BY <2>2, FS_EmptySet
<1> HIDE DEF past, c, l
<1>6. /\ later \in Seq(SavedRow) /\ Len(later) = l - c
      /\ \A i \in 1..(l - c) : later[i] = table[c + i]
  <2>1. c + 1 \in 1..(l + 1) /\ l \in c..l /\ c \in Nat
    BY <1>2, <1>4
  <2>2. \A i \in (c + 1)..l : table[i] \in SavedRow
    BY <1>2, <1>4
  <2>3. /\ SubSeq(table, c + 1, l) \in Seq(SavedRow)
        /\ Len(SubSeq(table, c + 1, l)) = IF c + 1 <= l THEN l - (c + 1) + 1 ELSE 0
        /\ \A i \in 1..(l - (c + 1) + 1) : SubSeq(table, c + 1, l)[i] = table[(c + 1) + i - 1]
    BY <1>2, <2>1, SubSeqProperties DEF l
  <2> HIDE DEF later
  <2>4. (IF c + 1 <= l THEN l - (c + 1) + 1 ELSE 0) = l - c
    BY <1>2, <1>4
  <2>5. l - (c + 1) + 1 = l - c /\ \A i \in 1..(l - c) : (c + 1) + i - 1 = c + i
    BY <1>2, <1>4
  <2> QED BY <2>3, <2>4, <2>5 DEF later
<1> HIDE DEF later
<1>7. size \in Nat /\ size <= l - c /\ size <= limit /\ (l - c > limit => size = limit)
      /\ (size = IF l - c < limit THEN l - c ELSE limit)
  BY <1>2, <1>4, <1>6
<1> HIDE DEF size
<1>8. /\ part \in Seq(SavedRow) /\ Len(part) = size
      /\ \A i \in 1..size : part[i] = later[i]
  <2>1. /\ SubSeq(later, 1, size) \in Seq(SavedRow)
        /\ Len(SubSeq(later, 1, size)) = IF 1 <= size THEN size - 1 + 1 ELSE 0
        /\ \A i \in 1..(size - 1 + 1) : SubSeq(later, 1, size)[i] = later[1 + i - 1]
    <3>1. l - c \in Nat
      BY <1>2, <1>4
    <3>2. 1 \in 1..(Len(later) + 1) /\ size \in (1 - 1)..Len(later)
      BY <1>6, <1>7, <3>1
    <3> QED BY <1>6, <3>2, SubSeqProperties
  <2> HIDE DEF part
  <2>2. (IF 1 <= size THEN size - 1 + 1 ELSE 0) = size /\ size - 1 + 1 = size
        /\ \A i \in 1..size : 1 + i - 1 = i
    BY <1>7
  <2> QED BY <2>1, <2>2 DEF part
<1> HIDE DEF part
<1>9. /\ Shapes(part) \in Seq(Nat) /\ Len(Shapes(part)) = size
      /\ \A i \in 1..size : Shapes(part)[i] = part[i].shape
  BY <1>8, ShapesType
<1>10. \A i \in 1..size : c + i \in 1..l /\ i \in 1..(l - c)
  BY <1>2, <1>4, <1>7
<1>11. \A i \in 1..size : Shapes(part)[i] = Shapes(table)[c + i]
  <2> TAKE i \in 1..size
  <2>1. part[i] = table[c + i]
    BY <1>6, <1>8, <1>10
  <2>2. Shapes(table)[c + i] = table[c + i].shape
    BY <1>10, ShapesType DEF l
  <2> QED BY <1>9, <2>1, <2>2
<1>12. DOMAIN Shapes(table) = 1..l
  BY ShapesType, LenProperties DEF l
<1>13. DOMAIN Shapes(part) = 1..size
  BY <1>9, LenProperties
<1> DEFINE s == Shapes(part)
           r == Shapes(table)
<1> HIDE DEF s, r
<1>14. FromOf(s, {r})
  BY <1>10, <1>11, <1>12, <1>13 DEF FromOf, s, r
<1>15. next \in Nat
  <2>1. CASE Len(later) > limit
    <3>1. limit \in 1..size
      BY <1>2, <1>4, <1>6, <1>7, <2>1
    <3>2. part[limit] \in SavedRow
      BY <1>8, <3>1, ElementOfSeq
    <3> QED BY <2>1, <3>2 DEF SavedRow
  <2> QED BY <2>1
<1> HIDE DEF next
<1>16. cursor = 0 => Len(s) = (IF l < limit THEN l ELSE limit) /\ \A k \in 1..Len(s) : s[k] = r[k]
  <2> SUFFICES ASSUME cursor = 0
               PROVE  Len(s) = (IF l < limit THEN l ELSE limit) /\ \A k \in 1..Len(s) : s[k] = r[k]
    OBVIOUS
  <2>1. c = 0 /\ l - c = l /\ size = IF l < limit THEN l ELSE limit
    BY <1>2, <1>5, <1>7
  <2>2. \A k \in 1..size : c + k = k
    BY <1>7, <2>1
  <2>3. \A k \in 1..size : s[k] = r[k]
    BY <1>11, <2>2 DEF s, r
  <2>4. Len(s) = size
    BY <1>9 DEF s
  <2> QED BY <2>1, <2>3, <2>4
<1>17. PageOf(table, cursor, limit).shapes = s /\ PageOf(table, cursor, limit).next = next
  BY <1>1 DEF s
<1>18. s \in Seq(Nat)
  BY <1>9 DEF s
<1> QED BY <1>14, <1>15, <1>16, <1>17, <1>18 DEF l, r

LEMMA ForeIn ==
  ASSUME NEW v \in Seq(Nat)
  PROVE  Fore(v) \in 0..Len(v) /\ Fore(v) <= PageSize
<1>1. PageSize \in Nat /\ Len(v) \in Nat
  BY RoomOpenAssumption
<1> QED BY <1>1 DEF Fore

\* What is put behind leaves what is in front.
LEMMA LeadsOn ==
  ASSUME NEW v \in Seq(Nat), NEW got \in Seq(Nat), NEW more \in Seq(Nat), Leads(v, got)
  PROVE  Leads(v, got \o more)
<1> DEFINE g == got \o more
           f == Fore(v)
           l == Len(got)
           m == Len(more)
<1>1. g \in Seq(Nat) /\ Len(g) = l + m /\ \A k \in 1..l : g[k] = got[k]
  BY ConcatProperties
<1>2. f \in Nat /\ f <= l /\ \A k \in 1..f : got[k] = v[k]
  BY ForeIn DEF Leads
<1>3. l \in Nat /\ m \in Nat
  BY LenProperties
<1> HIDE DEF g, f, l, m
<1>4. f <= Len(g) /\ \A k \in 1..f : g[k] = v[k]
  BY <1>1, <1>2, <1>3
<1> QED BY <1>4 DEF Leads, g, f

LEMMA FromBoth ==
  ASSUME NEW got \in Seq(Nat), NEW more \in Seq(Nat), NEW V,
         FromOf(got, V), FromOf(more, V)
  PROVE  FromOf(got \o more, V)
<1> DEFINE g == got \o more
           l == Len(got)
           m == Len(more)
<1>1. /\ g \in Seq(Nat) /\ Len(g) = l + m
      /\ \A k \in 1..l : g[k] = got[k]
      /\ \A k \in 1..m : g[l + k] = more[k]
  BY ConcatProperties
<1>2. l \in Nat /\ m \in Nat /\ DOMAIN got = 1..l /\ DOMAIN more = 1..m
  BY LenProperties
<1>3. DOMAIN g = 1..(l + m)
  BY <1>1, LenProperties
<1> HIDE DEF g, l, m
<1>4. \A k \in DOMAIN g : (k \in 1..l) \/ (k - l \in 1..m /\ g[k] = more[k - l])
  <2> TAKE k \in DOMAIN g
  <2>1. k \in 1..l \/ (k - l \in 1..m /\ l + (k - l) = k)
    BY <1>2, <1>3
  <2> QED BY <1>1, <2>1
<1>5. \A k \in DOMAIN g : \E v \in V : \E j \in DOMAIN v : v[j] = g[k]
  <2> TAKE k \in DOMAIN g
  <2>1. CASE k \in 1..l
    BY <1>1, <1>2, <2>1 DEF FromOf
  <2>2. CASE k - l \in 1..m /\ g[k] = more[k - l]
    BY <1>2, <2>2 DEF FromOf
  <2> QED BY <1>4, <2>1, <2>2
<1> QED BY <1>5 DEF FromOf, g

LEMMA FromWider ==
  ASSUME NEW got, NEW V, NEW W, V \subseteq W
  PROVE  /\ FromOf(got, V) => FromOf(got, W)
         /\ LedBy(got, V) => LedBy(got, W)
<1>1. FromOf(got, V) => FromOf(got, W)
  BY DEF FromOf
<1>2. LedBy(got, V) => LedBy(got, W)
  BY DEF LedBy
<1> QED BY <1>1, <1>2

LEMMA KnownOn ==
  ASSUME NEW shapes, NEW n \in Nat, NEW n2 \in Nat, n <= n2, Known(shapes, n)
  PROVE  Known(shapes, n2)
<1>1. shapes \in Seq(Nat) /\ Distinct(shapes) /\ \A k \in DOMAIN shapes : shapes[k] <= n
  BY DEF Known
<1>2. \A k \in DOMAIN shapes : shapes[k] \in Nat
  BY <1>1, ElementOfSeq, LenProperties
<1>3. \A k \in DOMAIN shapes : shapes[k] <= n2
  BY <1>1, <1>2
<1> QED BY <1>1, <1>3 DEF Known

LEMMA EmptyKnown ==
  ASSUME NEW n \in Nat
  PROVE  Known(<<>>, n) /\ \A V : FromOf(<<>>, V)
  BY DEF Known, Distinct, FromOf

\* The canvas of a load: no shape twice, all of versions of the room, and what was
\* read first of a version still in front.
LEMMA HydrateFacts ==
  ASSUME NEW got \in Seq(Nat), NEW V \in SUBSET Seq(Nat), NEW n \in Nat,
         \A v \in V : Known(v, n), FromOf(got, V)
  PROVE  /\ Known(Unrepeated(got), n)
         /\ FromOf(Unrepeated(got), V)
         /\ LedBy(got, V) => LedBy(Unrepeated(got), V)
<1> DEFINE u == Unrepeated(got)
           l == Len(got)
<1>1. l \in Nat /\ 0 \in 0..l /\ DOMAIN got = 1..l
  BY LenProperties
<1>2. KeptOf(u, got, l, 0)
  <2>1. \A i, j \in 1..0 : got[i] = got[j] => i = j
    OBVIOUS
  <2>2. 0 \in 0..Len(got)
    BY <1>1
  <2> QED BY <2>1, <2>2, UnrepeatedFacts
<1>3. u \in Seq(Nat) /\ Distinct(u) /\ \A k \in DOMAIN u : \E j \in 1..l : u[k] = got[j]
  BY <1>2 DEF KeptOf
<1> HIDE DEF u, l
<1>4. FromOf(u, V)
  <2> SUFFICES ASSUME NEW k \in DOMAIN u
               PROVE  \E v \in V : \E j \in DOMAIN v : v[j] = u[k]
    BY DEF FromOf
  <2>1. PICK i \in DOMAIN got : u[k] = got[i]
    BY <1>1, <1>3
  <2> QED BY <2>1 DEF FromOf
<1>5. \A k \in DOMAIN u : u[k] <= n
  BY <1>4 DEF FromOf, Known
<1>6. Known(u, n)
  BY <1>3, <1>5 DEF Known
<1>7. ASSUME LedBy(got, V) PROVE LedBy(u, V)
  <2>1. PICK v \in V : Leads(v, got)
    BY <1>7 DEF LedBy
  <2> DEFINE f == Fore(v)
             o == Len(v)
  <2>2. v \in Seq(Nat) /\ Distinct(v) /\ DOMAIN v = 1..o /\ o \in Nat
    BY LenProperties DEF Known
  <2>3. f \in 0..o
    BY <2>2, ForeIn
  <2>4. f <= l /\ \A k \in 1..f : got[k] = v[k]
    BY <2>1 DEF Leads, l
  <2> HIDE DEF f, o
  <2>5. f \in 0..l /\ f \in Nat
    BY <1>1, <2>2, <2>3, <2>4
  <2>6. \A k \in 1..f : k \in DOMAIN v
    BY <2>2, <2>3
  <2>7. \A i, j \in 1..f : got[i] = got[j] => i = j
    BY <2>2, <2>4, <2>6 DEF Distinct
  <2>8. f \in 0..Len(got)
    BY <2>5 DEF l
  <2>9. KeptOf(u, got, l, f)
    BY <2>7, <2>8, UnrepeatedFacts DEF u, l
  <2>10. (l >= f => Len(u) >= f) /\ \A k \in 1..f : k <= l => u[k] = got[k]
    BY <2>9 DEF KeptOf
  <2>11. f <= Len(u)
    <3>1. Len(u) \in Nat
      BY <1>3, LenProperties
    <3> QED BY <1>1, <2>4, <2>5, <2>10, <3>1
  <2>12. \A k \in 1..f : k <= l
    BY <1>1, <2>4, <2>5
  <2>13. \A k \in 1..f : u[k] = v[k]
    BY <2>4, <2>10, <2>12
  <2>14. Leads(v, u)
    BY <2>11, <2>13 DEF Leads, f
  <2> QED BY <2>14 DEF LedBy
<1> QED BY <1>4, <1>6, <1>7 DEF u

\* A load in one request that is not shorter than a page begins as the rows do.
LEMMA FirstPageLeads ==
  ASSUME NEW table \in Seq(SavedRow), NEW limit \in Nat \ {0}, PageSize <= limit
  PROVE  Leads(Shapes(table), PageOf(table, 0, limit).shapes)
<1> DEFINE v == Shapes(table)
           s == PageOf(table, 0, limit).shapes
           l == Len(table)
           f == Fore(v)
<1>1. v \in Seq(Nat) /\ Len(v) = l /\ l \in Nat
  BY ShapesType, LenProperties
<1>2. Len(s) = (IF l < limit THEN l ELSE limit) /\ \A k \in 1..Len(s) : s[k] = v[k]
  BY PageFacts
<1>3. f \in 0..l /\ f <= PageSize /\ PageSize \in Nat
  BY <1>1, ForeIn, RoomOpenAssumption
<1> HIDE DEF v, s, l, f
<1>4. f <= Len(s)
  BY <1>1, <1>2, <1>3
<1>5. Len(s) \in Nat
  BY <1>1, <1>2
<1>6. \A k \in 1..f : k \in 1..Len(s)
  BY <1>1, <1>3, <1>4, <1>5
<1> QED BY <1>2, <1>4, <1>6 DEF Leads, v, s, f

----------------------------------------------------------------------------
\* A page that goes on.
LEMMA PageMoves ==
  ASSUME visit \in [Visits -> OpenPage], NEW t \in Visits, NEW after \in OpenPage, Moves(t, after)
  PROVE  /\ visit' \in [Visits -> OpenPage]
         /\ visit'[t] = after
         /\ \A u \in Visits : u # t => visit'[u] = visit[u]
  BY DEF Moves

LEMMA VisitedPage ==
  ASSUME LoadInv, NEW t \in Visits
  PROVE  /\ visit[t] \in OpenPage /\ visit[t].room \in Nat /\ visit[t].cursor \in Nat
         /\ visit[t].got \in Seq(Nat) /\ visit[t].loaded \in Seq(Nat)
         /\ visit[t].shows \in Seq(Nat) /\ visit[t].slug \in Slugs \cup {"none"}
         /\ held[t] \in SUBSET Seq(Nat) /\ LoadPage(t)
<1>1. visit[t] \in OpenPage /\ held[t] \in SUBSET Seq(Nat) /\ LoadPage(t)
  BY DEF LoadInv, LoadTypes
<1> DEFINE p == visit[t]
<1>2. p \in OpenPage
  BY <1>1
<1> HIDE DEF p
<1>3. /\ p.room \in Nat /\ p.cursor \in Nat /\ p.got \in Seq(Nat) /\ p.loaded \in Seq(Nat)
      /\ p.shows \in Seq(Nat) /\ p.slug \in Slugs \cup {"none"}
  BY <1>2 DEF OpenPage
<1> QED BY <1>1, <1>3 DEF p

\* The rows of a room.
LEMMA RowsOf ==
  ASSUME LoadInv, NEW id \in DOMAIN rooms
  PROVE  /\ rooms[id] \in OpenRoom /\ rooms[id].rows \in Seq(SavedRow) /\ id \in Nat
         /\ Known(Shapes(rooms[id].rows), inked) /\ Shapes(rooms[id].rows) \in Seq(Nat)
<1>1. rooms \in Seq(OpenRoom)
  BY DEF LoadInv, LoadTypes
<1>2. rooms[id] \in OpenRoom /\ id \in Nat
  BY <1>1, ElementOfSeq, LenProperties
<1>3. rooms[id].rows \in Seq(SavedRow)
  <2> DEFINE row == rooms[id]
  <2> HIDE DEF row
  <2>1. row \in OpenRoom => row.rows \in Seq(SavedRow)
    BY DEF OpenRoom
  <2> QED BY <1>2, <2>1 DEF row
<1>4. Known(Shapes(rooms[id].rows), inked)
  BY DEF LoadInv, RowsKnown
<1> QED BY <1>2, <1>3, <1>4 DEF Known

\* Another page keeps what it read: versions are only added.
LEMMA OthersLoad ==
  ASSUME NEW u \in Visits, LoadPage(u), visit'[u] = visit[u],
         DOMAIN rooms \subseteq DOMAIN rooms', held[u] \subseteq held'[u],
         inked \in Nat, inked' \in Nat, inked <= inked', breaks' = 0 => breaks = 0,
         \A v \in held'[u] : Known(v, inked'),
         visit[u].stage = "reading" => Shapes(rooms'[visit[u].room].rows) \in held'[u]
  PROVE  LoadPage(u)'
<1>1. HeldKnown(u)'
  BY DEF HeldKnown
<1>2. LoadStage(u)'
  BY DEF LoadPage, LoadStage
<1>3. LoadReads(u)'
  <2>1. \A got : FromOf(got, held[u]) => FromOf(got, held'[u])
    BY FromWider
  <2>2. \A got : LedBy(got, held[u]) => LedBy(got, held'[u])
    BY FromWider
  <2> SUFFICES ASSUME visit[u].stage = "reading"
               PROVE  /\ Shapes(rooms'[visit[u].room].rows) \in held'[u]
                      /\ FromOf(visit[u].got, held'[u])
                      /\ visit[u].cursor # 0 \/ visit[u].got # <<>> => LedBy(visit[u].got, held'[u])
    BY DEF LoadReads, FromOf, LedBy
  <2>3. FromOf(visit[u].got, held[u])
        /\ (visit[u].cursor # 0 \/ visit[u].got # <<>> => LedBy(visit[u].got, held[u]))
    BY DEF LoadPage, LoadReads
  <2> QED BY <2>1, <2>2, <2>3
<1>4. LoadShows(u)'
  <2>1. Known(visit[u].shows, inked')
    BY KnownOn DEF LoadPage, LoadShows
  <2>2. ASSUME breaks' = 0, visit[u].stage = "open"
        PROVE  LedBy(visit[u].loaded, held'[u]) /\ FromOf(visit[u].loaded, held'[u])
    <3>1. LedBy(visit[u].loaded, held[u]) /\ FromOf(visit[u].loaded, held[u])
      BY <2>2 DEF LoadPage, LoadShows
    <3> QED BY <3>1, FromWider
  <2> QED BY <2>1, <2>2 DEF LoadShows
<1> QED BY <1>1, <1>2, <1>3, <1>4 DEF LoadPage

\* The rows of the rooms there are stay as they are.
RowsStand ==
  /\ rooms' \in Seq(OpenRoom) /\ RowsKnown'
  /\ DOMAIN rooms \subseteq DOMAIN rooms'
  /\ \A i \in DOMAIN rooms : rooms'[i].rows = rooms[i].rows

LEMMA RowsSame ==
  ASSUME LoadInv, rooms' = rooms, inked' = inked
  PROVE  RowsStand
<1>1. rooms' \in Seq(OpenRoom)
  BY DEF LoadInv, LoadTypes
<1>2. RowsKnown'
  BY DEF LoadInv, RowsKnown
<1> QED BY <1>1, <1>2 DEF RowsStand

\* A step of page t that leaves the rows and what was drawn.
LEMMA LoadStep ==
  ASSUME LoadInv, NEW t \in Visits, NEW after \in OpenPage, Moves(t, after),
         RowsStand, inked' = inked, stores' = stores,
         breaks' \in Nat, breaks' = 0 => breaks = 0,
         NEW V \in SUBSET Seq(Nat), held' = [held EXCEPT ![t] = V],
         LoadPage(t)'
  PROVE  LoadInv'
<1>1. /\ visit' \in [Visits -> OpenPage]
      /\ \A u \in Visits : u # t => visit'[u] = visit[u]
  <2>1. visit \in [Visits -> OpenPage]
    BY DEF LoadInv, LoadTypes
  <2> QED BY <2>1, PageMoves
<1>2. held' \in [Visits -> SUBSET Seq(Nat)] /\ \A u \in Visits : u # t => held'[u] = held[u]
  BY DEF LoadInv, LoadTypes
<1>3. LoadTypes'
  BY <1>1, <1>2 DEF LoadInv, LoadTypes, RowsStand
<1>4. ASSUME NEW u \in Visits, u # t PROVE LoadPage(u)'
  <2>1. visit'[u] = visit[u] /\ held'[u] = held[u] /\ LoadPage(u)
    BY <1>1, <1>2, <1>4 DEF LoadInv
  <2>2. inked \in Nat /\ inked' \in Nat /\ inked <= inked'
    BY DEF LoadInv, LoadTypes
  <2>3. \A v \in held'[u] : Known(v, inked')
    BY <2>1 DEF LoadPage, HeldKnown
  <2>4. visit[u].stage = "reading" => Shapes(rooms'[visit[u].room].rows) \in held'[u]
    BY <2>1 DEF LoadPage, LoadReads, LoadStage, RowsStand
  <2>5. DOMAIN rooms \subseteq DOMAIN rooms'
    BY DEF RowsStand
  <2> QED BY <2>1, <2>2, <2>3, <2>4, <2>5, OthersLoad
<1>5. \A u \in Visits : LoadPage(u)'
  BY <1>4
<1> QED BY <1>3, <1>5 DEF LoadInv, RowsStand

\* A page that holds nothing it loaded.
LEMMA ClosedPage ==
  ASSUME LoadInv, NEW t \in Visits, NEW after \in OpenPage, Moves(t, after),
         after.stage \notin {"reading", "open"}, after.loaded = <<>>, after.shows = <<>>,
         after.stage = "failed" \/ (after.cursor = 0 /\ after.got = <<>>),
         RowsStand, inked' = inked, stores' = stores,
         breaks' \in Nat, breaks' = 0 => breaks = 0,
         NEW V \in SUBSET held[t], held' = [held EXCEPT ![t] = V]
  PROVE  LoadInv'
<1>1. visit'[t] = after
  <2>1. visit \in [Visits -> OpenPage]
    BY DEF LoadInv, LoadTypes
  <2> QED BY <2>1, PageMoves
<1>2. V \in SUBSET Seq(Nat) /\ held'[t] = V /\ inked \in Nat
  BY DEF LoadInv, LoadTypes
<1>3. HeldKnown(t)'
  BY <1>2, VisitedPage DEF LoadPage, HeldKnown
<1>4. LoadStage(t)'
  BY <1>1 DEF LoadStage
<1>5. LoadReads(t)'
  BY <1>1 DEF LoadReads
<1>6. LoadShows(t)'
  <2>1. Known(<<>>, inked')
    BY <1>2, EmptyKnown
  <2> QED BY <1>1, <2>1 DEF LoadShows
<1>7. LoadPage(t)'
  BY <1>3, <1>4, <1>5, <1>6 DEF LoadPage
<1> QED BY <1>2, <1>7, LoadStep

LEMMA HeldSame ==
  ASSUME LoadInv, NEW t \in Visits, held' = held
  PROVE  held' = [held EXCEPT ![t] = held[t]]
  BY DEF LoadInv, LoadTypes

\* A page that goes on to another stage without reading.
LEMMA LoadPasses ==
  ASSUME LoadInv, NEW t \in Visits,
         NEW stage \in {"create", "again", "resolve", "failed", "denied"}, Steps(t, stage),
         visit[t].stage \in {"lookup", "create", "again", "resolve"}
           \/ (visit[t].stage = "reading" /\ stage = "failed"),
         RowsStand, inked' = inked, stores' = stores, held' = held,
         breaks' \in Nat, breaks' = 0 => breaks = 0
  PROVE  LoadInv'
<1> DEFINE p == visit[t]
           after == [p EXCEPT !.stage = stage]
<1>1. p \in OpenPage /\ LoadStage(t)
  BY VisitedPage DEF LoadPage
<1>2. p.loaded = <<>> /\ p.shows = <<>> /\ (p.stage # "reading" => p.cursor = 0 /\ p.got = <<>>)
  BY <1>1 DEF LoadStage
<1>3. Moves(t, after)
  BY DEF Steps
<1>4. held' = [held EXCEPT ![t] = held[t]]
  BY HeldSame
<1>5. p.stage # "reading" \/ stage = "failed"
  OBVIOUS
<1> HIDE DEF p
<1>6. /\ after \in OpenPage /\ after.stage = stage /\ after.loaded = p.loaded
      /\ after.shows = p.shows /\ after.cursor = p.cursor /\ after.got = p.got
  BY <1>1 DEF OpenPage
<1> HIDE DEF after
<1>7. held[t] \in SUBSET held[t]
  OBVIOUS
<1>8. /\ after.stage \notin {"reading", "open"} /\ after.loaded = <<>> /\ after.shows = <<>>
      /\ after.stage = "failed" \/ (after.cursor = 0 /\ after.got = <<>>)
  BY <1>2, <1>5, <1>6
<1> QED BY <1>3, <1>4, <1>6, <1>7, <1>8, ClosedPage

\* A page that begins to read a room.
LEMMA LoadBeginsIn ==
  ASSUME LoadInv, NEW t \in Visits, NEW id \in DOMAIN rooms, Reads(t, id),
         visit[t].stage \in {"lookup", "again", "resolve"},
         rooms' = rooms, inked' = inked, stores' = stores, breaks' = breaks
  PROVE  LoadInv'
<1> DEFINE p == visit[t]
           after == [p EXCEPT !.stage = "reading", !.room = id]
           v == Shapes(rooms[id].rows)
           V == {v}
<1>1. p \in OpenPage /\ LoadStage(t) /\ id \in Nat /\ v \in Seq(Nat) /\ Known(v, inked)
  BY VisitedPage, RowsOf DEF LoadPage
<1>2. p.loaded = <<>> /\ p.shows = <<>> /\ p.cursor = 0 /\ p.got = <<>>
  BY <1>1 DEF LoadStage
<1>3. Moves(t, after) /\ held' = [held EXCEPT ![t] = V]
  BY DEF Reads
<1> HIDE DEF p, v
<1>4. /\ after \in OpenPage /\ after.stage = "reading" /\ after.loaded = p.loaded
      /\ after.shows = p.shows /\ after.cursor = p.cursor /\ after.got = p.got /\ after.room = id
  BY <1>1 DEF OpenPage
<1>5. V \in SUBSET Seq(Nat) /\ v \in V /\ \A w \in V : w = v
  BY <1>1
<1> HIDE DEF after, V
<1>6. visit'[t] = after /\ held'[t] = V /\ inked \in Nat /\ breaks \in Nat
  <2>1. visit \in [Visits -> OpenPage]
    BY DEF LoadInv, LoadTypes
  <2>2. visit'[t] = after
    BY <1>3, <1>4, <2>1, PageMoves
  <2> QED BY <1>3, <2>2 DEF LoadInv, LoadTypes
<1>7. HeldKnown(t)'
  BY <1>1, <1>5, <1>6 DEF HeldKnown
<1>8. LoadStage(t)'
  BY <1>2, <1>4, <1>6 DEF LoadStage
<1>9. LoadReads(t)'
  <2>1. Shapes(rooms'[id].rows) \in held'[t]
    BY <1>5, <1>6 DEF v
  <2>2. FromOf(<<>>, held'[t])
    BY <1>6, EmptyKnown
  <2> QED BY <1>2, <1>4, <1>6, <2>1, <2>2 DEF LoadReads
<1>10. LoadShows(t)'
  <2>1. Known(<<>>, inked')
    BY <1>6, EmptyKnown
  <2> QED BY <1>2, <1>4, <1>6, <2>1 DEF LoadShows
<1>11. LoadPage(t)'
  BY <1>7, <1>8, <1>9, <1>10 DEF LoadPage
<1>12. RowsStand
  BY RowsSame
<1> QED BY <1>3, <1>4, <1>5, <1>6, <1>11, <1>12, LoadStep

\* What a load reads last is on the canvas.
LEMMA LoadEnds ==
  ASSUME LoadInv, NEW t \in Visits, visit[t].stage \in {"reading", "open"},
         NEW got \in Seq(Nat), Hydrates(t, got),
         NEW V \in SUBSET Seq(Nat), held' = [held EXCEPT ![t] = V],
         \A v \in V : Known(v, inked), FromOf(got, V), breaks' = 0 => LedBy(got, V),
         rooms' = rooms, inked' = inked, stores' = stores,
         breaks' \in Nat, breaks' = 0 => breaks = 0
  PROVE  LoadInv'
<1> DEFINE p == visit[t]
           new == Unrepeated(got)
           after == [p EXCEPT !.stage = "open", !.cursor = 0, !.got = <<>>,
                      !.loaded = new, !.shows = new]
<1>1. p \in OpenPage /\ LoadStage(t) /\ inked \in Nat
  BY VisitedPage DEF LoadPage, LoadInv, LoadTypes
<1>2. p.room \in DOMAIN rooms
  BY <1>1 DEF LoadStage
<1>3. Known(new, inked) /\ FromOf(new, V) /\ (LedBy(got, V) => LedBy(new, V))
  BY <1>1, HydrateFacts
<1>4. new \in Seq(Nat)
  BY <1>3 DEF Known
<1>5. Moves(t, after)
  BY DEF Hydrates
<1> HIDE DEF p, new
<1>6. /\ after \in OpenPage /\ after.stage = "open" /\ after.room = p.room
      /\ after.cursor = 0 /\ after.got = <<>> /\ after.loaded = new /\ after.shows = new
  <2>1. /\ p.slug \in Slugs \cup {"none"} /\ p.handle \in BOOLEAN /\ p.room \in Nat
        /\ p = [stage |-> p.stage, slug |-> p.slug, handle |-> p.handle, room |-> p.room,
                cursor |-> p.cursor, got |-> p.got, loaded |-> p.loaded, shows |-> p.shows]
    BY <1>1 DEF OpenPage
  <2>2. after = [p EXCEPT !.stage = "open", !.cursor = 0, !.got = <<>>,
                  !.loaded = new, !.shows = new]
    OBVIOUS
  <2> HIDE DEF after
  <2>3. after = [stage |-> "open", slug |-> p.slug, handle |-> p.handle, room |-> p.room,
                cursor |-> 0, got |-> <<>>, loaded |-> new, shows |-> new]
    BY <2>1, <2>2
  <2>4. <<>> \in Seq(Nat)
    OBVIOUS
  <2> QED BY <1>4, <2>1, <2>3, <2>4 DEF OpenPage
<1> HIDE DEF after
<1>7. visit'[t] = after /\ held'[t] = V
  <2>1. visit \in [Visits -> OpenPage]
    BY DEF LoadInv, LoadTypes
  <2>2. visit'[t] = after
    BY <1>5, <1>6, <2>1, PageMoves
  <2> QED BY <2>2 DEF LoadInv, LoadTypes
<1>8. HeldKnown(t)'
  BY <1>7 DEF HeldKnown
<1>9. LoadStage(t)'
  BY <1>2, <1>6, <1>7 DEF LoadStage, p
<1>10. LoadReads(t)'
  BY <1>6, <1>7 DEF LoadReads
<1>11. LoadShows(t)'
  BY <1>3, <1>6, <1>7 DEF LoadShows
<1>12. LoadPage(t)'
  BY <1>8, <1>9, <1>10, <1>11 DEF LoadPage
<1>13. RowsStand
  BY RowsSame
<1> QED BY <1>5, <1>6, <1>12, <1>13, LoadStep

----------------------------------------------------------------------------
LEMMA LoadBreaks ==
  ASSUME LoadInv
  PROVE  breaks \in Nat /\ (breaks' = breaks => breaks' \in Nat)
         /\ (breaks' = breaks + 1 => breaks' \in Nat /\ breaks' # 0)
<1>1. breaks \in Nat
  BY DEF LoadInv, LoadTypes
<1> QED BY <1>1

LEMMA AwayIsOpenPage ==
  Away \in OpenPage /\ Away.stage = "away" /\ Away.loaded = <<>> /\ Away.shows = <<>>
    /\ Away.cursor = 0 /\ Away.got = <<>>
  BY DEF Away, OpenPage

LEMMA VisitLoads ==
  ASSUME LoadInv, NEW t \in Visits, NEW slug \in Slugs, NEW handle \in BOOLEAN,
         Visit(t, slug, handle)
  PROVE  LoadInv'
<1> DEFINE after == [Away EXCEPT !.stage = "lookup", !.slug = slug, !.handle = handle]
<1>1. /\ after \in OpenPage /\ after.stage = "lookup" /\ after.loaded = <<>> /\ after.shows = <<>>
      /\ after.cursor = 0 /\ after.got = <<>>
  BY AwayIsOpenPage DEF OpenPage
<1>2. Moves(t, after) /\ rooms' = rooms /\ inked' = inked /\ stores' = stores
      /\ breaks' = breaks /\ held' = held
  BY DEF Visit, RoomsStand
<1> HIDE DEF after
<1>3. RowsStand /\ held' = [held EXCEPT ![t] = held[t]] /\ breaks' \in Nat
  BY <1>2, RowsSame, HeldSame, LoadBreaks
<1>4. held[t] \in SUBSET held[t]
  OBVIOUS
<1> QED BY <1>1, <1>2, <1>3, <1>4, ClosedPage

LEMMA GoAwayLoads ==
  ASSUME LoadInv, NEW t \in Visits, GoAway(t)
  PROVE  LoadInv'
<1>1. Moves(t, Away) /\ rooms' = rooms /\ inked' = inked /\ stores' = stores
      /\ breaks' = breaks /\ held' = [held EXCEPT ![t] = {}]
  BY DEF GoAway, RoomsStand
<1>2. RowsStand /\ breaks' \in Nat
  BY <1>1, RowsSame, LoadBreaks
<1>3. {} \in SUBSET held[t]
  OBVIOUS
<1> QED BY <1>1, <1>2, <1>3, AwayIsOpenPage, ClosedPage

LEMMA LookupLoads ==
  ASSUME LoadInv, NEW t \in Visits, Lookup(t)
  PROVE  LoadInv'
<1>1. /\ rooms' = rooms /\ inked' = inked /\ stores' = stores /\ breaks' = breaks
      /\ visit[t].stage \in {"lookup", "again"}
  BY DEF Lookup, RoomsStand
<1>2. RowsStand /\ breaks' \in Nat
  BY <1>1, RowsSame, LoadBreaks
<1>3. CASE Named(visit[t].slug) # {}
  <2>1. PICK id \in Named(visit[t].slug) : Found(t, id)
    BY <1>3 DEF Lookup
  <2>2. id \in DOMAIN rooms
    BY DEF Named
  <2>3. CASE Reads(t, id)
    BY <1>1, <2>2, <2>3, LoadBeginsIn
  <2>4. CASE Steps(t, "resolve") /\ held' = held
    BY <1>1, <1>2, <2>4, LoadPasses
  <2> QED BY <2>1, <2>3, <2>4 DEF Found
<1>4. CASE Named(visit[t].slug) = {}
  <2>1. /\ Steps(t, IF visit[t].stage = "lookup" THEN "create" ELSE "failed")
        /\ held' = held
    BY <1>4 DEF Lookup
  <2>2. CASE visit[t].stage = "lookup"
    BY <1>1, <1>2, <2>1, <2>2, LoadPasses
  <2>3. CASE visit[t].stage = "again"
    BY <1>1, <1>2, <2>1, <2>3, LoadPasses
  <2> QED BY <1>1, <2>2, <2>3
<1> QED BY <1>3, <1>4

LEMMA ResolveLoads ==
  ASSUME LoadInv, NEW t \in Visits, Resolve(t)
  PROVE  LoadInv'
<1>1. /\ rooms' = rooms /\ inked' = inked /\ stores' = stores /\ breaks' = breaks
      /\ visit[t].stage = "resolve"
  BY DEF Resolve, RoomsStand
<1>2. RowsStand /\ breaks' \in Nat
  BY <1>1, RowsSame, LoadBreaks
<1>3. CASE Named(visit[t].slug) # {}
  <2>1. PICK id \in Named(visit[t].slug) : Reads(t, id)
    BY <1>3 DEF Resolve
  <2>2. id \in DOMAIN rooms
    BY DEF Named
  <2> QED BY <1>1, <2>1, <2>2, LoadBeginsIn
<1>4. CASE Named(visit[t].slug) = {}
  <2>1. Steps(t, "denied") /\ held' = held
    BY <1>4 DEF Resolve
  <2> QED BY <1>1, <1>2, <2>1, LoadPasses
<1> QED BY <1>3, <1>4

LEMMA OpenFailsLoads ==
  ASSUME LoadInv, NEW t \in Visits, OpenFails(t)
  PROVE  LoadInv'
<1>1. /\ rooms' = rooms /\ inked' = inked /\ stores' = stores /\ breaks' = breaks + 1
      /\ visit[t].stage \in {"lookup", "create", "again", "resolve", "reading"}
      /\ Steps(t, "failed") /\ held' = held
  BY DEF OpenFails, RoomsStand
<1>2. RowsStand /\ breaks' \in Nat /\ breaks' # 0
  BY <1>1, RowsSame, LoadBreaks
<1> QED BY <1>1, <1>2, LoadPasses

\* The row of a room that is created has no shapes.
LEMMA RowsCreated ==
  ASSUME LoadInv, NEW slug \in Slugs \cup {"none"}, inked' = inked,
         rooms' = Append(rooms, [slug |-> slug, rows |-> <<>>])
  PROVE  RowsStand /\ Len(rooms) + 1 \in DOMAIN rooms' /\ Len(rooms) + 1 \in Nat
<1> DEFINE row == [slug |-> slug, rows |-> <<>>]
           l == Len(rooms)
<1>1. row \in OpenRoom /\ row.rows = <<>>
  BY DEF OpenRoom
<1>2. rooms \in Seq(OpenRoom) /\ inked \in Nat /\ l \in Nat /\ DOMAIN rooms = 1..l
  BY LenProperties DEF LoadInv, LoadTypes
<1> HIDE DEF row
<1>3. /\ rooms' \in Seq(OpenRoom) /\ Len(rooms') = l + 1 /\ rooms'[l + 1] = row
      /\ \A i \in 1..l : rooms'[i] = rooms[i]
  BY <1>1, <1>2, AppendProperties DEF row
<1> HIDE DEF l
<1>4. DOMAIN rooms' = 1..(l + 1)
  BY <1>3, LenProperties
<1>5. DOMAIN rooms \subseteq DOMAIN rooms' /\ l + 1 \in DOMAIN rooms' /\ l + 1 \in Nat
  BY <1>2, <1>4
<1>6. RowsKnown'
  <2> SUFFICES ASSUME NEW i \in DOMAIN rooms' PROVE Known(Shapes(rooms'[i].rows), inked')
    BY DEF RowsKnown
  <2>1. CASE i \in 1..l
    BY <1>2, <1>3, <2>1 DEF LoadInv, RowsKnown
  <2>2. CASE i = l + 1
    <3>1. Shapes(<<>>) = <<>>
      BY DEF Shapes
    <3>2. rooms'[i].rows = <<>>
      BY <1>1, <1>3, <2>2
    <3>3. Known(<<>>, inked')
      BY <1>2, EmptyKnown
    <3> QED BY <3>1, <3>2, <3>3
  <2> QED BY <1>2, <1>4, <2>1, <2>2
<1>7. \A i \in DOMAIN rooms : rooms'[i].rows = rooms[i].rows
  BY <1>2, <1>3
<1> QED BY <1>3, <1>5, <1>6, <1>7 DEF RowsStand, l

LEMMA CreateLoads ==
  ASSUME LoadInv, NEW t \in Visits, CreateRoom(t)
  PROVE  LoadInv'
<1>1. inked' = inked /\ stores' = stores /\ breaks' = breaks /\ visit[t].stage = "create"
  BY DEF CreateRoom
<1>2. breaks' \in Nat /\ breaks \in Nat /\ inked \in Nat
  BY <1>1, LoadBreaks DEF LoadInv, LoadTypes
<1>3. CASE Named(visit[t].slug) # {}
  <2>1. Steps(t, "again") /\ rooms' = rooms /\ held' = held
    BY <1>3 DEF CreateRoom
  <2>2. RowsStand
    BY <1>1, <2>1, RowsSame
  <2> QED BY <1>1, <1>2, <2>1, <2>2, LoadPasses
<1>4. CASE Named(visit[t].slug) = {}
  <2> DEFINE id == Len(rooms) + 1
             p == visit[t]
             after == [p EXCEPT !.stage = "open", !.room = id]
             V == {<<>>}
  <2>1. rooms' = Append(rooms, [slug |-> visit[t].slug, rows |-> <<>>])
    BY <1>4 DEF CreateRoom
  <2>2. RowsStand /\ id \in DOMAIN rooms' /\ id \in Nat
    BY <1>1, <2>1, VisitedPage, RowsCreated
  <2>3. CASE Steps(t, "resolve") /\ held' = held
    BY <1>1, <1>2, <2>2, <2>3, LoadPasses
  <2>4. CASE Moves(t, after) /\ held' = [held EXCEPT ![t] = V]
    <3>1. p \in OpenPage /\ LoadStage(t)
      BY VisitedPage DEF LoadPage
    <3>2. p.loaded = <<>> /\ p.shows = <<>> /\ p.cursor = 0 /\ p.got = <<>>
      BY <1>1, <3>1 DEF LoadStage
    <3>3. V \in SUBSET Seq(Nat) /\ <<>> \in V /\ \A w \in V : w = <<>>
      OBVIOUS
    <3> HIDE DEF p, id, V
    <3>4. /\ after \in OpenPage /\ after.stage = "open" /\ after.loaded = p.loaded
          /\ after.shows = p.shows /\ after.cursor = p.cursor /\ after.got = p.got
          /\ after.room = id
      BY <2>2, <3>1 DEF OpenPage
    <3> HIDE DEF after
    <3>5. visit'[t] = after /\ held'[t] = V
      <4>1. visit \in [Visits -> OpenPage]
        BY DEF LoadInv, LoadTypes
      <4>2. visit'[t] = after
        BY <2>4, <3>4, <4>1, PageMoves
      <4> QED BY <2>4, <4>2 DEF LoadInv, LoadTypes
    <3>6. Known(<<>>, inked') /\ FromOf(<<>>, V)
      BY <1>1, <1>2, EmptyKnown
    <3>7. LedBy(<<>>, V)
      <4>1. <<>> \in Seq(Nat) /\ Len(<<>>) = 0
        OBVIOUS
      <4>2. Fore(<<>>) = 0
        BY <4>1, RoomOpenAssumption DEF Fore
      <4>3. Leads(<<>>, <<>>)
        BY <4>1, <4>2 DEF Leads
      <4> QED BY <3>3, <4>3 DEF LedBy
    <3>8. HeldKnown(t)'
      BY <3>3, <3>5, <3>6 DEF HeldKnown
    <3>9. LoadStage(t)'
      BY <2>2, <3>2, <3>4, <3>5 DEF LoadStage
    <3>10. LoadReads(t)'
      BY <3>4, <3>5 DEF LoadReads
    <3>11. LoadShows(t)'
      BY <3>2, <3>4, <3>5, <3>6, <3>7 DEF LoadShows
    <3>12. LoadPage(t)'
      BY <3>8, <3>9, <3>10, <3>11 DEF LoadPage
    <3> QED BY <1>1, <1>2, <2>2, <2>4, <3>3, <3>4, <3>12, LoadStep
  <2> QED BY <1>4, <2>3, <2>4 DEF CreateRoom
<1> QED BY <1>3, <1>4

LEMMA ReadNothingLoads ==
  ASSUME LoadInv, NEW t \in Visits, ReadNothing(t)
  PROVE  LoadInv'
<1> DEFINE got == visit[t].got
<1>1. /\ rooms' = rooms /\ inked' = inked /\ stores' = stores /\ breaks' = breaks + 1
      /\ visit[t].stage = "reading" /\ Hydrates(t, got) /\ held' = held
  BY DEF ReadNothing, RoomsStand
<1>2. breaks' \in Nat /\ breaks' # 0
  BY <1>1, LoadBreaks
<1>3. got \in Seq(Nat) /\ held[t] \in SUBSET Seq(Nat) /\ LoadPage(t)
  BY VisitedPage
<1>4. FromOf(got, held[t]) /\ \A v \in held[t] : Known(v, inked)
  BY <1>1, <1>3 DEF LoadPage, LoadReads, HeldKnown
<1>5. held' = [held EXCEPT ![t] = held[t]]
  BY <1>1, HeldSame
<1> HIDE DEF got
<1> QED BY <1>1, <1>2, <1>3, <1>4, <1>5, LoadEnds

LEMMA ReloadLoads ==
  ASSUME LoadInv, NEW t \in Visits, ReloadCanvas(t)
  PROVE  LoadInv'
<1> DEFINE table == rooms[visit[t].room].rows
           got == PageOf(table, 0, DefaultPage).shapes
           v == Shapes(table)
           V == {v}
<1>1. /\ rooms' = rooms /\ inked' = inked /\ stores' = stores /\ breaks' = breaks
      /\ visit[t].stage = "open" /\ Hydrates(t, got) /\ held' = [held EXCEPT ![t] = V]
  BY DEF ReloadCanvas, RoomsStand
<1>2. breaks' \in Nat
  BY <1>1, LoadBreaks
<1>3. visit[t].room \in DOMAIN rooms
  BY <1>1, VisitedPage DEF LoadPage, LoadStage
<1>4. table \in Seq(SavedRow) /\ Known(v, inked) /\ v \in Seq(Nat)
  BY <1>3, RowsOf
<1>5. DefaultPage \in Nat \ {0} /\ PageSize <= DefaultPage /\ 0 \in Nat
  BY RoomOpenAssumption
<1> HIDE DEF table
<1>6. got \in Seq(Nat) /\ FromOf(got, V) /\ Leads(v, got)
  BY <1>4, <1>5, PageFacts, FirstPageLeads
<1>7. LedBy(got, V) /\ V \in SUBSET Seq(Nat) /\ \A w \in V : Known(w, inked)
  BY <1>4, <1>6 DEF LedBy
<1> HIDE DEF got, v, V
<1> QED BY <1>1, <1>2, <1>6, <1>7, LoadEnds

LEMMA ReadPageLoads ==
  ASSUME LoadInv, NEW t \in Visits, ReadPage(t)
  PROVE  LoadInv'
<1> DEFINE p == visit[t]
           table == rooms[p.room].rows
           v == Shapes(table)
           V == held[t]
           part == PageOf(table, p.cursor, PageSize)
           more == part.shapes
           next == part.next
           got == p.got \o more
           after == [p EXCEPT !.cursor = next, !.got = got]
<1>1. /\ rooms' = rooms /\ inked' = inked /\ stores' = stores /\ breaks' = breaks
      /\ p.stage = "reading" /\ held' = held
      /\ Hydrates(t, got) \/ Moves(t, after)
  BY DEF ReadPage, RoomsStand
<1>2. breaks' \in Nat /\ inked \in Nat
  BY <1>1, LoadBreaks DEF LoadInv, LoadTypes
<1>3. p \in OpenPage /\ p.cursor \in Nat /\ p.got \in Seq(Nat) /\ V \in SUBSET Seq(Nat) /\ LoadPage(t)
  BY VisitedPage
<1>4. p.room \in DOMAIN rooms /\ p.loaded = <<>> /\ p.shows = <<>>
  BY <1>1, <1>3 DEF LoadPage, LoadStage
<1>5. table \in Seq(SavedRow) /\ v \in Seq(Nat)
  BY <1>4, RowsOf
<1>6. v \in V /\ FromOf(p.got, V) /\ (p.cursor # 0 \/ p.got # <<>> => LedBy(p.got, V))
  BY <1>1, <1>3 DEF LoadPage, LoadReads
<1>7. \A w \in V : Known(w, inked)
  BY <1>3 DEF LoadPage, HeldKnown
<1>8. PageSize \in Nat \ {0} /\ PageSize <= PageSize
  BY RoomOpenAssumption
<1>9. held' = [held EXCEPT ![t] = V]
  BY <1>1, HeldSame
<1>10. LoadStage(t)
  BY <1>3 DEF LoadPage
<1> HIDE DEF table, V, p
<1>11. more \in Seq(Nat) /\ next \in Nat /\ FromOf(more, {v})
  BY <1>3, <1>5, <1>8, PageFacts
<1>12. p.cursor = 0 => Leads(v, more)
  <2> SUFFICES ASSUME p.cursor = 0 PROVE Leads(v, more)
    OBVIOUS
  <2>1. Leads(Shapes(table), PageOf(table, 0, PageSize).shapes)
    BY <1>5, <1>8, FirstPageLeads
  <2> QED BY <2>1
<1> HIDE DEF v, part, more, next
<1>13. FromOf(more, V)
  <2>1. {v} \subseteq V
    BY <1>6
  <2> QED BY <1>11, <2>1, FromWider
<1>14. got \in Seq(Nat) /\ FromOf(got, V)
  <2>1. got \in Seq(Nat)
    BY <1>3, <1>11, ConcatProperties
  <2> QED BY <1>3, <1>6, <1>11, <1>13, <2>1, FromBoth
<1>15. LedBy(got, V)
  <2>1. CASE p.cursor # 0 \/ p.got # <<>>
    <3>1. PICK w \in V : Leads(w, p.got)
      BY <1>6, <2>1 DEF LedBy
    <3>2. Leads(w, got)
      BY <1>3, <1>11, <3>1, LeadsOn
    <3> QED BY <3>2 DEF LedBy
  <2>2. CASE p.cursor = 0 /\ p.got = <<>>
    <3>1. got = more
      BY <1>11, <2>2, ConcatProperties
    <3>2. Leads(v, got)
      BY <1>12, <2>2, <3>1
    <3> HIDE DEF got
    <3> QED BY <1>6, <3>2 DEF LedBy
  <2> QED BY <2>1, <2>2
<1> HIDE DEF got
<1>16. CASE Hydrates(t, got)
  <2>1. visit[t].stage \in {"reading", "open"}
    BY <1>1 DEF p
  <2> QED BY <1>1, <1>2, <1>3, <1>7, <1>9, <1>14, <1>15, <1>16, <2>1, LoadEnds
<1>17. CASE Moves(t, after)
  <2>1. /\ after \in OpenPage /\ after.stage = p.stage /\ after.loaded = p.loaded
        /\ after.shows = p.shows /\ after.cursor = next /\ after.got = got
        /\ after.room = p.room
    BY <1>3, <1>11, <1>14 DEF OpenPage
  <2> HIDE DEF after
  <2>2. visit'[t] = after /\ held'[t] = V
    <3>1. visit \in [Visits -> OpenPage]
      BY DEF LoadInv, LoadTypes
    <3>2. visit'[t] = after
      BY <1>17, <2>1, <3>1, PageMoves
    <3> QED BY <1>1, <3>2 DEF V
  <2>3. HeldKnown(t)'
    BY <1>1, <1>7, <2>2 DEF HeldKnown
  <2>4. LoadStage(t)'
    BY <1>1, <1>4, <2>1, <2>2 DEF LoadStage
  <2>5. LoadReads(t)'
    <3>1. Shapes(rooms'[visit'[t].room].rows) \in held'[t]
      BY <1>1, <1>6, <2>1, <2>2 DEF v, table
    <3>2. FromOf(visit'[t].got, held'[t]) /\ LedBy(visit'[t].got, held'[t])
      BY <1>14, <1>15, <2>1, <2>2
    <3> QED BY <3>1, <3>2 DEF LoadReads
  <2>6. LoadShows(t)'
    <3>1. Known(<<>>, inked')
      BY <1>1, <1>2, EmptyKnown
    <3> QED BY <1>1, <1>4, <2>1, <2>2, <3>1 DEF LoadShows
  <2>7. LoadPage(t)'
    BY <2>3, <2>4, <2>5, <2>6 DEF LoadPage
  <2>8. RowsStand
    BY <1>1, RowsSame
  <2> QED BY <1>1, <1>2, <1>3, <1>9, <1>17, <2>1, <2>7, <2>8, LoadStep
<1> QED BY <1>1, <1>16, <1>17

LEMMA ConcatParts ==
  ASSUME NEW a \in Seq(Nat), NEW b \in Seq(Nat)
  PROVE  /\ a \o b \in Seq(Nat) /\ Len(a \o b) = Len(a) + Len(b)
         /\ \A k \in 1..Len(a) : (a \o b)[k] = a[k]
         /\ \A k \in 1..Len(b) : (a \o b)[Len(a) + k] = b[k]
  BY ConcatProperties

\* The shapes of a save: what the canvas kept and what was drawn on it since.
LEMMA DrawnKnown ==
  ASSUME NEW kept, NEW base \in Nat, Known(kept, base), NEW n \in Nat
  PROVE  Known(kept \o [i \in 1..n |-> base + i], base + n)
<1> DEFINE d == [i \in 1..n |-> base + i]
           s == kept \o d
           l == Len(kept)
<1>1. d \in Seq(Nat) /\ Len(d) = n
  <2>1. d \in [1..n -> Nat] /\ DOMAIN d = 1..n
    OBVIOUS
  <2> HIDE DEF d
  <2>2. d \in Seq(Nat)
    BY <2>1, SeqDef
  <2> QED BY <2>1, <2>2, LenProperties
<1>2. \A i \in 1..n : d[i] = base + i
  OBVIOUS
<1>3. kept \in Seq(Nat) /\ Distinct(kept) /\ l \in Nat /\ DOMAIN kept = 1..l
      /\ \A k \in 1..l : kept[k] <= base /\ kept[k] \in Nat
  BY LenProperties, ElementOfSeq DEF Known
<1> HIDE DEF d
<1>4. /\ s \in Seq(Nat) /\ Len(s) = l + n
      /\ \A k \in 1..l : s[k] = kept[k]
      /\ \A k \in 1..n : s[l + k] = d[k]
  <2>1. /\ s \in Seq(Nat) /\ Len(s) = l + Len(d)
        /\ \A k \in 1..l : s[k] = kept[k]
        /\ \A k \in 1..Len(d) : s[l + k] = d[k]
    BY <1>1, <1>3, ConcatParts
  <2> HIDE DEF s, l
  <2> QED BY <1>1, <2>1
<1>5. DOMAIN s = 1..(l + n)
  BY <1>4, LenProperties
<1> HIDE DEF s, l
<1>6. \A k \in DOMAIN s :
        \/ k \in 1..l /\ s[k] = kept[k] /\ s[k] <= base /\ s[k] \in Nat
        \/ k - l \in 1..n /\ s[k] = base + (k - l)
  <2> TAKE k \in DOMAIN s
  <2>1. k \in 1..l \/ (k - l \in 1..n /\ l + (k - l) = k)
    BY <1>3, <1>5
  <2> QED BY <1>2, <1>3, <1>4, <2>1
<1>7. \A k \in DOMAIN s : s[k] <= base + n
  <2> TAKE k \in DOMAIN s
  <2> DEFINE x == s[k]
  <2>1. (x <= base /\ x \in Nat) \/ (k - l \in 1..n /\ x = base + (k - l))
    BY <1>6
  <2> HIDE DEF x
  <2>2. x <= base + n
    BY <2>1
  <2> QED BY <2>2 DEF x
<1>8. Distinct(s)
  <2> SUFFICES ASSUME NEW i \in DOMAIN s, NEW j \in DOMAIN s, s[i] = s[j] PROVE i = j
    BY DEF Distinct
  <2> DEFINE x == s[i]
  <2>1. i \in Nat /\ j \in Nat
    BY <1>3, <1>5
  <2>2. /\ \/ i \in 1..l /\ x = kept[i] /\ x <= base /\ x \in Nat
           \/ i - l \in 1..n /\ x = base + (i - l)
        /\ \/ j \in 1..l /\ x = kept[j] /\ x <= base /\ x \in Nat
           \/ j - l \in 1..n /\ x = base + (j - l)
    BY <1>6
  <2> HIDE DEF x
  <2>3. CASE i \in 1..l /\ j \in 1..l /\ x = kept[i] /\ x = kept[j]
    BY <1>3, <2>3 DEF Distinct
  <2>4. CASE i - l \in 1..n /\ x = base + (i - l)
    BY <1>3, <2>1, <2>2, <2>4
  <2>5. CASE j - l \in 1..n /\ x = base + (j - l)
    BY <1>3, <2>1, <2>2, <2>5
  <2> QED BY <2>2, <2>3, <2>4, <2>5
<1> QED BY <1>4, <1>7, <1>8 DEF Known, s, d

\* The rows of a save.
LEMMA SavedRows ==
  ASSUME NEW shapes \in Seq(Nat), NEW at \in Nat \ {0}
  PROVE  LET saved == [i \in DOMAIN shapes |-> [shape |-> shapes[i], at |-> at]]
         IN  saved \in Seq(SavedRow) /\ Shapes(saved) = shapes
<1> DEFINE saved == [i \in DOMAIN shapes |-> [shape |-> shapes[i], at |-> at]]
           l == Len(shapes)
<1>1. l \in Nat /\ DOMAIN shapes = 1..l /\ \A i \in 1..l : shapes[i] \in Nat
  BY LenProperties, ElementOfSeq
<1>2. \A i \in 1..l : [shape |-> shapes[i], at |-> at] \in SavedRow
  BY <1>1 DEF SavedRow
<1>3. saved \in Seq(SavedRow)
  <2>1. saved \in [1..l -> SavedRow]
    BY <1>1, <1>2
  <2> HIDE DEF saved
  <2> QED BY <1>1, <2>1, SeqDef
<1>4. Shapes(saved) = shapes
  <2>1. Shapes(saved) = [i \in DOMAIN shapes |-> shapes[i]]
    BY DEF Shapes
  <2>2. shapes = [i \in DOMAIN shapes |-> shapes[i]]
    <3>1. shapes \in [1..l -> Nat]
      BY <1>1, LenProperties
    <3> QED BY <3>1
  <2> QED BY <2>1, <2>2
<1> QED BY <1>3, <1>4

\* A save: the room has the shapes of the canvas, and every page that reads it
\* since then may load them.
LEMMA SaveLoads ==
  ASSUME LoadInv, NEW t \in Visits, SaveCanvas(t)
  PROVE  LoadInv'
<1> DEFINE p == visit[t]
           id == p.room
<1>1. PICK kept \in {p.shows, <<>>}, n \in 0..(MaxDrawn - inked) :
        LET shapes == kept \o [i \in 1..n |-> inked + i]
        IN  /\ Replaces(id, shapes)
            /\ Moves(t, [p EXCEPT !.shows = shapes])
            /\ inked' = inked + n
  BY DEF SaveCanvas
<1> DEFINE shapes == kept \o [i \in 1..n |-> inked + i]
           after == [p EXCEPT !.shows = shapes]
           saved == [i \in DOMAIN shapes |-> [shape |-> shapes[i], at |-> stores + 1]]
<1>2. /\ Moves(t, after) /\ inked' = inked + n
      /\ rooms' = [rooms EXCEPT ![id].rows = saved]
      /\ held' = [u \in Visits |-> IF visit[u].stage = "reading" /\ visit[u].room = id
                                   THEN held[u] \cup {shapes} ELSE held[u]]
      /\ p.stage = "open" /\ stores' = stores + 1 /\ breaks' = breaks
  BY <1>1 DEF Replaces, SaveCanvas
<1>3. inked \in Nat /\ stores \in Nat /\ breaks \in Nat /\ rooms \in Seq(OpenRoom)
      /\ visit \in [Visits -> OpenPage] /\ held \in [Visits -> SUBSET Seq(Nat)]
  BY DEF LoadInv, LoadTypes
<1>4. p \in OpenPage /\ LoadPage(t)
  BY VisitedPage
<1>5. id \in DOMAIN rooms /\ p.cursor = 0 /\ p.got = <<>>
  BY <1>2, <1>4 DEF LoadPage, LoadStage
<1>6. MaxDrawn \in Nat
  BY RoomOpenAssumption
<1>7. n \in Nat /\ inked' \in Nat /\ inked <= inked'
  BY <1>2, <1>3, <1>6
<1>8. Known(kept, inked)
  <2>1. Known(p.shows, inked)
    BY <1>4 DEF LoadPage, LoadShows
  <2> QED BY <1>3, <2>1, EmptyKnown
<1>9. Known(shapes, inked')
  BY <1>2, <1>3, <1>7, <1>8, DrawnKnown
<1>10. shapes \in Seq(Nat)
  BY <1>9 DEF Known
<1> HIDE DEF shapes
<1>11. saved \in Seq(SavedRow) /\ Shapes(saved) = shapes
  <2>1. stores + 1 \in Nat \ {0}
    BY <1>3
  <2> QED BY <1>10, <2>1, SavedRows
<1> HIDE DEF saved, p
<1>12. /\ after \in OpenPage /\ after.stage = p.stage /\ after.loaded = p.loaded
       /\ after.shows = shapes /\ after.cursor = p.cursor /\ after.got = p.got
       /\ after.room = id
  BY <1>4, <1>10 DEF OpenPage
<1> HIDE DEF after, id
<1>13. /\ visit' \in [Visits -> OpenPage] /\ visit'[t] = after
       /\ \A u \in Visits : u # t => visit'[u] = visit[u]
  BY <1>2, <1>3, <1>12, PageMoves
<1>14. /\ rooms' \in Seq(OpenRoom) /\ DOMAIN rooms' = DOMAIN rooms
       /\ rooms'[id].rows = saved
       /\ \A i \in DOMAIN rooms : i # id => rooms'[i] = rooms[i]
  <2> DEFINE row == [rooms[id] EXCEPT !.rows = saved]
             old == rooms[id]
  <2>1. old \in OpenRoom
    BY <1>5, RowsOf
  <2> HIDE DEF old
  <2>2. row = [old EXCEPT !.rows = saved]
    BY DEF old
  <2>3. rooms' = [rooms EXCEPT ![id] = row]
    BY <1>2
  <2> HIDE DEF row
  <2>4. row \in OpenRoom /\ row.rows = saved
    BY <1>11, <2>1, <2>2 DEF OpenRoom
  <2> QED BY <1>3, <1>5, <2>3, <2>4
<1>15. RowsKnown'
  <2> SUFFICES ASSUME NEW i \in DOMAIN rooms PROVE Known(Shapes(rooms'[i].rows), inked')
    BY <1>14 DEF RowsKnown
  <2>1. CASE i = id
    BY <1>9, <1>11, <1>14, <2>1
  <2>2. CASE i # id
    <3>1. Known(Shapes(rooms[i].rows), inked)
      BY DEF LoadInv, RowsKnown
    <3>2. rooms'[i] = rooms[i]
      BY <1>14, <2>2
    <3>3. Known(Shapes(rooms[i].rows), inked')
      BY <1>3, <1>7, <3>1, KnownOn
    <3> QED BY <3>2, <3>3
  <2> QED BY <2>1, <2>2
<1>16. \A u \in Visits :
         /\ held'[u] \in SUBSET Seq(Nat) /\ held[u] \subseteq held'[u]
         /\ \A v \in held'[u] : v \in held[u] \/ v = shapes
         /\ visit[u].stage = "reading" /\ visit[u].room = id => shapes \in held'[u]
  BY <1>2, <1>3, <1>10
<1>17. held' \in [Visits -> SUBSET Seq(Nat)]
  <2>1. held' = [u \in Visits |-> held'[u]]
    BY <1>2
  <2> QED BY <1>16, <2>1
<1>18. LoadTypes'
  <2>1. stores' \in Nat
    BY <1>2, <1>3
  <2> QED BY <1>2, <1>3, <1>7, <1>13, <1>14, <1>17, <2>1 DEF LoadTypes
<1>19. \A u \in Visits : \A v \in held'[u] : Known(v, inked')
  <2> TAKE u \in Visits
  <2> TAKE v \in held'[u]
  <2>1. CASE v \in held[u]
    <3>1. Known(v, inked)
      BY <2>1, VisitedPage DEF LoadPage, HeldKnown
    <3> QED BY <1>3, <1>7, <3>1, KnownOn
  <2>2. CASE v = shapes
    BY <1>9, <2>2
  <2> QED BY <1>16, <2>1, <2>2
<1>20. ASSUME NEW u \in Visits, u # t PROVE LoadPage(u)'
  <2>1. visit'[u] = visit[u] /\ LoadPage(u) /\ held[u] \subseteq held'[u]
    BY <1>13, <1>16, <1>20, VisitedPage
  <2>2. DOMAIN rooms \subseteq DOMAIN rooms'
    BY <1>14
  <2>3. ASSUME visit[u].stage = "reading"
        PROVE  Shapes(rooms'[visit[u].room].rows) \in held'[u]
    <3>1. visit[u].room \in DOMAIN rooms /\ Shapes(rooms[visit[u].room].rows) \in held[u]
      BY <2>1, <2>3 DEF LoadPage, LoadStage, LoadReads
    <3>2. CASE visit[u].room = id
      BY <1>11, <1>14, <1>16, <2>3, <3>2
    <3>3. CASE visit[u].room # id
      BY <1>14, <2>1, <3>1, <3>3
    <3> QED BY <3>2, <3>3
  <2>4. \A v \in held'[u] : Known(v, inked')
    BY <1>19
  <2>5. breaks' = 0 => breaks = 0
    BY <1>2
  <2> QED BY <1>3, <1>7, <2>1, <2>2, <2>3, <2>4, <2>5, OthersLoad
<1>21. LoadPage(t)'
  <2>1. HeldKnown(t)'
    BY <1>19 DEF HeldKnown
  <2>2. LoadStage(t)'
    BY <1>2, <1>5, <1>12, <1>13, <1>14 DEF LoadStage
  <2>3. LoadReads(t)'
    BY <1>2, <1>12, <1>13 DEF LoadReads
  <2>4. LoadShows(t)'
    <3>1. ASSUME breaks = 0
          PROVE  LedBy(p.loaded, held'[t]) /\ FromOf(p.loaded, held'[t])
      <4>1. LedBy(p.loaded, held[t]) /\ FromOf(p.loaded, held[t])
        BY <1>2, <1>4, <3>1 DEF LoadPage, LoadShows, p
      <4> QED BY <1>16, <4>1, FromWider
    <3> QED BY <1>2, <1>9, <1>12, <1>13, <3>1 DEF LoadShows
  <2> QED BY <2>1, <2>2, <2>3, <2>4 DEF LoadPage
<1>22. \A u \in Visits : LoadPage(u)'
  BY <1>20, <1>21
<1> QED BY <1>15, <1>18, <1>22 DEF LoadInv

LEMMA RenameLoads ==
  ASSUME LoadInv, NEW id \in DOMAIN rooms, NEW slug \in Slugs, Rename(id, slug)
  PROVE  LoadInv'
<1>1. /\ rooms' = [rooms EXCEPT ![id].slug = slug]
      /\ visit' = visit /\ inked' = inked /\ stores' = stores /\ breaks' = breaks /\ held' = held
  BY DEF Rename
<1>2. /\ rooms' \in Seq(OpenRoom) /\ DOMAIN rooms' = DOMAIN rooms
      /\ \A i \in DOMAIN rooms : rooms'[i].rows = rooms[i].rows
  <2> DEFINE old == rooms[id]
             row == [old EXCEPT !.slug = slug]
  <2>1. old \in OpenRoom /\ rooms \in Seq(OpenRoom)
    BY RowsOf DEF LoadInv, LoadTypes
  <2>2. rooms' = [rooms EXCEPT ![id] = row]
    BY <1>1
  <2>3. row \in OpenRoom /\ row.rows = old.rows
    <3> HIDE DEF old
    <3> QED BY <2>1 DEF OpenRoom
  <2> HIDE DEF row
  <2> QED BY <2>1, <2>2, <2>3
<1>3. RowsKnown'
  BY <1>1, <1>2 DEF LoadInv, RowsKnown
<1>4. LoadTypes'
  BY <1>1, <1>2 DEF LoadInv, LoadTypes
<1>5. ASSUME NEW u \in Visits PROVE LoadPage(u)'
  <2>1. LoadPage(u) /\ visit'[u] = visit[u] /\ held'[u] = held[u]
    BY <1>1, VisitedPage
  <2>2. inked \in Nat /\ inked' \in Nat /\ inked <= inked' /\ (breaks' = 0 => breaks = 0)
    BY <1>1 DEF LoadInv, LoadTypes
  <2>3. \A v \in held'[u] : Known(v, inked')
    BY <1>1, <2>1 DEF LoadPage, HeldKnown
  <2>4. visit[u].stage = "reading" => Shapes(rooms'[visit[u].room].rows) \in held'[u]
    BY <1>2, <2>1 DEF LoadPage, LoadStage, LoadReads
  <2> QED BY <1>2, <2>1, <2>2, <2>3, <2>4, OthersLoad
<1> QED BY <1>3, <1>4, <1>5 DEF LoadInv

LEMMA LoadStarts ==
  ASSUME OpenInit
  PROVE  LoadInv
<1>1. /\ rooms = <<>> /\ inked = 0 /\ stores = 0 /\ breaks = 0
      /\ visit = [t \in Visits |-> Away] /\ held = [t \in Visits |-> {}]
  BY DEF OpenInit
<1>2. rooms \in Seq(OpenRoom) /\ DOMAIN rooms = {}
  BY <1>1
<1>3. visit \in [Visits -> OpenPage] /\ \A t \in Visits : visit[t] = Away
  <2> DEFINE a == Away
  <2>1. a \in OpenPage /\ visit = [t \in Visits |-> a]
    BY <1>1, AwayIsOpenPage
  <2> HIDE DEF a
  <2>2. visit \in [Visits -> OpenPage] /\ \A t \in Visits : visit[t] = a
    BY <2>1
  <2> QED BY <2>2 DEF a
<1>4. held \in [Visits -> SUBSET Seq(Nat)] /\ \A t \in Visits : held[t] = {}
  BY <1>1
<1>5. LoadTypes /\ RowsKnown
  BY <1>1, <1>2, <1>3, <1>4 DEF LoadTypes, RowsKnown
<1>6. ASSUME NEW t \in Visits PROVE LoadPage(t)
  <2>1. HeldKnown(t)
    BY <1>4 DEF HeldKnown
  <2>2. LoadStage(t) /\ LoadReads(t)
    BY <1>3, AwayIsOpenPage DEF LoadStage, LoadReads
  <2>3. LoadShows(t)
    <3>1. Known(<<>>, inked)
      BY <1>1, EmptyKnown
    <3> QED BY <1>3, <3>1, AwayIsOpenPage DEF LoadShows
  <2> QED BY <2>1, <2>2, <2>3 DEF LoadPage
<1> QED BY <1>5, <1>6 DEF LoadInv

LEMMA LoadStays ==
  ASSUME LoadInv, UNCHANGED openVars
  PROVE  LoadInv'
<1>1. /\ rooms' = rooms /\ visit' = visit /\ inked' = inked /\ stores' = stores
      /\ breaks' = breaks /\ held' = held
  BY DEF openVars
<1>2. LoadTypes'
  BY <1>1 DEF LoadInv, LoadTypes
<1>3. RowsKnown'
  BY <1>1 DEF LoadInv, RowsKnown
<1>4. ASSUME NEW t \in Visits PROVE LoadPage(t)'
  <2>1. LoadPage(t)
    BY VisitedPage
  <2> QED BY <1>1, <2>1 DEF LoadPage, HeldKnown, LoadStage, LoadReads, LoadShows
<1> QED BY <1>2, <1>3, <1>4 DEF LoadInv

LEMMA LoadSteps ==
  ASSUME LoadInv, [OpenNext]_openVars
  PROVE  LoadInv'
<1>1. ASSUME NEW t \in Visits, \/ Lookup(t) \/ CreateRoom(t) \/ Resolve(t) \/ OpenFails(t)
                               \/ ReadPage(t) \/ ReadNothing(t) \/ SaveCanvas(t)
                               \/ ReloadCanvas(t) \/ GoAway(t)
      PROVE  LoadInv'
  BY <1>1, LookupLoads, CreateLoads, ResolveLoads, OpenFailsLoads, ReadPageLoads,
     ReadNothingLoads, SaveLoads, ReloadLoads, GoAwayLoads
<1>2. ASSUME NEW t \in Visits, NEW slug \in Slugs, NEW handle \in BOOLEAN, Visit(t, slug, handle)
      PROVE  LoadInv'
  BY <1>2, VisitLoads
<1>3. ASSUME NEW id \in DOMAIN rooms, NEW slug \in Slugs, Rename(id, slug)
      PROVE  LoadInv'
  BY <1>3, RenameLoads
<1> QED BY <1>1, <1>2, <1>3, LoadStays DEF OpenNext

LEMMA LeadsIsPrefix ==
  ASSUME NEW v \in Seq(Nat), NEW got \in Seq(Nat), Leads(v, got)
  PROVE  IsPrefix(FirstPage(v), got)
<1> DEFINE f == Fore(v)
           w == FirstPage(v)
<1>1. f \in 0..Len(v) /\ f \in Nat /\ Len(v) \in Nat /\ Len(got) \in Nat
  BY ForeIn, LenProperties
<1>2. w = SubSeq(v, 1, f)
  BY DEF FirstPage, Fore
<1>3. f <= Len(got) /\ \A k \in 1..f : got[k] = v[k]
  BY DEF Leads
<1> HIDE DEF f, w
<1>4. w \in Seq(Nat) /\ Len(w) = f /\ \A i \in 1..f : w[i] = v[i]
  <2>1. /\ SubSeq(v, 1, f) \in Seq(Nat)
        /\ Len(SubSeq(v, 1, f)) = IF 1 <= f THEN f - 1 + 1 ELSE 0
        /\ \A i \in 1..(f - 1 + 1) : SubSeq(v, 1, f)[i] = v[1 + i - 1]
    <3>1. 1 \in 1..(Len(v) + 1) /\ f \in (1 - 1)..Len(v)
      BY <1>1
    <3> QED BY <3>1, SubSeqProperties
  <2>2. (IF 1 <= f THEN f - 1 + 1 ELSE 0) = f /\ f - 1 + 1 = f
        /\ \A i \in 1..f : 1 + i - 1 = i
    BY <1>1
  <2> QED BY <1>2, <2>1, <2>2
<1>5. SubSeq(w, 1, Len(w)) = SubSeq(got, 1, Len(w))
  <2>1. \A i \in 1..f : w[i] = got[i]
    BY <1>3, <1>4
  <2>2. SubSeq(w, 1, f) = [i \in 1..f |-> w[i]] /\ SubSeq(got, 1, f) = [i \in 1..f |-> got[i]]
    BY <1>1, <1>3, <1>4, SubSeqProperties
  <2> QED BY <1>4, <2>1, <2>2
<1>6. Len(w) <= Len(got)
  BY <1>3, <1>4
<1> QED BY <1>5, <1>6 DEF IsPrefix, w

LEMMA LoadInvIsEnough ==
  ASSUME LoadInv, breaks = 0
  PROVE  LoadsAVersion
<1> SUFFICES ASSUME NEW t \in Visits, visit[t].stage = "open"
             PROVE  /\ \E v \in held[t] : IsPrefix(FirstPage(v), visit[t].loaded)
                    /\ ToSet(visit[t].loaded) \subseteq UNION {ToSet(v) : v \in held[t]}
  BY DEF LoadsAVersion
<1> DEFINE g == visit[t].loaded
<1>1. g \in Seq(Nat) /\ held[t] \in SUBSET Seq(Nat) /\ LoadPage(t)
  BY VisitedPage
<1>2. LedBy(g, held[t]) /\ FromOf(g, held[t])
  BY <1>1 DEF LoadPage, LoadShows
<1> HIDE DEF g
<1>3. \E v \in held[t] : IsPrefix(FirstPage(v), g)
  <2>1. PICK v \in held[t] : Leads(v, g)
    BY <1>2 DEF LedBy
  <2> QED BY <1>1, <2>1, LeadsIsPrefix
<1>4. ToSet(g) \subseteq UNION {ToSet(v) : v \in held[t]}
  <2> SUFFICES ASSUME NEW k \in DOMAIN g
               PROVE  \E v \in held[t] : g[k] \in ToSet(v)
    BY DEF ToSet
  <2>1. PICK v \in held[t] : \E j \in DOMAIN v : v[j] = g[k]
    BY <1>2 DEF FromOf
  <2> QED BY <2>1 DEF ToSet
<1> QED BY <1>3, <1>4 DEF g

(***************************************************************************)
(* Unless a query fails, the pages that open a slug come to its one room,  *)
(* while no room is renamed, and what a load ends with begins with the     *)
(* first page of a version that the room had since the load began and has  *)
(* no shape that no such version has, whatever is saved, created or        *)
(* renamed between two pages of the load (page.tsx:1588-1645 and           *)
(* room.controller.ts:306-371).                                          *)
(***************************************************************************)
THEOREM OpeningsLoad == OpenSpec => []OpensTheRoom
<1>1. OpenInit => OpenInv /\ LoadInv
  BY OpenStarts, LoadStarts
<1>2. OpenInv /\ LoadInv /\ [OpenNext]_openVars => OpenInv' /\ LoadInv'
  BY OpenSteps, LoadSteps
<1>3. OpenInv /\ LoadInv => OpensTheRoom
  BY OneRoomHolds, LoadInvIsEnough DEF OpensTheRoom
<1> QED BY <1>1, <1>2, <1>3, PTL DEF OpenSpec
=============================================================================
