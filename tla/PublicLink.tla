----------------------------- MODULE PublicLink -----------------------------
(***************************************************************************)
(* The public link of one room: the owner's dialogs (PublicLinkModal.tsx), *)
(* the handlers of public.controller.ts, which read the room's token and   *)
(* then write it, and the pages that show a link (view/[token]/page.tsx).  *)
(* Tokens are numbered as newToken draws them.                             *)
(***************************************************************************)
EXTENDS Integers, FiniteSets

CONSTANTS
  Dialogs,       \* pages with the owner's dialog
  Viewers,       \* pages that show a link
  MaxTokens,     \* bound: tokens drawn
  MaxPolls,      \* bound: requests of all viewers
  MaxEdits,      \* bound: changes of the board
  MaxOutages     \* bound: requests of viewers and dialogs that fail

ASSUME PublicLinkAssumption ==
  MaxTokens \in Nat /\ MaxPolls \in Nat /\ MaxEdits \in Nat /\ MaxOutages \in Nat

VARIABLES
  link,          \* the room's publicToken; 0 is null
  issued,        \* tokens drawn so far
  board,         \* the room's shapes, numbered by their changes
  dialog,        \* dialog[d]: the owner's dialog and its call
  viewer,        \* viewer[v]: the page that shows a link
  polls,         \* the requests of the viewers under way
  asked, outages,
  ended          \* history: ended[t]: the board when token t ceased to be the link

linkVars == <<link, issued, board, dialog, viewer, polls, asked, outages, ended>>

NoToken == 0
Tokens == 1..MaxTokens
Lasting == MaxEdits + 1                 \* ended[t] of a token that has not ended

NoCall == [kind |-> "none", stage |-> "none"]
ShutDialog == [phase |-> "shut", token |-> NoToken, call |-> NoCall, seen |-> NoToken]
NoViewer == [token |-> NoToken, status |-> "closed", last |-> -1, shown |-> -1]

LinkInit ==
  /\ link = NoToken /\ issued = 0 /\ board = 0
  /\ dialog = [d \in Dialogs |-> ShutDialog]
  /\ viewer = [v \in Viewers |-> NoViewer]
  /\ polls = {} /\ asked = 0 /\ outages = 0
  /\ ended = [t \in Tokens |-> Lasting]

EditBoard ==
  /\ board < MaxEdits /\ board' = board + 1
  /\ UNCHANGED <<link, issued, dialog, viewer, polls, asked, outages, ended>>

----------------------------------------------------------------------------
(* The dialog, and the three handlers of its calls. *)
OthersStand == UNCHANGED <<board, viewer, polls, asked>>

OpenDialog(d) ==
  /\ dialog[d].phase = "shut"
  /\ dialog' = [dialog EXCEPT ![d].phase = "loading",
                              ![d].call = [kind |-> "status", stage |-> "sent"]]
  /\ OthersStand /\ UNCHANGED <<link, issued, outages, ended>>

\* busy: one call at a time
Press(d, kind) ==
  /\ dialog[d].phase = "ready" /\ dialog[d].call = NoCall
  /\ kind \in (IF dialog[d].token = NoToken THEN {"enable"} ELSE {"rotate", "disable"})
  /\ dialog' = [dialog EXCEPT ![d].call = [kind |-> kind, stage |-> "sent"]]
  /\ OthersStand /\ UNCHANGED <<link, issued, outages, ended>>

\* assertRoomOwner reads the token; the status is what it read.
ReadRoom(d) ==
  /\ dialog[d].call.stage = "sent"
  /\ dialog' = [dialog EXCEPT ![d].seen = link,
       ![d].call.stage = IF dialog[d].call.kind = "status" THEN "answer" ELSE "read"]
  /\ OthersStand /\ UNCHANGED <<link, issued, outages, ended>>

Becomes(token) ==
  /\ link' = token
  /\ ended' = IF link \in Tokens /\ token # link THEN [ended EXCEPT ![link] = board] ELSE ended

\* (Changed form: the token that was read is written back as well.)
WriteTokenAlways(d) ==
  /\ dialog[d].call.stage = "read"
  /\ LET seen == dialog[d].seen
         keeps == dialog[d].call.kind = "enable" /\ seen # NoToken
         token == CASE dialog[d].call.kind = "disable" -> NoToken
                    [] keeps -> seen
                    [] OTHER -> issued + 1
     IN  /\ Becomes(token)
         /\ token = issued + 1 => issued < MaxTokens
         /\ issued' = IF token = issued + 1 THEN issued + 1 ELSE issued
         /\ dialog' = [dialog EXCEPT ![d].seen = token, ![d].call.stage = "answer"]
  /\ OthersStand /\ UNCHANGED outages

\* enablePublicLink keeps a token it has read unless it rotates, and writes
\* only another one; disablePublicLink writes null.
WriteToken(d) ==
  /\ dialog[d].call.stage = "read"
  /\ LET keeps == dialog[d].call.kind = "enable" /\ dialog[d].seen # NoToken
         token == CASE dialog[d].call.kind = "disable" -> NoToken
                    [] keeps -> dialog[d].seen
                    [] OTHER -> issued + 1
     IN  /\ IF keeps THEN UNCHANGED <<link, ended>> ELSE Becomes(token)
         /\ token = issued + 1 => issued < MaxTokens
         /\ issued' = IF token = issued + 1 THEN issued + 1 ELSE issued
         /\ dialog' = [dialog EXCEPT ![d].seen = token, ![d].call.stage = "answer"]
  /\ OthersStand /\ UNCHANGED outages

Answered(d) ==
  /\ dialog[d].call.stage = "answer"
  /\ dialog' = [dialog EXCEPT ![d] = [phase |-> "ready", token |-> dialog[d].seen,
                                      call |-> NoCall, seen |-> NoToken]]
  /\ OthersStand /\ UNCHANGED <<link, issued, outages, ended>>

\* A call that fails: the status leaves the dialog "forbidden", a button leaves
\* what it shows, whether the handler has written or not.
CallFails(d) ==
  /\ dialog[d].call # NoCall /\ outages < MaxOutages
  /\ outages' = outages + 1
  /\ dialog' = [dialog EXCEPT ![d].call = NoCall, ![d].seen = NoToken,
       ![d].phase = IF dialog[d].phase = "loading" THEN "forbidden" ELSE dialog[d].phase]
  /\ OthersStand /\ UNCHANGED <<link, issued, ended>>

\* No answer reaches a dialog that is closed; it opens again when its call ended.
CloseDialog(d) ==
  /\ dialog[d].phase # "shut" /\ dialog[d].call = NoCall
  /\ dialog' = [dialog EXCEPT ![d] = ShutDialog]
  /\ OthersStand /\ UNCHANGED <<link, issued, outages, ended>>

----------------------------------------------------------------------------
(* The page of a link, and getPublicBoard. *)
OwnerStands == UNCHANGED <<link, issued, board, dialog, ended>>

Request(v) == [viewer |-> v, id |-> asked + 1, stage |-> "sent", shapes |-> -1]

\* A link is opened from a dialog that shows it.
OpenLink(v) ==
  /\ viewer[v].status = "closed" /\ asked < MaxPolls
  /\ \E d \in Dialogs :
       /\ dialog[d].phase = "ready" /\ dialog[d].token # NoToken
       /\ viewer' = [viewer EXCEPT ![v].token = dialog[d].token, ![v].status = "loading"]
  /\ polls' = polls \cup {Request(v)} /\ asked' = asked + 1
  /\ OwnerStands /\ UNCHANGED outages

\* every POLL_MS, whatever the page shows and whether an answer has come
PollBoard(v) ==
  /\ viewer[v].status # "closed" /\ asked < MaxPolls
  /\ polls' = polls \cup {Request(v)} /\ asked' = asked + 1
  /\ OwnerStands /\ UNCHANGED <<viewer, outages>>

Progress(r, stage, shapes) == (polls \ {r}) \cup {[r EXCEPT !.stage = stage, !.shapes = shapes]}

FindRoom(r) ==
  /\ r.stage = "sent"
  /\ polls' = Progress(r, IF viewer[r.viewer].token = link THEN "found" ELSE "missing", -1)
  /\ OwnerStands /\ UNCHANGED <<viewer, asked, outages>>

ReadBoard(r) ==
  /\ r.stage = "found"
  /\ polls' = Progress(r, "shapes", board)
  /\ OwnerStands /\ UNCHANGED <<viewer, asked, outages>>

\* The same payload again changes nothing, not even the status.
Shown(v, shapes) ==
  IF viewer[v].last = shapes THEN viewer[v]
  ELSE [viewer[v] EXCEPT !.last = shapes, !.shown = shapes, !.status = "ready"]

Receive(r) ==
  /\ r.stage \in {"missing", "shapes"}
  /\ polls' = polls \ {r}
  /\ viewer' = [viewer EXCEPT ![r.viewer] =
       IF r.stage = "missing" THEN [@ EXCEPT !.status = "missing"] ELSE Shown(r.viewer, r.shapes)]
  /\ OwnerStands /\ UNCHANGED <<asked, outages>>

PollFails(r) ==
  /\ outages < MaxOutages /\ outages' = outages + 1
  /\ polls' = polls \ {r}
  /\ viewer' = [viewer EXCEPT ![r.viewer].status = IF @ = "ready" THEN @ ELSE "error"]
  /\ OwnerStands /\ UNCHANGED asked

----------------------------------------------------------------------------
LinkNext ==
  \/ EditBoard
  \/ \E d \in Dialogs :
       \/ OpenDialog(d) \/ ReadRoom(d) \/ WriteToken(d) \/ Answered(d) \/ CallFails(d)
       \/ CloseDialog(d)
       \/ \E kind \in {"enable", "rotate", "disable"} : Press(d, kind)
  \/ \E v \in Viewers : OpenLink(v) \/ PollBoard(v)
  \/ \E r \in polls : FindRoom(r) \/ ReadBoard(r) \/ Receive(r) \/ PollFails(r)

LinkSpec == LinkInit /\ [][LinkNext]_linkVars

----------------------------------------------------------------------------
(* Properties *)

(* A link that was turned off or replaced never works again, whatever the  *)
(* owner's pages do at once ("Invalidates the old link and creates a new   *)
(* one", PublicLinkModal.tsx:133); a page says that its board is missing   *)
(* only when its link has ended, and while the link lasts a page that has  *)
(* shown the board goes on showing it: an outage never replaces it by an   *)
(* error that a later answer with the same shapes would leave there.       *)
LinkHolds ==
  /\ link # NoToken => ended[link] = Lasting
  /\ \A v \in Viewers :
       LET ofLive == viewer[v].token # NoToken /\ ended[viewer[v].token] = Lasting
       IN  /\ viewer[v].status = "missing" => ~ofLive
           /\ ofLive /\ viewer[v].shown # -1 => viewer[v].status = "ready"
=============================================================================
