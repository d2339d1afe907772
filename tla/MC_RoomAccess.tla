---------------------------- MODULE MC_RoomAccess ----------------------------
(***************************************************************************)
(* Who comes to a room, for TLC.  A behaviour is a session of one part, and*)
(* the others stand still: the access (two pages that ask, two calls of    *)
(* the owner at a time and one WebSocket), the public link, or the pages   *)
(* of the owner that open rooms.                                           *)
(***************************************************************************)
EXTENDS RoomAccess, PublicLink, RoomOpen, TLC

CONSTANTS p1, p2, c1, c2, s1

\* p1 and p2 are the pages and dialogs of every part
Symmetry == Permutations(Pages) \cup Permutations(Calls)

MaxEvents == 1   \* bound: changes and outages (link), renames and faults (open)

VARIABLE part

RoomInit ==
  /\ part \in {"access", "link", "open"}
  /\ Init /\ LinkInit /\ OpenInit

RoomNext ==
  /\ UNCHANGED part
  /\ \/ part = "access" /\ Next
     \/ part # "access" /\ UNCHANGED vars
  /\ \/ part = "link" /\ LinkNext /\ board' + outages' <= MaxEvents
     \/ part # "link" /\ UNCHANGED linkVars
  /\ \/ part = "open" /\ OpenNext /\ renames' + breaks' <= MaxEvents
     \/ part # "open" /\ UNCHANGED openVars

RoomVars == <<part, vars, linkVars, openVars>>
RoomSpec == RoomInit /\ [][RoomNext]_RoomVars
=============================================================================
