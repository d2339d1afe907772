----------------------------- MODULE MC_HttpApi -----------------------------
(* The HTTP backend and its pages for TLC.  A behaviour is a session of one  *)
(* part, and the others stand still: the calls of two devices (a page of the *)
(* first makes two calls with one key, of one body or of two; the second     *)
(* only submits forms), the version history of a room, or its slide deck.    *)
EXTENDS HttpApi, CanvasHistory, SlideDeck, TLC

CONSTANTS d1, d2, c1, c2, p1, p2

Use(key, body) == [key |-> key, body |-> body]
OnePage == [c \in Calls |-> d1]
TwoUses == [c \in Calls |->
  {Use("k1", "b1")} \cup IF c = c2 THEN {Use("k1", "b2")} ELSE {}]

\* The passwords are alike, and so are the nodes and the dialogs.
Symmetry == Permutations({p1, p2})

VARIABLE part

BackendInit ==
  /\ part \in {"calls", "history", "slides"}
  /\ Init /\ HistoryInit /\ DeckInit
  /\ canvas = CHOOSE d \in Drawings : TRUE        \* one of the alike
  /\ part # "calls" => account = Nobody
  /\ \A d \in Devices : jar[d].access = NoToken  \* left alone for 15 minutes
  /\ account # Nobody => link                    \* one that only adds steps

BackendNext ==
  /\ UNCHANGED part
  /\ \/ part = "calls" /\ Next
     \/ part # "calls" /\ UNCHANGED vars
  /\ \/ part = "history" /\ HistoryNext
     \/ part # "history" /\ UNCHANGED historyVars
  /\ \/ part = "slides" /\ DeckNext
     \/ part # "slides" /\ UNCHANGED deckVars

(***************************************************************************)
(* The view: nothing depends on whether a call that ended was retried, and *)
(* only of one that failed it matters whether that was excused.            *)
(***************************************************************************)
Ended(c) == call[c].state \in {"served", "gone", "failed"}

LiveCall(c) ==
  [state |-> call[c].state, token |-> call[c].token,
   retried |-> ~Ended(c) /\ call[c].retried,
   excused |-> call[c].state \notin {"served", "gone"} /\ excused[c]]

LiveState ==
  <<part, account, jar, link, [c \in Calls |-> LiveCall(c)], renewal, form,
    forms, expiries, faults, storeVars, historyVars, deckVars>>

BackendVars == <<part, vars, historyVars, deckVars>>
BackendSpec == BackendInit /\ [][BackendNext]_BackendVars
=============================================================================
