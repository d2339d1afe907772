------------------------------ MODULE SlideDeck ------------------------------
(***************************************************************************)
(* The slide deck of one room: the dialogs of its editors (SlidesModal.tsx)*)
(* and the two handlers of room.controller.ts.  A save replaces the deck in*)
(* a transaction at Postgres' default level: its deleteMany waits for rows *)
(* that another one has deleted and does not see what that one inserts.    *)
(*                                                                         *)
(* A slide is a number.  The stored rows are those of the saves that      *)
(* inserted them: one deck, or several that overlapping saves left.       *)
(***************************************************************************)
EXTENDS Integers, Sequences, SequencesExt, FiniteSets

CONSTANTS
  Desks,         \* pages with the dialog
  MaxChanges,    \* bound: changes of all dialogs
  MaxOpenings,   \* bound: dialogs opened
  MaxLapses      \* bound: requests that fail

ASSUME SlideDeckAssumption ==
  MaxChanges \in Nat /\ MaxOpenings \in Nat /\ MaxLapses \in Nat

VARIABLES
  stored,        \* the RoomSlide rows: [save, deck], one for each save
  desk,          \* desk[d]: the state of the dialog
  puts,          \* the PUT requests under way
  changes, openings, lapses,
  sent,         \* how many saves were sent
  newest,        \* history: the deck after the last change
  mixed          \* history: two saves overlapped or one failed, or a dialog
                 \* changed a deck that was not the newest

deckVars == <<stored, desk, puts, changes, openings, lapses, sent, newest, mixed>>

\* slides: what is shown; pending: the deck that waits for the debounce, if any
Desk(stage, slides, pending) == [stage |-> stage, slides |-> slides, pending |-> pending]
Put(save, deck, stage, rows) == [save |-> save, deck |-> deck, stage |-> stage, rows |-> rows]
ShutDesk == Desk("shut", <<>>, {})

DeckInit ==
  /\ stored = {[save |-> 0, deck |-> <<1, 2>>]}
  /\ desk = [d \in Desks |-> ShutDesk]
  /\ puts = {}
  /\ changes = 0 /\ openings = 0 /\ lapses = 0
  /\ sent = 0 /\ newest = <<1, 2>> /\ mixed = FALSE

----------------------------------------------------------------------------
(* The dialog. *)
OpenDeck(d) ==
  /\ desk[d].stage = "shut" /\ openings < MaxOpenings
  /\ desk' = [desk EXCEPT ![d] = Desk("loading", <<>>, {})]
  /\ openings' = openings + 1
  /\ UNCHANGED <<stored, puts, changes, lapses, sent, newest, mixed>>

\* listRoomSlides: by position, rows of the same position in any order
ByPosition(rows) ==
  LET first == CHOOSE r \in rows : \A s \in rows : r.save <= s.save
      last == CHOOSE r \in rows : \A s \in rows : s.save <= r.save
      Longer == IF Len(first.deck) > Len(last.deck) THEN Len(first.deck) ELSE Len(last.deck)
      At(k) == SelectSeq(<<first, last>>, LAMBDA r : k <= Len(r.deck))
      Slides(k) == [i \in DOMAIN At(k) |-> At(k)[i].deck[k]]
  IN  CASE rows = {} -> <<>>
        [] Cardinality(rows) = 1 -> first.deck
        [] OTHER -> FlattenSeq([k \in 1..Longer |-> Slides(k)])

\* A failed load shows an empty deck.
Loaded(d) ==
  /\ desk[d].stage = "loading"
  /\ \/ desk' = [desk EXCEPT ![d] = Desk("open", ByPosition(stored), desk[d].pending)]
        /\ UNCHANGED lapses
     \/ /\ lapses < MaxLapses /\ lapses' = lapses + 1
        /\ desk' = [desk EXCEPT ![d] = Desk("open", <<>>, desk[d].pending)]
  /\ UNCHANGED <<stored, puts, changes, openings, sent, newest, mixed>>

\* add, retitle, move up, delete
Changed(deck, slide) ==
  {Append(deck, slide)}
    \cup {[deck EXCEPT ![i] = slide] : i \in DOMAIN deck}
    \cup {[deck EXCEPT ![i] = deck[i - 1], ![i - 1] = deck[i]] : i \in DOMAIN deck \ {1}}
    \cup {RemoveAt(deck, i) : i \in DOMAIN deck}

\* update and persist: the change waits for its debounce of 600 ms
Change(d) ==
  /\ desk[d].stage = "open" /\ changes < MaxChanges
  /\ \E deck \in Changed(desk[d].slides, changes + 3) :
       /\ desk' = [desk EXCEPT ![d] = Desk("open", deck, {deck})]
       /\ newest' = deck
  /\ mixed' = \/ mixed \/ desk[d].slides # newest
              \/ \E e \in Desks \ {d} : desk[e].pending # {}
  /\ changes' = changes + 1
  /\ UNCHANGED <<stored, puts, openings, lapses, sent>>

\* save
Saving(deck) ==
  /\ sent' = sent + 1
  /\ puts' = puts \cup {Put(sent + 1, deck, "sent", {})}
  /\ mixed' = (mixed \/ puts # {})

SaveTimerFires(d) ==
  /\ \E deck \in desk[d].pending : Saving(deck)
  /\ desk' = [desk EXCEPT ![d] = Desk(desk[d].stage, desk[d].slides, {})]
  /\ UNCHANGED <<stored, changes, openings, lapses, newest>>

\* (Changed form: closing clears the timer and saves nothing.)
CloseDeckOnly(d) ==
  /\ desk[d].stage # "shut"
  /\ desk' = [desk EXCEPT ![d] = ShutDesk]
  /\ UNCHANGED <<stored, puts, changes, openings, lapses, sent, newest, mixed>>

\* Closing the dialog saves what waits.
CloseDeck(d) ==
  /\ desk[d].stage # "shut"
  /\ \/ \E deck \in desk[d].pending : Saving(deck)
     \/ desk[d].pending = {} /\ UNCHANGED <<puts, sent, mixed>>
  /\ desk' = [desk EXCEPT ![d] = ShutDesk]
  /\ UNCHANGED <<stored, changes, openings, lapses, newest>>

----------------------------------------------------------------------------
(* replaceRoomSlides. *)
Later(p, stage, rows) == puts' = (puts \ {p}) \cup {Put(p.save, p.deck, stage, rows)}
Rows == {r \in stored : r.deck # <<>>}

\* the transaction's deleteMany sees the rows that are committed
SeeRows(p) ==
  /\ p.stage = "sent"
  /\ Later(p, "deleting", Rows)
  /\ UNCHANGED <<stored, desk, changes, openings, lapses, sent, newest, mixed>>

\* it deletes those that are left once nobody holds them
DeleteRows(p) ==
  /\ p.stage = "deleting"
  /\ \A q \in puts : q.stage = "deleted" => q.rows \cap p.rows = {}
  /\ Later(p, "deleted", p.rows \cap stored)
  /\ UNCHANGED <<stored, desk, changes, openings, lapses, sent, newest, mixed>>

\* createMany, and the commit
InsertRows(p) ==
  /\ p.stage = "deleted"
  /\ stored' = (stored \ p.rows) \cup {[save |-> p.save, deck |-> p.deck]}
  /\ puts' = puts \ {p}
  /\ UNCHANGED <<desk, changes, openings, lapses, sent, newest, mixed>>

\* The request is refused, lost or rolled back; nobody sends it again.
SaveFails(p) ==
  /\ lapses < MaxLapses /\ lapses' = lapses + 1
  /\ puts' = puts \ {p}
  /\ mixed' = TRUE
  /\ UNCHANGED <<stored, desk, changes, openings, sent, newest>>

----------------------------------------------------------------------------
DeckNext ==
  \/ \E d \in Desks : OpenDeck(d) \/ Loaded(d) \/ Change(d) \/ SaveTimerFires(d) \/ CloseDeck(d)
  \/ \E p \in puts : SeeRows(p) \/ DeleteRows(p) \/ InsertRows(p) \/ SaveFails(p)

DeckSpec == DeckInit /\ [][DeckNext]_deckVars

----------------------------------------------------------------------------
(* Properties *)

(* Closing a dialog drops no edit that waits for its debounce            *)
(* (SlidesModal.tsx:109): when no dialog waits and no request is under     *)
(* way, the room has the deck as it was changed last, also when dialogs    *)
(* were closed at once, opened again and saved one after the other; unless *)
(* a save failed, two saves overlapped, or a dialog changed a deck that was*)
(* not the newest, loaded before another's save or not loaded at all.      *)
(* Those do lose edits: a save replaces the whole deck.                    *)
DeckSaved ==
  ~mixed /\ puts = {} /\ (\A d \in Desks : desk[d].pending = {}) =>
    {r.deck : r \in Rows} = {newest} \ {<<>>}
=============================================================================
