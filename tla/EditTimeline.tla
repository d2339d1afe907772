---------------------------- MODULE EditTimeline ----------------------------
(***************************************************************************)
(* What undo and redo promise: there is one timeline of states and a       *)
(* cursor in it.  An edit forgets what was undone and appends; undo and    *)
(* redo only move the cursor; only a new load starts another timeline.     *)
(***************************************************************************)
EXTENDS Integers, Sequences

VARIABLES timeline, cursor

tvars == <<timeline, cursor>>

TInit == Len(timeline) = 1 /\ cursor = 1

Edit ==
  /\ cursor' = cursor + 1
  /\ Len(timeline') = cursor'
  /\ SubSeq(timeline', 1, cursor) = SubSeq(timeline, 1, cursor)

Back == cursor' = cursor - 1 /\ cursor > 1 /\ UNCHANGED timeline

Forth == cursor' = cursor + 1 /\ cursor < Len(timeline) /\ UNCHANGED timeline

Load == cursor' = 1 /\ Len(timeline') = 1

TSpec == TInit /\ [][Edit \/ Back \/ Forth \/ Load]_tvars

=============================================================================
