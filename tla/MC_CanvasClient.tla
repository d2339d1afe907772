-------------------------- MODULE MC_CanvasClient --------------------------
(***************************************************************************)
(* CanvasClient for TLC: a room that holds shape 1 when the page opens,    *)
(* and an id 2 for what is drawn.                                          *)
(***************************************************************************)
EXTENDS CanvasClient, TLC

OldRoom ==
  [i \in Ids |-> IF i = 1 THEN [content |-> [by |-> Other, nth |-> 0],
                                meta |-> [clock |-> 2, author |-> Other]]
                 ELSE NoCopy]
=============================================================================
