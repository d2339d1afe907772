---------------------------- MODULE MC_DbBreaker ----------------------------
(***************************************************************************)
(* Instances of DbBreaker: two failures open the breaker, two probes close *)
(* it, a call is tried twice, an open phase lasts one tick.                *)
(***************************************************************************)
EXTENDS DbBreaker, TLC

CONSTANTS c1, c2, c3, c4

Symmetry == Permutations(Calls)

=============================================================================
