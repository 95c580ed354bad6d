------------------------- MODULE MCOverlappedFilter -------------------------
(***************************************************************************)
(* Ranks on a line for OverlappedFilter: an interface belongs to the rank  *)
(* on its left, so the first rank has no ghost entries and the last one no *)
(* targets.                                                                *)
(***************************************************************************)
EXTENDS OverlappedFilter

CONSTANT Size

MCRanks == 1..Size
MCGhosts == [p \in MCRanks |-> {q \in MCRanks : q = p - 1}]
=============================================================================
