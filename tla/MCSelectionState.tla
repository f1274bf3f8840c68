-------------------------- MODULE MCSelectionState --------------------------
(* Instance of SelectionState for TLC: p1 is covered by both manifests, p2 only  *)
(* by the second, so that a click on p2 is stale under the first and, once taken *)
(* under the second, must not become stale again; nothing is covered before a    *)
(* manifest is cached.  One id and one tab more than the caps hold.              *)
EXTENDS SelectionState, TLC

CONSTANTS m1, m2, p1, p2

MCCovers == m1 :> {p1} @@ m2 :> {p1, p2}

Symmetry == Permutations(Tabs) \cup Permutations(Ids)
=============================================================================
