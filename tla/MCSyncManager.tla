--------------------------- MODULE MCSyncManager ---------------------------
(* A chain a1 <- a2 <- a3 and a fork b2 <- b3 that leaves it after a1 and  *)
(* becomes the heavier one; c3 is a tip of a chain whose rest is unknown.  *)
EXTENDS SyncManager, TLC

CONSTANTS a1, a2, a3, b2, b3, c3

MCTipSets == {a1, a2, a3, b2, b3, c3}

MCParents ==
    (a1 :> NoTs) @@ (a2 :> a1) @@ (a3 :> a2) @@ (b2 :> a1) @@ (b3 :> b2) @@ (c3 :> NoTs)

MCParentWeight ==
    (a1 :> 1) @@ (a2 :> 2) @@ (a3 :> 3) @@ (b2 :> 2) @@ (b3 :> 4) @@ (c3 :> 3)

Symmetry == Permutations(Workers) \cup Permutations(Peers)
=============================================================================
