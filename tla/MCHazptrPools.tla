--------------------------- MODULE MCHazptrPools ---------------------------
(***************************************************************************)
(* Small instances of the hazard pointer pools.                            *)
(***************************************************************************)
EXTENDS HazptrPools, TLC

(* Contexts and pools are interchangeable (safety runs only). *)
PoolsSymmetry == Permutations(Contexts) \cup Permutations(Pools)

============================================================================
