----------------------------- MODULE MCForestry -----------------------------
(* A strip with a sapling, a tree about to mature and one that already has. *)
EXTENDS Forestry, TLC

CONSTANTS first, second

MCPlots == {first, second}
MCSymmetry == Permutations(MCPlots)
MCWooded == {1, 2, 3}
MCAge == (1 :> 1) @@ (2 :> 3) @@ (3 :> 4)
MCWorkTime == [op \in Operations |-> IF op = "FELL" THEN 2 ELSE 1]
=============================================================================
