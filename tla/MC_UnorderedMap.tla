------------------------- MODULE MC_UnorderedMap -------------------------
(* Model-checking instance of UnorderedMap: three keys whose hashes       *)
(* collide in the 17-bucket and in the 37-bucket table, two values, and a *)
(* load factor of 0.2 so that the third key triggers a resize.           *)
EXTENDS UnorderedMap, TLC

CONSTANTS k1, k2, k3, v1, v2

MCKeys == {k1, k2, k3}
MCVals == {v1, v2}
\* 629 = 17 * 37
MCHash == (k1 :> 0) @@ (k2 :> 629) @@ (k3 :> 1)
MCMaxLoadFactorPercent == 20
MCTransferBudget == 1
MCReserveSizes == {0, 40}
====
