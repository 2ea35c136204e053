------------------------------- MODULE MC_LRU -------------------------------
(* Model-checking instance of LRU: a cache of capacity 3 (so that a node  *)
(* can sit between head and tail) over four keys, two of which share a    *)
(* bucket of the map's 17-bucket table, one value and four node blocks   *)
(* (three from the constructor, one more when a refill follows a failed   *)
(* allocation).                                                           *)
EXTENDS LRU, TLC

CONSTANTS k1, k2, k3, k4, v1, n1, n2, n3, n4

MCKeys == {k1, k2, k3, k4}
MCVals == {v1}
MCNodes == {n1, n2, n3, n4}
\* k1 and k2 collide in 17 buckets
MCHash == (k1 :> 0) @@ (k2 :> 17) @@ (k3 :> 1) @@ (k4 :> 2)
====
