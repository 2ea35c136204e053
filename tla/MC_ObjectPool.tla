--------------------------- MODULE MC_ObjectPool ---------------------------
(* Model-checking instance of ObjectPool: three slots the allocator can   *)
(* hand out, a pool constructed with one object, three caller handles.    *)
EXTENDS ObjectPool, TLC

CONSTANTS s1, s2, s3, h1, h2, h3

MCSlots == {s1, s2, s3}
MCHandles == {h1, h2, h3}
MCSymmetry == Permutations(MCHandles)

\* The contracts over all vectors of up to three slot pointers (a constant)
AllVectorContracts == Vec!VectorContracts({s1, s2}, 3)

\* rtl::vector, the pool's m_vector: reserve, push_back, remove_stable,
\* remove_fast, copy and at keep their header contracts on every vector of
\* up to three slot pointers and on every free list the pool reaches, with
\* and without an allocation failure
VectorContractsHold ==
  AllVectorContracts /\ Vec!MeetsContracts(VecOf(Pool), MCSlots, 3)
====
