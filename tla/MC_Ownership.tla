---------------------------- MODULE MC_Ownership ----------------------------
(* Model-checking instance of Ownership: four addresses (two shared      *)
(* objects with their control blocks), two unique_ptrs, two shared_ptrs  *)
(* and two weak_ptrs.                                                    *)
EXTENDS Ownership

CONSTANTS a1, a2, a3, a4, u1, u2, s1, s2, w1, w2

MCAddrs == {a1, a2, a3, a4}
MCUniqueSlots == {u1, u2}
MCSharedSlots == {s1, s2}
MCWeakSlots == {w1, w2}
====
