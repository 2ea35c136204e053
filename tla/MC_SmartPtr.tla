---------------------------- MODULE MC_SmartPtr ----------------------------
(* Model-checking instance of SmartPtr: two or three threads, each owning *)
(* at most two handles at a time.                                         *)
EXTENDS SmartPtr, TLC

CONSTANTS t1, t2, t3

MCThreads2 == {t1, t2}
MCThreads3 == {t1, t2, t3}
MCSymmetry == Permutations(MCThreads3)
====
