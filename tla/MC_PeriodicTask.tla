------------------------- MODULE MC_PeriodicTask -------------------------
(* Model-checking instance of PeriodicTask: the task is constructed with  *)
(* or started with either option (no timeout, or a timeout), with or      *)
(* without scheduling parameters.                                         *)
EXTENDS PeriodicTask

MCTimeouts == {0, 1}
====
