--------------------------- MODULE MC_RingBuffer ---------------------------
(* Model-checking instance of RingBuffer: a 4-byte buffer (3 writable).   *)
EXTENDS RingBuffer

MCCapacity == 4
MCMaxBytes == 6
====
