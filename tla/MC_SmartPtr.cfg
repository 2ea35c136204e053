\* copies, moves, resets, weak handles and weak_ptr::lock() in three threads: the control block's lifetime
CONSTANTS
  t1 = t1  t2 = t2  t3 = t3
  Threads <- MCThreads3
  MaxRefs = 2
SYMMETRY MCSymmetry
SPECIFICATION Spec
INVARIANTS
  TypeOK
  ControlBlockLifetime
\* Once every handle is gone and the block is freed nothing is left to do.
CHECK_DEADLOCK FALSE
