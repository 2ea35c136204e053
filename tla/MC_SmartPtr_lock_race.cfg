\* weak_ptr::lock() racing the last shared_ptr::reset()
CONSTANTS
  t1 = t1  t2 = t2  t3 = t3
  Threads <- MCThreads3
  MaxRefs = 2
SYMMETRY MCSymmetry
SPECIFICATION Spec
INVARIANT PayloadAliveWhileShared
CHECK_DEADLOCK FALSE
