\* make_shared / make_unique with one injected allocation failure, copies, moves, resets, weak handles, release and adoption
CONSTANTS
  a1 = a1  a2 = a2  a3 = a3  a4 = a4
  u1 = u1  u2 = u2  s1 = s1  s2 = s2  w1 = w1  w2 = w2
  Null = Null
  NoCtl = NoCtl
  Addrs <- MCAddrs
  UniqueSlots <- MCUniqueSlots
  SharedSlots <- MCSharedSlots
  WeakSlots <- MCWeakSlots
  MaxAllocFailures = 1
SPECIFICATION Spec
INVARIANTS
  TypeOK
  OwnershipExact
  CountsExact
