\* Three clients, two blocks, both lock kinds, every init outcome.
CONSTANTS
  c1 = c1
  c2 = c2
  c3 = c3
  b1 = b1
  b2 = b2
  NoBlock = NoBlock
  Clients <- MCClients
  Blocks <- MCBlocks
  MutexKinds <- MCMutexKinds
  Capacities <- MCCapacities
  MinArenaSize = 2
SPECIFICATION Spec
INVARIANTS
  TypeOK
  ArenaExclusive
  BlockOwnership
PROPERTIES
  LockProgress
  ImplementsAllocatorConcept
\* After the owner has unmapped the region nothing is left to run.
CHECK_DEADLOCK FALSE
