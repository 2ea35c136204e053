\* get/put/get_auto/~Obj, Obj copies, set_elasticity(0), slot and free-vector failures: no slot handed out twice unless copied, slots lost only at failed push_backs
CONSTANTS
  s1 = s1  s2 = s2  s3 = s3  h1 = h1  h2 = h2  h3 = h3
  NoSlot = NoSlot  Unbound = Unbound
  Slots <- MCSlots
  Handles <- MCHandles
  NumObjects = 1
  MaxAllocFailures = 1
  MaxFree = 4
  Elasticities = {0, 1, 2}
  AllocFailSites = {"slot", "vector"}
  ObjCopies = TRUE
SYMMETRY MCSymmetry
SPECIFICATION Spec
INVARIANTS
  TypeOK
  ExclusiveUnlessObjCopied
  LostOnlyOnFailedPush
  VectorContractsHold
