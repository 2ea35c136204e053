\* get/put/reset with one allocation failure anywhere: list, map and pool stay in step and the cache behaves as documented
CONSTANTS
  k1 = k1  k2 = k2  k3 = k3  k4 = k4  v1 = v1
  n1 = n1  n2 = n2  n3 = n3  n4 = n4
  NoKey = NoKey  NoVal = NoVal  NoNode = NoNode
  Keys <- MCKeys
  Vals <- MCVals
  Nodes <- MCNodes
  Hash <- MCHash
  Capacity = 3
  MaxLoadFactorPercent = 500
  AllocFailSites = {"value", "bucket", "table", "slot", "vector"}
  MaxAllocFailures = 1
SPECIFICATION Spec
INVARIANTS
  TypeOK
  ListWellFormed
  MapAgreesWithList
  NodeAccounting
PROPERTIES
  ImplementsAbstractLRU
