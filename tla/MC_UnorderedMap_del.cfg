\* del() while the map is in TRANSFER
CONSTANTS
  k1 = k1  k2 = k2  k3 = k3  v1 = v1  v2 = v2
  NoVal = NoVal
  Keys <- MCKeys
  Vals <- MCVals
  Hash <- MCHash
  MaxLoadFactorPercent <- MCMaxLoadFactorPercent
  TransferBudget <- MCTransferBudget
  ReserveSizes <- MCReserveSizes
  AllocFailSites = {"bucket", "table"}
  MaxAllocFailures = 1
  DelInTransfer = TRUE
SPECIFICATION Spec
INVARIANT LookupAgrees
CHECK_DEADLOCK FALSE
