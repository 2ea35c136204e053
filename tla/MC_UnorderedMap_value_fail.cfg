\* put() whose value allocation fails
CONSTANTS
  k1 = k1  k2 = k2  k3 = k3  v1 = v1  v2 = v2
  NoVal = NoVal
  Keys <- MCKeys
  Vals <- MCVals
  Hash <- MCHash
  MaxLoadFactorPercent <- MCMaxLoadFactorPercent
  TransferBudget <- MCTransferBudget
  ReserveSizes <- MCReserveSizes
  AllocFailSites = {"value"}
  MaxAllocFailures = 1
  DelInTransfer = TRUE
SPECIFICATION Spec
INVARIANT DrainTerminates
CHECK_DEADLOCK FALSE
