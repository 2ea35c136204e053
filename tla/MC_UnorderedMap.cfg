\* get() agrees with the caller's puts and dels, tables and transfer stay consistent, resizes finish (del() only in STABLE)
CONSTANTS
  k1 = k1  k2 = k2  k3 = k3  v1 = v1  v2 = v2
  NoVal = NoVal
  Keys <- MCKeys
  Vals <- MCVals
  Hash <- MCHash
  MaxLoadFactorPercent <- MCMaxLoadFactorPercent
  TransferBudget <- MCTransferBudget
  ReserveSizes <- MCReserveSizes
  AllocFailSites = {"bucket", "buckets", "table"}
  MaxAllocFailures = 2
  DelInTransfer = FALSE
SPECIFICATION Spec
INVARIANTS
  TypeOK
  LookupAgrees
  TotalEntriesAccurate
  ShellsShadowed
  TransferBehindCursorEmpty
  DrainTerminates
PROPERTIES
  ResizeCompletes
CHECK_DEADLOCK FALSE
