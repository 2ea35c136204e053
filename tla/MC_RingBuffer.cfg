CONSTANTS
  Capacity <- MCCapacity
  MaxBytes <- MCMaxBytes
  ClampWriteBytes = TRUE
  Junk = Junk
SPECIFICATION Spec
INVARIANTS
  TypeOK
  StreamIntegrity
  NoDataRace
  ConservativeQueries
