SPECIFICATION DfuFairSpec
CONSTANTS
  NSectors = 2
  PagesPerSector = 1
  PageSize = 2
  TransferSize = 2
  CcrLocked = TRUE
INVARIANTS
  DfuTypeOK
  ModeShadow
PROPERTIES
  DfuStoreImplemented
  RequestsAnswered
