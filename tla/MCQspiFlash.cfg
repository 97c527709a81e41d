SPECIFICATION QspiSpec
CONSTANTS
  NSectors = 2
  PagesPerSector = 1
  PageSize = 2
  CcrLocked = TRUE
INVARIANTS
  QspiTypeOK
  XipFramed
  WriteFramesAccepted
  MappedWriteProtected
  DriverInv
PROPERTY
  StoreImplemented
