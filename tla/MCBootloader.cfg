SPECIFICATION LoaderFairSpec
CONSTANTS
  NSectors = 2
  PagesPerSector = 1
  PageSize = 1
  TransferSize = 1
  CcrLocked = FALSE
  WindowTicks = 3
  WrapTicks = 4
  SlowTicks = 2
  MaxRestarts = 2
INVARIANTS
  BootTypeOK
  JumpSound
  NeverJumpsAfterWrite
PROPERTIES
  NoSpuriousService
  RequestReachesService
  BoardSettles
