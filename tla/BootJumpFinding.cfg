SPECIFICATION LoaderSpec
CONSTANTS
  NSectors = 2
  PagesPerSector = 1
  PageSize = 1
  TransferSize = 1
  CcrLocked = TRUE
  WindowTicks = 3
  WrapTicks = 4
  SlowTicks = 2
  MaxRestarts = 2
INVARIANT JumpSound
