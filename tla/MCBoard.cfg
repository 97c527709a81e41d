CONSTANTS
  Subjects = {"ring", "bridge", "sai", "midi", "classes", "rate", "terminal", "reports", "sdram", "fmc",
              "pedal", "pod", "switch", "handoff", "exerciser", "checker"}
  N = 4
  Samples = {s1, s2}
  Nothing = Nothing
  Capacity = 9
  BlockFrames = 2
  Nominal = 2
  Slack = 1
  Wire = {1, 2, 144, 208, 240, 242, 243, 246, 247, 248}
  MidiLength = 5
  Top = 16
  RingTarget = 255
  FillBound = 511
  DriftStep = 24
  Refreshes = {1, 32}
  SettleTime = 250
  RateBand = 40
  RateHorizon = 860
  RateStride = 5
  TuiCols = 3
  TuiRows = 1
  TuiWidths = {2, 3}
  TuiHeights = {1}
  TuiAttaches = 2
  TuiMops = 1
  TuiTail = 8
  CprMax = 60
  SdWords = 3
  SdWidth = 2
  SdPowerUp = {{}, {0, 1}}
  SdChunk = 2
  SdErrLogCap = 3
  SdPasses = 2
  BusyReads = {0, 1, 2}
  BusyLimit = 2
  DebounceBits = 3
  CycleWrap = 16
  DebouncePeriod = 2
  DfuHold = 6
  PassCycles = {1, 2, 3}
  QuarterTurns = 9
SPECIFICATION BoardSpec
INVARIANTS BoardTypeOK NoSharedCell ClaimsHold LenSound ChannelsPaired BlocksServedOnce
           MidiFaithful ClassesSound RateHeld TerminalSound MemoryTestSound ControlsSound MemoryCoherent
PROPERTY FifoImplemented
