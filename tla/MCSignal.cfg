CONSTANTS
  Subjects = {"fft", "q15", "stft", "pitch", "spatial", "delay", "reverb", "pad", "sample", "filter",
              "compressor", "gate", "limiter", "shaper", "oscillator", "yin", "choir", "usb"}
  P = 31
  TwMaster = 32
  TwCos1 = 2
  TwSin1 = 11
  FftSizes = {1, 2, 8}
  StftLen = 8
  StftHops = 8
  SpTaps = {0, 4}
  SpCallbacks = 13
  DlTicks = 24
  RvTicks = 24
  FrzCap = 8
  Xfade = 2
  GranCap = 16
  GrainLen = 4
  Sprays = {0, 3, 7}
  SpawnGaps = {1, 3}
  SpawnMean = 2
  MaxGrains = 2
  Pitches = {1, 2, 4}
  Swell = 2
  PadTicks = 11
  PadMoves = 3
  PitchTimes = {0}
  ResetTimes = {7}
  FlInputs = {0, 1, 6}
  FlLength = 4
  DyTicks = 4
  GateHold = 2
  Lookahead = 2
  ShTicks = 4
  OscCycle = 12
  OscSteps = {1, 2, 3, 5}
  YinLags = 6
  YinValues = {0, 2, 5}
  MaxSingers = 3
  MaxPartials = 5
  ChoirNotes = {1, 3}
  Builds = {"codec", "codec_tui", "loopback", "loopback_tui"}
  RxDepth = 3
SPECIFICATION SignalSpec
INVARIANTS SignalTypeOK TransformsSound RenderSound TexturesSound LevelsSound
           RxNeverBlocked AltsAgree
PROPERTIES StepsSound SetupServed
