CONSTANTS
  Builds = {"codec_tui"}
  RxDepth = 2
SPECIFICATION UsbFairSpec
PROPERTY SetupServedInEveryBuild
