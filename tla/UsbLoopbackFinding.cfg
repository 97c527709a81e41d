CONSTANTS
  Builds = {"loopback"}
  RxDepth = 2
SPECIFICATION UsbFairSpec
PROPERTY SetupServedInEveryBuild
