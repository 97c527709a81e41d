CONSTANTS
  Builds = {"codec"}
  RxDepth = 2
SPECIFICATION UsbFairSpec
INVARIANT SettingsReset
