CONSTANTS
  Capacity = 9
  BlockFrames = 2
  Nominal = 2
  Slack = 1
SPECIFICATION BridgeSpec
INVARIANT CaptureInterleaved
