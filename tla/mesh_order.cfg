SPECIFICATION MeshSpec
CONSTANTS
  Node <- OneNode
  Kinds <- KindsOfNode
  Flow <- FlowsOfNodes
  Interval <- Intervals
  WindowSec <- Windows
  SeenMax = 4
  SweepSec = 2
  MaxDelay = 0
  MaxFirst = 2
  MaxCrashes = 1
  RelayUntil = 0
  MaxClock = 6
  MaxPackets = 5
PROPERTY RebootErasesDowntime
