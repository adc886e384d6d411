SPECIFICATION SilenceSpec
CONSTANTS
  Node <- OneNode
  Kinds <- KindsOfNode
  Flow <- FlowsOfNodes
  Interval <- Intervals
  WindowSec <- Windows
  SeenMax = 1
  SweepSec = 3
  MaxDelay = 0
  MaxFirst = 1
  MaxCrashes = 1
  RelayUntil = 1
  MaxClock = 5
  MaxPackets = 4
INVARIANTS AcceptedOnce NoFalseLoss
PROPERTIES RefundsNeedAReboot RebootIsNodeWide SilenceIsCharged
