SPECIFICATION UnpreemptedSpec
CONSTANTS
  Flow <- OneFlow
  Interval <- Intervals
  WindowSec <- Windows
  MaxClock = 6
  MaxPackets = 3
PROPERTY RebootPacketNotJudged
