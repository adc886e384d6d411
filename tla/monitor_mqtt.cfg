SPECIFICATION MonitorSpec
CONSTANTS
  MaxTimers = 3
  MaxChanges = 3
  MaxDrops = 2
  MAX_POINTS = 2
  MaxPublished = 4
CHECK_DEADLOCK FALSE
INVARIANTS SubscribedWhenUp ChartTellsTheTruth
PROPERTY SettlesDown
