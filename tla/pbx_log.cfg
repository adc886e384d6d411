SPECIFICATION LoopSpec
CONSTANTS
  Phone = {ph1}
  Slot = {1}
  Starts = {1}
  Every = 1
  MaxClock = 2
  MaxMade = 3
  MaxSessions = 2
  MaxBoots = 1
  MaxFailures = 1
  MaxCuts = 0
  Backlog = 3
INVARIANTS LossFigureTrue RebootsCountedOnce SlotsExact
PROPERTY CountersKeepComing
