SPECIFICATION FairSpec
CONSTANTS
  Flow = {"device"}
  SweepSec = 1
  MaxInflight = 1
  MaxClock = 1
  MaxRecords = 3
  MaxFaults = 2
CHECK_DEADLOCK FALSE
INVARIANTS TypeOK EveryRecordAccounted NewestAtMostOneBehind
PROPERTIES ReachesDatabase ComesUp
