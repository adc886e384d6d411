SPECIFICATION Spec
CONSTANTS
  Flow <- OneFlow
  Interval <- Intervals
  WindowSec <- Windows
  MaxClock = 10
  MaxPackets = 3
INVARIANTS TypeOK LedgerExact NeverUndercounts DriftBounded ChargeWithinGap TailIsTheCharge
PROPERTY SweepIsInvisible
