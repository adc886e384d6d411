SPECIFICATION LoopSpec
CONSTANTS
  Pkt = {p1, p2}
  WantAck = {p1}
  Other = other
  Expiry = 2
  Budget = 1
  MaxClock = 4
  MaxHandings = 1
  MaxAttempts = 2
  MaxOwn = 1
  MaxBoots = 1
  MaxFailures = 0
  MaxCuts = 1
  Backlog = 1
INVARIANTS TypeOK VerdictsTrue OneRecordPerPacket AttributionExact NothingOutlivesAReboot
PROPERTY ExpiredResolves
