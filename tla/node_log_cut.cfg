SPECIFICATION Spec
CONSTANTS
  Pkt = {p1}
  WantAck = {p1}
  Other = other
  Expiry = 3
  Budget = 2
  MaxClock = 4
  MaxHandings = 1
  MaxAttempts = 1
  MaxOwn = 1
  MaxBoots = 0
  MaxFailures = 0
  MaxCuts = 1
  Backlog = 1
PROPERTY CutLinesYieldNothingWrong
