SPECIFICATION CheckSpec
CONSTANTS
  Declared = {"device", "environment", "position"}
  MaxFaults = 4
  MaxRuns = 2
CHECK_DEADLOCK FALSE
INVARIANTS MissingIsReported FaultsAreMasked RerunRepairs CheckAgreesWithScripts
