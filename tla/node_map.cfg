SPECIFICATION Spec
CONSTANTS
  NodeId = {"a", "b"}
  Label = {1, 2}
  Entries <- SomeEntries
  MaxEntries = 2
  MaxReports = 3
  MaxEdits = 2
CHECK_DEADLOCK FALSE
INVARIANT MapMatchesReports
