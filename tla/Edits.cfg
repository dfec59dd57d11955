SPECIFICATION Spec
CONSTANTS
  a1 = a1
  Agents = {a1}
  Tasks = {1}
  Remote = TRUE
  Events = {"leave", "other", "taskstart", "undone", "done"}
  Faults = {"ledger", "clear", "told", "count", "delete", "rollback", "release", "refresh"}
  MaxRows = 1
  MaxTerm = 2
  MaxFaults = 1
  MaxCrashes = 0
PROPERTIES
  FinishedStaysFinished
