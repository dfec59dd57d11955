SPECIFICATION FairSpec
CONSTANTS
  a1 = a1
  Agents = {a1}
  Tasks = {1}
  Remote = FALSE
  Events = {"start", "lose", "late", "repark", "wait", "crashloop"}
  Faults = {"delete"}
  MaxRows = 1
  MaxTerm = 1
  MaxFaults = 1
  MaxCrashes = 0
PROPERTIES
  RowsSettle
