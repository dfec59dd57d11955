SPECIFICATION Spec
CONSTANTS
  a1 = a1
  a2 = a2
  Agents = {a1, a2}
  Tasks = {1}
  Remote = FALSE
  Events = {"start", "lose", "forget", "sendfail", "refuse", "kill"}
  Faults = {"record", "confirm", "rollback", "release", "touch"}
  MaxRows = 4
  MaxTerm = 1
  MaxFaults = 1
  MaxCrashes = 1
SYMMETRY AgentSymmetry
INVARIANTS
  HandedOnce
PROPERTIES
  NoItemForgotten
