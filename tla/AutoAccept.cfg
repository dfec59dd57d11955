SPECIFICATION Spec
CONSTANTS
  a1 = a1
  a2 = a2
  Agents = {a1}
  Rows = {1, 2}
  AgentOf <- OneAgent
  MenuRows = {1}
  NoopRows = {2}
  Replies = {}
  Loop = loop
  Unread = unread
  Events = {"tick", "fsp", "move", "unlisted", "kill", "dismiss"}
  Faults = {"claim", "finalize", "revert"}
  MaxFaults = 1
  MaxCrashes = 1
INVARIANTS
  AutomaticAnswersAreSound
PROPERTIES
  ClosedStaysClosed
