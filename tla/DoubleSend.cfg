SPECIFICATION Spec
CONSTANTS
  a1 = a1
  a2 = a2
  Agents = {a1}
  Rows = {1}
  AgentOf <- OneAgent
  MenuRows = {}
  NoopRows = {}
  Replies = {1}
  Loop = loop
  Unread = unread
  Events = {"fsp", "send"}
  Faults = {}
  MaxFaults = 0
  MaxCrashes = 0
INVARIANTS
  NoDoubleSend
