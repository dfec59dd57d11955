SPECIFICATION Spec
CONSTANTS
  a1 = a1
  a2 = a2
  Agents = {a1}
  Rows = {1}
  AgentOf <- OneAgent
  MenuRows = {1}
  NoopRows = {}
  Replies = {1, 2}
  Loop = loop
  Unread = unread
  Events = {"send", "teach", "dismiss", "age", "disable", "retry", "move"}
  Faults = {"finish", "release", "withdraw", "mark", "sent", "processed", "apply", "claim", "reclaim"}
  MaxFaults = 1
  MaxCrashes = 1
INVARIANTS
  TypeOK
  ReplyTypedOnce
  DeliveredReplyIsChecked
PROPERTIES
  AnswersKeepContract
