SPECIFICATION FairSpecParts
CONSTANTS
  \* AgentRequests
  ReqPanes = {p1}
  Requests = {r1}
  MaxMoves = 2
  MaxAttempts = 2
  MaxReclaims = 1
  MaxFaults = 1
  \* AgentRoster
  Panes = {p1}
  MaxTenants = 2
  MaxEvents = 2
  MaxRosterRestarts = 1
  \* DialogKeys
  Body <- McBody
  VerifyReads = 3
  Lag = 2
  MaxRecaptures = 1
  MaxOperatorKeys = 1
  \* EventStream
  EventPanes = {1}
  AgentLabels = {"claude"}
  MaxHappenings = 2
  MaxOverruns = 1
  MaxSocketCloses = 1
  \* PaneSend
  MessageKinds = {"multi", "verbatim"}
  SendKinds = {"claude", "codex"}
  TypedInput = TRUE
  SubmitRetryMax = 2
  MaxSends = 2
  MaxPaneMoves = 1
  MaxSwallows = 2
  MaxSendFaults = 1
  \* SessionNames
  SessionNameSet <- McSessionNames
  Fold <- McFold
  Taken <- McTaken
  SuffixOf <- McSuffix
  Unusable = unusable
  UnnamedSession = unnamed
  OwnName = own
  MaxPushes = 2
  MaxDeferrals = 2
  MaxHumanMoves = 3
  MaxTerminals = 2
  \* Supervision
  Daemons = {d1, d2, d3}
  Commands = {c1}
  NoPid = nopid
  LoopThreshold = 2
  Shared = FALSE
  Incidents = {"crash", "probe", "wedge"}
  MaxSectionEdits = 1
  MaxIncidents = 2
PROPERTIES
  
  RosterFollowsTheHerd
  DialogsAreTaken
  HerdIsHeard
  MessageArrivesOnce
  
  HerdStaysMonitored
CHECK_DEADLOCK FALSE
