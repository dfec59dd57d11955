SPECIFICATION FairSpecParts
CONSTANTS
  \* StreamAnnounce
  StreamRows = {1, 2}
  Suggested = {1}
  MaxStops = 1
  MaxWithdrawn = 1
  MaxWalkFaults = 1
  \* GeneratedTasks
  Proposed <- McProposed
  MaxTasksLimit = 3
  MaxListEdits = 1
  MaxAccepts = 2
  MaxCrashes = 1
  MaxFlights = 2
  \* FleetSync
  MaxWrites = 2
  MaxToggles = 3
  MaxRestarts = 1
  \* RuleMatching
  Screens = {s1, s2}
  MaxFailures = 1
  MaxBuilds = 1
  MaxMovesSeen = 1
  MaxReloads = 1
  MaxRuns = 1
  \* TaskCache
  Writers = {w1, w2}
  Releases = {w2}
  Slots = {r1, r2}
  Events = {"failread", "other"}
  MaxVersion = 2
  MaxGen = 2
PROPERTIES
  EscalationsAreAnnounced
  AcceptanceIsIdempotent
  BackgroundWorkEnds
CHECK_DEADLOCK FALSE
