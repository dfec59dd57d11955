SPECIFICATION SpecParts
CONSTANTS
  \* FleetReplica
  Nodes = {1, 2}
  Keys = {1}
  LatestCols = {"text"}
  PushCols = {"status"}
  Vals = {0, 1}
  NoRow = NoRow
  Grain = 8
  Lead = 2
  Deadband = 1
  Retention = 0
  MaxWall = 1
  MaxEdits = 2
  MaxFaults = 1
  Skews = {0, 1}
  Seeded = {1, 2}
  Faults = {"interrupt", "triggers"}
  \* StoreImport
  Sigs = {"s"}
  MaxRows = 3
  MaxMoves = 1
  MaxStoreEdits = 1
  MaxDeaths = 1
  \* Checklist
  Texts = {"t", "u"}
  MaxLines = 5
  MaxIndent = 2
  MaxItems = 5
  MaxSteps = 1
  ReviewLines = 2
  MaxActions = 3
  \* FormSeries
  Answers <- McAnswers
  MaxTouches = 1
  MaxTries = 3
  MaxKeyFaults = 1
  \* TaskReview
  ReviewTasks = {1, 2}
  MaxReviews = 2
  MaxListMoves = 2
  MaxKills = 2
  \* AgentMode
  Cycle <- McCycle
  Wanted = {"plan", "auto"}
  SettleReads = 3
  ScreenLag = 2
  MaxPresses = 4
  MaxSwallowed = 2
  MaxDialogs = 1
  \* StreamReader
  MaxEvents = 5
  MaxPrunes = 2
  MaxReadFaults = 1
  \* TaskCache
  Writers = {w1}
  Releases = {}
  Slots = {r1, r2}
  Events = {"other", "failwrite", "failread"}
  MaxVersion = 3
  MaxGen = 3
  \* TuiQueue
  MaxQueued = 1
  MaxReadErrors = 1
  MaxAnswers = 2
  \* TuiTasks
  TaskText <- McTaskText
  MaxOtherEdits = 1
  MaxKeys = 3
  MaxWriteFaults = 1
  \* ConfigFile
  HandFiles <- McHandFiles
  Editors = {"cli", "tui"}
  Edits <- McEdits
  MaxConfigEdits = 2
  MaxHandEdits = 1
  MaxWakes = 1
  QueueSize = 2
  \* RuleMatching
  Screens = {s1, s2}
  MaxFailures = 1
  MaxBuilds = 2
  MaxMovesSeen = 1
  MaxReloads = 1
  MaxRuns = 2
INVARIANTS
  ImportIsFaithful
  ListEditsAreLocal
  ModeAnswersAreTrue
  MissedIsExact
  OwnWritesStand
  QueueIsTrue
  
  MatchingIsCurrent
PROPERTIES
  FleetAgrees
  FormIsCarriedThrough
  
  ConfigEditsAreExact
CHECK_DEADLOCK FALSE
