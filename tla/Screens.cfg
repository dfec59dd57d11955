SPECIFICATION FairSpecParts
CONSTANTS
  \* TuiSessions
  Sessions = {2, 3}
  MaxInstances = 1
  ClaimAttempts = 2
  MaxTime = 2
  MaxQuits = 1
  \* TuiQueue
  MaxQueued = 1
  MaxReadErrors = 1
  MaxAnswers = 1
  \* TuiTasks
  TaskText <- McTaskText
  MaxOtherEdits = 1
  MaxKeys = 2
  MaxWriteFaults = 1
  \* ConfigFile
  HandFiles <- McHandFiles
  Editors = {"cli", "tui"}
  Edits <- McEdits
  MaxConfigEdits = 1
  MaxHandEdits = 1
  MaxWakes = 1
  QueueSize = 2
  \* Orchestrator
  OrchPanes = {1}
  MaxSpawnsPerHour = 1
  MaxOrchTerminals = 2
  MaxFlips = 2
  MaxMishaps = 1
PROPERTIES
  LimitLeavesOne
  StartedIsFinished
  OrchestratorIsKnown
CHECK_DEADLOCK FALSE
