SPECIFICATION SpecParts
CONSTANTS
  \* LearnedRules
  ConfirmationWeight = 2
  GraduationN = 1
  Threshold <- McThreshold
  Minimum = 50
  MaxConsecutive = 1
  MaxPerMinute = 1
  MaxRetries = 1
  Type = "approval"
  Acts = {0, 1}
  BadChoices <- McBadChoices
  CallSlots = {1}
  Looks = {"plain", "danger"}
  Window = 2
  LLM = TRUE
  Review = TRUE
  MaxDecisions = 2
  MaxAsks = 1
  MaxRuleIncidents = 1
  \* Supervision
  Daemons = {d1, d2}
  Commands = {c1}
  NoPid = nopid
  LoopThreshold = 2
  Shared = TRUE
  Incidents = {"crash", "edit", "restart", "probe", "upgrade", "wedge", "unopened"}
  MaxSectionEdits = 1
  MaxIncidents = 2
INVARIANTS
  
  PromptsAreAccounted
  OneDaemonIsKept

  
CHECK_DEADLOCK FALSE
