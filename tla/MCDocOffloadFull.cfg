SPECIFICATION Spec
CONSTANTS
  TodoIds = {"t1"}
  TodoStatuses = {"", "pending", "completed"}
  Names = {"a"}
  Workspace = {}
  Types = {"general", "reporter"}
  OutputMode <- MCMode
  MaxTaskDepth = 2
  MaxSteps = 2
  Texts = {"empty", "short", "long"}
  Batches <- OffloadBatches
  Versions = {1, 2}
  SkillSteps <- MCSkillSteps
  Failed = Failed
  Refusal = Failed
  Commands <- MCCommands
  Absent = Absent
  NoRecord = NoRecord
  None = None
  MaxRuns = 4
  MaxIds = 2
INVARIANT OffloadHoldsResult
CHECK_DEADLOCK FALSE
