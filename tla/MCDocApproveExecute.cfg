SPECIFICATION Spec
CONSTANTS
  p1 = p1
  p2 = p2
  ProviderIds = {p1, p2}
  NoId = NoId
  BlankId = BlankId
  Tools <- MCTools
  BaseTools = {"write_file", "read_file", "execute"}
  MiddlewareTools = {"write_todos"}
  InterruptOn = {}
  Args <- MCArgs
  BadArgs = {"list"}
  PartialArgs = {"partial"}
  Verdict <- MCVerdict
  Batches <- RiskyBatch
  SkillBatches = {}
  MaxSteps = 2
  ReuseIds = FALSE
  CanDrop = FALSE
  MaxCalls = 4
  MaxMessages = 2
INVARIANT ApprovedRuns
