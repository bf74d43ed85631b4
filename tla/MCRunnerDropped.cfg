SPECIFICATION FairSpec
CONSTANTS
  p1 = p1
  p2 = p2
  ProviderIds = {p2}
  NoId = NoId
  BlankId = BlankId
  Tools <- MCTools
  BaseTools = {"write_file", "read_file", "execute"}
  MiddlewareTools = {"write_todos"}
  InterruptOn = {"write_file"}
  Args <- DroppedArgs
  BadArgs = {}
  PartialArgs = {"partial"}
  Verdict <- DroppedVerdict
  Batches <- DroppedBatches
  SkillBatches <- GatedPair
  MaxSteps = 2
  ReuseIds = TRUE
  CanDrop = TRUE
  MaxCalls = 3
  MaxMessages = 1
INVARIANTS RanInOrder AnsweredInOrder HumanGate RequestsPaired
PROPERTIES RunReturns ImplementsSession
