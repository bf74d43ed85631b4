SPECIFICATION CliSpec
CONSTANTS
  p1 = p1
  ProviderIds = {p1}
  NoId = NoId
  BlankId = BlankId
  Tools = {"write_file", "read_file", "delete_file", "execute"}
  BaseTools = {"write_file", "read_file", "delete_file", "execute"}
  MiddlewareTools = {}
  InterruptOn = {"write_file", "delete_file"}
  Modes = {"interactive", "non_interactive"}
  Flagged = {"write_file", "delete_file"}
  Args = {"ok", "bad"}
  BadArgs = {}
  PartialArgs = {"bad"}
  Verdict <- MCVerdict
  Batches <- MCBatches
  SkillBatches = {}
  MaxSteps = 2
  ReuseIds = TRUE
  CanDrop = FALSE
  MaxCalls = 3
  MaxMessages = 12
INVARIANTS DecisionsAsTyped ExitHonest
PROPERTY AnswersSettle
