SPECIFICATION Spec
CONSTANTS
  Sessions = {s1, s2}
  Root <- MCRoot
  Routes <- MCRoutes
  Paths <- MCPaths
  Existing <- MCExisting
  Nowhere = Nowhere
  NoRecord = NoRecord
  Bytes = Bytes
  MaxCalls = 3
SYMMETRY MCSymmetry
VIEW MCView
INVARIANTS KeptUnlessTaken FailedChangedNothing RecordExact
CHECK_DEADLOCK FALSE
