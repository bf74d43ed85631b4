SPECIFICATION Spec
CONSTANTS
  Options <- MCOptions
  SummarySize = 2
  Sizes = {1, 5}
  TrimmedSize = 1
  PersistFails = TRUE
  Tasks = TRUE
  MaxMessages = 5
  MaxTask = 3
INVARIANTS NothingUnarchived RequestFits RecentKept ArchivedInOrder
PROPERTY CutoffNeverBack
CHECK_DEADLOCK FALSE
