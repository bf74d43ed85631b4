SPECIFICATION FairSpec
CONSTANTS
  Clients = {c1, c2}
  Sessions = {s1}
  Files = {f1, f2}
  None = None
  CanDrop = TRUE
  MaxRequests = 4
  MaxWrites = 2
INVARIANTS VersionIdentifiesState DecidedOnce StateMirrorsDisk
PROPERTIES ClosedIsFinal Answered
CHECK_DEADLOCK FALSE
