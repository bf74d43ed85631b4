SPECIFICATION Spec
CONSTANTS
  Clients = {c1}
  Sessions = {s1}
  Files = {f1}
  None = None
  CanDrop = FALSE
  MaxRequests = 4
  MaxWrites = 1
PROPERTY StateEvolves
CHECK_DEADLOCK FALSE
