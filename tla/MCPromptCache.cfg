SPECIFICATION Spec
CONSTANTS
    Sessions = {s1, s2}
    Requests <- MCRequests
    Configurations <- MCConfigurations
    MaxRequests = 4
    MaxTime = 1
SYMMETRY Alike
INVARIANTS StoresBounded HitsFit HitsAreFresh
PROPERTIES MissesAreExplained
CHECK_DEADLOCK FALSE
