CONSTANTS
  Limit = 2
  LastMonth = 2
  MaxEvents = 3
  Failures = TRUE
SPECIFICATION Spec
INVARIANTS TypeOK NeverOvercounted GrantedWithinLimit
PROPERTY StoredCatchesUp
