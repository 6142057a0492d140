CONSTANTS
  Requests = {1, 2, 3}
  Keys = {1, 2, 3}
  Processes = {P1, P2}
  Limit = 1
  Threshold = 2
  Faults = TRUE
  LastMinute = 2
SPECIFICATION Spec
SYMMETRY ProcessSymmetry
ACTION_CONSTRAINT ArrivalOrder
CHECK_DEADLOCK FALSE
INVARIANTS
  TypeOK
  LimitHolds
  RefusalsAreDue
  StaleEntriesBounded
