CONSTANTS
  Users <- MCUsers
  Hired <- MCHired
  TTL = 1
  LastTime = 1
  Tasks = {0, 1, 2}
  Faults = TRUE
  LastVersion = 3
SPECIFICATION Spec
ACTION_CONSTRAINTS InOrder Bounds
CHECK_DEADLOCK FALSE
INVARIANTS
  TypeOK
  EchoesShown
  MovedOnce
  ButtonsMatchRoutes
  SpinnerStops
PROPERTIES
  MovesAsShown
  MoveEndsOnNews
  AuthorityIsRecent
