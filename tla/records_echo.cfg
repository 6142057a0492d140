CONSTANTS
  Records = {R1}
  Users <- MCUsers
  Role <- MCRole
  Complete = Complete
  NoCategory = NoCategory
  NoOwner = NoOwner
  Inputs <- MCInputs
  BlankIn <- MCBlankIn
  Blank = ""
  Requests = {1, 2, 3}
  ExpectedVersions = {1, 2}
  EchoClients = TRUE
  Faults = TRUE
SPECIFICATION Spec
SYMMETRY FieldsSymmetry
ACTION_CONSTRAINTS ArrivalOrder FewerWhenFailing BridgesOnly
CHECK_DEADLOCK FALSE
INVARIANTS
  TypeOK
  HandlersChecked
  TrailReachesStatus
PROPERTIES
  RecordsSpec
