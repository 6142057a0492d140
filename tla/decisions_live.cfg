CONSTANTS
  Decisions = {PD1}
  Users <- MCUsers
  Role <- MCRole
  Complete = Complete
  NoCategory = NoCategory
  NoOwner = NoOwner
  Inputs <- MCInputs
  BlankIn <- MCBlankIn
  Blank = ""
  Requests = {1, 2}
  SeedRequest = 0
  SeedPreparer = "operator"
  SeedReviewer = "reviewer"
  Targets = {"observe", "draft"}
  ExpectedVersions = {1, 2, 3}
  EchoClients = FALSE
  Faults = FALSE
SPECIFICATION FairSpec
CHECK_DEADLOCK FALSE
PROPERTIES
  EveryRequestAnswered
  CommittedIsAudited
