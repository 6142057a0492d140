CONSTANTS
  Decisions = {PD1}
  Users <- MCUsersAll
  Role <- MCRoleAll
  Complete = Complete
  NoCategory = NoCategory
  NoOwner = NoOwner
  Inputs <- MCInputs
  BlankIn <- MCBlankIn
  Blank = ""
  Requests = {1, 2, 3}
  SeedRequest = 0
  SeedPreparer = "operator"
  SeedReviewer = "reviewer"
  Targets = {"observe", "draft"}
  ExpectedVersions = {1, 2}
  EchoClients = FALSE
  Faults = TRUE
SPECIFICATION Spec
SYMMETRY EvidenceSymmetry
ACTION_CONSTRAINTS ArrivalOrder FewerWhenFailing
CHECK_DEADLOCK FALSE
INVARIANTS
  TypeOK
  HandlersChecked
  LedgerMatchesRow
  IndependentReview
  AnswersAreHonest
  AuditsAreTrue
PROPERTIES
  RevisionsAppendOnly
