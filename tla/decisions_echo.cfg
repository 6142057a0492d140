CONSTANTS
  Decisions = {PD1}
  Users <- MCUsers
  Role <- MCRole
  Complete = Complete
  NoCategory = NoCategory
  NoOwner = NoOwner
  Inputs <- MCInputs
  BlankIn <- MCBlankIn
  Blank = ""
  Requests = {1, 2, 3}
  SeedRequest = 0
  SeedPreparer = "operator"
  SeedReviewer = "reviewer"
  Targets = {"observe", "draft"}
  ExpectedVersions = {1, 2, 3}
  EchoClients = TRUE
  Faults = FALSE
SPECIFICATION Spec
SYMMETRY EvidenceSymmetry
ACTION_CONSTRAINT ArrivalOrder
CHECK_DEADLOCK FALSE
INVARIANTS
  CommitsWhatWasChecked
  ReviewedEvidence
PROPERTIES
  FinalContentFrozen
  LedgerSpec
