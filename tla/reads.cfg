CONSTANTS
  Actors = {"a", "b"}
  Actions = {"create", "transition"}
  EntityTypes = {"bridge"}
  DefaultSize = 1
  MaxSize = 2
  Asked = {1, 2, 3}
  FirstRows <- MCFirstRows
  LastId = 4
  LastTime = 1
  LastVersion = 3
SPECIFICATION Spec
ACTION_CONSTRAINT FewWrites
CHECK_DEADLOCK FALSE
INVARIANTS
  TypeOK
  PagesMissOnlyWhatSlipped
  RevisionsReachVersion
  SummaryAddsUp
