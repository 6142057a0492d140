CONSTANTS
  Instances = {I1, I2}
  Order <- MCOrder
  Codes = {"S1", "S2", "C"}
  SeedCodes = {"S1", "S2"}
  Kept <- MCKept
  MaxAttempts = 2
  Faults = TRUE
SPECIFICATION Spec
SYMMETRY InstanceSymmetry
INVARIANTS
  TypeOK
  SeedsArriveTogether
  ServesCompleteTables
PROPERTIES
  RestartKeepsWork
