CONSTANTS
  Instances = {I1, I2}
  Order <- MCOrder
  Codes = {"S1", "S2"}
  SeedCodes = {"S1", "S2"}
  Kept <- MCKept
  MaxAttempts = 2
  Faults = FALSE
SPECIFICATION FairSpec
PROPERTIES
  ServesUnlessEmptied
