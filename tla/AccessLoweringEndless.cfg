SPECIFICATION MCSpec
CONSTANTS
  Ops = {"load"}
  Chains = {"one", "endless"}
  MaxInstructions = 0
  StaleLoads = FALSE
  Families = {}
PROPERTY LoweringEnds
CHECK_DEADLOCK FALSE
