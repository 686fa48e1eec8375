SPECIFICATION MCSpec
CONSTANTS
  Ops = {"load", "store"}
  Chains = {"one", "two"}
  MaxInstructions = 2
  StaleLoads = FALSE
  Families = {{"elements", "memory", "members"}, {"lanes", "phis"}, {"shuffles", "elements"}, {"calls", "memory"}}
INVARIANTS AccessReachesItsBytes LoweredComputesTheSame ReplacedIsRemoved
PROPERTY LoweringEnds
CHECK_DEADLOCK FALSE
