SPECIFICATION MCSpec
CONSTANTS
  w1 = w1
  w2 = w2
  Items <- MCItems
  NumWords = 16
  HalfBits = 2
  Data <- MCData
  Targets <- MCTargets
  Calls <- MCCalls
  Memories <- MCMemories
  MaxCalls = 1
  WordBits = 4
  IntegerFamilies <- AllIntegerCalls
INVARIANTS
  CurrentHalfIsFresh
  SumsAreExact
  ProductsAreExact
  BitsAreInPlace
  CleanedUpComputesTheSame
PROPERTIES
  ImplementsArray
CHECK_DEADLOCK FALSE
