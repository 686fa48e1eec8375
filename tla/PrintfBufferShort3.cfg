SPECIFICATION MCSpec
CONSTANTS
    w1 = w1
    w2 = w2
    WorkItems = {w1, w2}
    Sites <- MCSites3
    ArgEnd <- MCArgEnd3
    BufferWords = 7
    WordModulus = 16
    MaxReserved = 9
    NoValue = NoValue
    UsedFunctions = {}
    WorkItemOptions = {}
    Ranges = {}
    SubgroupSizes = {}
CHECK_DEADLOCK FALSE
INVARIANT WritesStayInRecord
