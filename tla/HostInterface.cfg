SPECIFICATION MCSpec
CONSTANTS
    w1 = w1
    w2 = w2
    WorkItems = {w1, w2}
    Sites <- MCSites
    ArgEnd <- MCArgEnd
    BufferWords = 7
    WordModulus = 16
    MaxReserved = 9
    NoValue = NoValue
    UsedFunctions <- MCUsed
    WorkItemOptions <- MCWorkItemOptions
    Ranges <- MCRanges
    SubgroupSizes = {1, 2, 3}
CHECK_DEADLOCK FALSE
INVARIANTS
    PrintedRecordsIntact
    IDFoundArgsFound
    WritesStayInRecord
    RuntimeReadsPrinted
    IInv
    KernelReadsItsArguments
    PushConstantsFit
    WorkItemsKnowTheirPlace
    UniformBlocksAreLegal
    ConstantsReadBack
PROPERTY ImplementsLog
