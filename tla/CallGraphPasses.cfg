SPECIFICATION MCSpec
CONSTANTS
    k1 = k1
    k2 = k2
    f1 = f1
    f2 = f2
    p1 = p1
    p2 = p2
    int = int
    float = float
    Functions <- MCFunctions
    Kernels <- MCKernels
    NumGlobals = 3
    Types = {int, float}
    Programs <- MCPrograms
    PassPrograms <- MCPassPrograms
    PassOptions <- MCPassOptions
    MaxFunctions = 5
    NumArgs = 2
    Params <- MCParams
    Calls <- MCImageCalls
    ImagePrograms <- MCImagePrograms
INVARIANTS
    NoKernelSharesWithItself
    UsersFollowTheirVariable
    NothingLeftToShare
    AccessesKeepTheirPlace
    CallersFirst
    SharedResourcesAreDirect
    FunctionsAreLegal
    ImagesAgree
PROPERTIES
    InlinedOnlyIfNeeded
    CompilationEnds
